---------------------------- MODULE RivalsProofs ----------------------------
(***************************************************************************)
(* Proofs about two runs of dv-backup at once, for any containers, mounts  *)
(* and first states.                                                       *)
(*                                                                         *)
(* What one run does is, to the other, what any other actor might do: each *)
(* of the two is a Stopper, and the theorems of StopperProofs hold of both.*)
(* They excuse what other actors touched, though.  Here the only other     *)
(* actor is the other run, and the two invariants say that it leaves       *)
(* nothing to excuse: a container on which one run saw the other act is    *)
(* one that either took down (TouchedInv), and one of the two answers for  *)
(* each of these (AnsweredInv).                                            *)
(***************************************************************************)
EXTENDS Rivals, TLAPS

AP == INSTANCE StopperProofs WITH
    inflight <- inflightA, phase <- phaseA, snap <- snapA, wanted <- wantedA,
    todo <- todoA, cur <- curA, at <- atA, stopped <- stoppedA, toStart <- toStartA,
    failed <- failedA, restartErrs <- restartErrsA, cancelled <- cancelledA,
    budget <- budgetA, touched <- touchedA, broughtDown <- broughtDownA,
    revived <- revivedA

BP == INSTANCE StopperProofs WITH
    inflight <- inflightB, phase <- phaseB, snap <- snapB, wanted <- wantedB,
    todo <- todoB, cur <- curB, at <- atB, stopped <- stoppedB, toStart <- toStartB,
    failed <- failedB, restartErrs <- restartErrsB, cancelled <- cancelledB,
    budget <- budgetB, touched <- touchedB, broughtDown <- broughtDownB,
    revived <- revivedB

-----------------------------------------------------------------------------
(* Each of the two is a stopper.                                           *)

\* What a stopper assumes of the constants holds for both runs.
LEMMA BothAssume == AP!ConstantsAssumption /\ BP!ConstantsAssumption
BY RivalsAssumption DEF A!ConstantsAssumption, AP!ConstantsAssumption,
   BP!ConstantsAssumption, A!States, AP!States, BP!States

\* A step of run A is one of its own as a stopper; what run B changes is a step
\* of another actor to it, and what B does without changing a container is none.
LEMMA StepsOfA ==
    /\ StepOfA => AP!OwnStep
    /\ A!OtherStep => AP!OtherStep
    /\ [RivalsNext]_vars => [AP!Next]_(AP!vars)
<1>1. StepOfA => AP!OwnStep
  BY DEF StepOfA, AP!OwnStep, A!RunStep, A!DaemonStep, A!daemonVars, A!runVars,
     A!otherVars, A!historyVars, A!ListContainers, A!Leave, A!SkipStop, A!BeginStop,
     A!ReadStartedAt, A!StartOk, A!StartFails, A!StartedAtFails, A!SendStop, A!StopOk,
     A!StopRefused, A!StopReturns, A!BeginRestart, A!RestartReturns, A!StopLost,
     A!Cancel, A!DaemonStops, A!StopFailed, A!Bring, A!NextToStart, A!UsersOf,
     A!InUse, A!IsHelper, A!UsesVolume, AP!RunStep, AP!DaemonStep, AP!daemonVars,
     AP!runVars, AP!otherVars, AP!historyVars, AP!ListContainers, AP!Leave,
     AP!SkipStop, AP!BeginStop, AP!ReadStartedAt, AP!StartOk, AP!StartFails,
     AP!StartedAtFails, AP!SendStop, AP!StopOk, AP!StopRefused, AP!StopReturns,
     AP!BeginRestart, AP!RestartReturns, AP!StopLost, AP!Cancel, AP!DaemonStops,
     AP!StopFailed, AP!Bring, AP!NextToStart, AP!UsersOf, AP!InUse, AP!IsHelper,
     AP!UsesVolume
<1>2. A!OtherStep => AP!OtherStep
  BY DEF A!OtherStep, A!OtherStarts, A!OtherStops, A!OtherRemoves, A!OtherActs,
     A!runVars, A!historyVars, A!InUse, AP!OtherStep, AP!OtherStarts, AP!OtherStops,
     AP!OtherRemoves, AP!OtherActs, AP!runVars, AP!historyVars, AP!InUse
<1>3. StepOfB /\ UNCHANGED <<hostVars, aVars>> => UNCHANGED AP!vars
  BY DEF hostVars, aVars, AP!vars, AP!daemonVars, AP!runVars, AP!otherVars,
     AP!historyVars
<1>4. UNCHANGED vars => UNCHANGED AP!vars
  BY DEF vars, hostVars, aVars, AP!vars, AP!daemonVars, AP!runVars, AP!otherVars,
     AP!historyVars
<1>5. QED
  BY <1>1, <1>2, <1>3, <1>4
     DEF RivalsNext, SeenByA, AP!OwnStep, AP!Next

\* A step of run B is one of its own as a stopper; what run A changes is a step
\* of another actor to it, and what A does without changing a container is none.
LEMMA StepsOfB ==
    /\ StepOfB => BP!OwnStep
    /\ B!OtherStep => BP!OtherStep
    /\ [RivalsNext]_vars => [BP!Next]_(BP!vars)
<1>1. StepOfB => BP!OwnStep
  BY DEF StepOfB, BP!OwnStep, B!RunStep, B!DaemonStep, B!daemonVars, B!runVars,
     B!otherVars, B!historyVars, B!ListContainers, B!Leave, B!SkipStop, B!BeginStop,
     B!ReadStartedAt, B!StartOk, B!StartFails, B!StartedAtFails, B!SendStop, B!StopOk,
     B!StopRefused, B!StopReturns, B!BeginRestart, B!RestartReturns, B!StopLost,
     B!Cancel, B!DaemonStops, B!StopFailed, B!Bring, B!NextToStart, B!UsersOf,
     B!InUse, B!IsHelper, B!UsesVolume, BP!RunStep, BP!DaemonStep, BP!daemonVars,
     BP!runVars, BP!otherVars, BP!historyVars, BP!ListContainers, BP!Leave,
     BP!SkipStop, BP!BeginStop, BP!ReadStartedAt, BP!StartOk, BP!StartFails,
     BP!StartedAtFails, BP!SendStop, BP!StopOk, BP!StopRefused, BP!StopReturns,
     BP!BeginRestart, BP!RestartReturns, BP!StopLost, BP!Cancel, BP!DaemonStops,
     BP!StopFailed, BP!Bring, BP!NextToStart, BP!UsersOf, BP!InUse, BP!IsHelper,
     BP!UsesVolume
<1>2. B!OtherStep => BP!OtherStep
  BY DEF B!OtherStep, B!OtherStarts, B!OtherStops, B!OtherRemoves, B!OtherActs,
     B!runVars, B!historyVars, B!InUse, BP!OtherStep, BP!OtherStarts, BP!OtherStops,
     BP!OtherRemoves, BP!OtherActs, BP!runVars, BP!historyVars, BP!InUse
<1>3. StepOfA /\ UNCHANGED <<hostVars, bVars>> => UNCHANGED BP!vars
  BY DEF hostVars, bVars, BP!vars, BP!daemonVars, BP!runVars, BP!otherVars,
     BP!historyVars
<1>4. UNCHANGED vars => UNCHANGED BP!vars
  BY DEF vars, hostVars, bVars, BP!vars, BP!daemonVars, BP!runVars, BP!otherVars,
     BP!historyVars
<1>5. QED
  BY <1>1, <1>2, <1>3, <1>4
     DEF RivalsNext, SeenByB, BP!OwnStep, BP!Next

\* Whatever the other does, each of two runs keeps to the protocol of one.
THEOREM EachIsAStopper == RivalsSpec => AP!Spec /\ BP!Spec
<1>1. RivalsInit => AP!Init /\ BP!Init
  BY DEF RivalsInit, A!Init, AP!Init, B!Init, BP!Init
<1>2. [RivalsNext]_vars => [AP!Next]_(AP!vars) /\ [BP!Next]_(BP!vars)
  BY StepsOfA, StepsOfB
<1>3. QED
  BY <1>1, <1>2, PTL DEF RivalsSpec, AP!Spec, BP!Spec

\* The stopper's invariant holds of both runs.
LEMMA BothInductive == RivalsSpec => []AP!IInv /\ []BP!IInv
<1>1. (AP!Spec => []AP!IInv) /\ (BP!Spec => []BP!IInv)
  BY BothAssume, AP!Inductive, BP!Inductive
<1>2. QED
  BY <1>1, EachIsAStopper, PTL

-----------------------------------------------------------------------------
(* What the two know of each other.                                        *)

\* A container on which one run saw the other act is one that either took down.
TouchedInv == touchedA \cup touchedB \subseteq TakenDown

\* One of the two answers for each container that one of them took down.
AnsweredInv ==
    /\ phaseA # "killed" /\ phaseB # "killed"
    /\ \A c \in TakenDown : AP!Answered(c) \/ BP!Answered(c)

RivalsInv == TouchedInv /\ AnsweredInv

\* The invariants under a step of run A.
LEMMA KeptByA ==
  ASSUME AP!IInv, BP!IInv, AP!IInv', BP!IInv', RivalsInv, StepOfA, SeenByB
  PROVE  RivalsInv'
<1> USE DEF AP!IInv, BP!IInv, RivalsInv, TakenDown
<1>1. AP!OwnStep
  BY StepsOfA
<1>2. /\ phaseA' # "killed"
      /\ \A c \in Containers :
             AP!Answered(c) \/ c \in broughtDownA' \ broughtDownA => AP!Answered(c)'
  BY <1>1, BothAssume, AP!StaysAnswered DEF AnsweredInv
<1>3. /\ \A c \in Containers :
             cstate'[c] # cstate[c] => c \in broughtDownA' \cup revivedA'
      /\ touchedA' = touchedA /\ broughtDownA \subseteq broughtDownA'
  BY <1>1, BothAssume, AP!OwnChanges
<1>4. /\ \/ touchedB' = touchedB
         \/ \E c \in Containers : touchedB' = touchedB \cup {c} /\ cstate'[c] # cstate[c]
      /\ UNCHANGED <<BP!runVars, broughtDownB, revivedB>>
  <2>1. CASE UNCHANGED hostVars
    BY <2>1 DEF SeenByB, bVars, BP!runVars
  <2>2. CASE B!OtherStep
    BY <2>2, BothAssume, StepsOfB, BP!OthersChange DEF BP!historyVars
  <2>3. QED
    BY <2>1, <2>2 DEF SeenByB
<1>5. revivedA' \subseteq broughtDownA' \cup touchedA'
  BY DEF AP!DownInv
<1>6. TouchedInv'
  BY <1>3, <1>4, <1>5 DEF TouchedInv
<1>7. AnsweredInv'
  <2>1. ASSUME NEW c \in TakenDown' PROVE AP!Answered(c)' \/ BP!Answered(c)'
    <3>1. c \in Containers
      BY <2>1 DEF AP!TypeOK, BP!TypeOK
    <3>2. CASE c \in broughtDownA' \ broughtDownA
      BY <1>2, <3>1, <3>2
    <3>3. CASE c \in TakenDown /\ AP!Answered(c)
      BY <1>2, <3>1, <3>3
    <3>4. CASE c \in TakenDown /\ BP!Answered(c) /\ ~AP!Answered(c)
      <4>1. ~BP!InUse(cstate[c])
        BY <3>4 DEF AP!Answered, AP!InUse, BP!InUse
      <4>2. QED
        BY <3>4, <4>1, <1>4 DEF BP!Answered, BP!runVars
    <3>5. QED
      BY <1>4, <2>1, <3>2, <3>3, <3>4 DEF AnsweredInv
  <2>2. QED
    BY <1>2, <1>4, <2>1 DEF AnsweredInv, BP!runVars
<1>8. QED
  BY <1>6, <1>7

\* The invariants under a step of run B.
LEMMA KeptByB ==
  ASSUME AP!IInv, BP!IInv, AP!IInv', BP!IInv', RivalsInv, StepOfB, SeenByA
  PROVE  RivalsInv'
<1> USE DEF AP!IInv, BP!IInv, RivalsInv, TakenDown
<1>1. BP!OwnStep
  BY StepsOfB
<1>2. /\ phaseB' # "killed"
      /\ \A c \in Containers :
             BP!Answered(c) \/ c \in broughtDownB' \ broughtDownB => BP!Answered(c)'
  BY <1>1, BothAssume, BP!StaysAnswered DEF AnsweredInv
<1>3. /\ \A c \in Containers :
             cstate'[c] # cstate[c] => c \in broughtDownB' \cup revivedB'
      /\ touchedB' = touchedB /\ broughtDownB \subseteq broughtDownB'
  BY <1>1, BothAssume, BP!OwnChanges
<1>4. /\ \/ touchedA' = touchedA
         \/ \E c \in Containers : touchedA' = touchedA \cup {c} /\ cstate'[c] # cstate[c]
      /\ UNCHANGED <<AP!runVars, broughtDownA, revivedA>>
  <2>1. CASE UNCHANGED hostVars
    BY <2>1 DEF SeenByA, aVars, AP!runVars
  <2>2. CASE A!OtherStep
    BY <2>2, BothAssume, StepsOfA, AP!OthersChange DEF AP!historyVars
  <2>3. QED
    BY <2>1, <2>2 DEF SeenByA
<1>5. revivedB' \subseteq broughtDownB' \cup touchedB'
  BY DEF BP!DownInv
<1>6. TouchedInv'
  BY <1>3, <1>4, <1>5 DEF TouchedInv
<1>7. AnsweredInv'
  <2>1. ASSUME NEW c \in TakenDown' PROVE AP!Answered(c)' \/ BP!Answered(c)'
    <3>1. c \in Containers
      BY <2>1 DEF AP!TypeOK, BP!TypeOK
    <3>2. CASE c \in broughtDownB' \ broughtDownB
      BY <1>2, <3>1, <3>2
    <3>3. CASE c \in TakenDown /\ BP!Answered(c)
      BY <1>2, <3>1, <3>3
    <3>4. CASE c \in TakenDown /\ AP!Answered(c) /\ ~BP!Answered(c)
      <4>1. ~AP!InUse(cstate[c])
        BY <3>4 DEF BP!Answered, BP!InUse, AP!InUse
      <4>2. QED
        BY <3>4, <4>1, <1>4 DEF AP!Answered, AP!runVars
    <3>5. QED
      BY <1>4, <2>1, <3>2, <3>3, <3>4 DEF AnsweredInv
  <2>2. QED
    BY <1>2, <1>4, <2>1 DEF AnsweredInv, AP!runVars
<1>8. QED
  BY <1>6, <1>7

\* The invariants of the two runs hold in every reachable state.
THEOREM RivalsInductive == RivalsSpec => []RivalsInv
<1>1. RivalsInit => RivalsInv
  BY DEF RivalsInit, A!Init, B!Init, RivalsInv, TouchedInv, AnsweredInv, TakenDown
<1>2. /\ AP!IInv /\ BP!IInv /\ AP!IInv' /\ BP!IInv'
      /\ RivalsInv /\ [RivalsNext]_vars
      => RivalsInv'
  <2> SUFFICES ASSUME AP!IInv, BP!IInv, AP!IInv', BP!IInv', RivalsInv, [RivalsNext]_vars
               PROVE  RivalsInv'
    OBVIOUS
  <2>1. CASE StepOfA /\ SeenByB
    BY <2>1, KeptByA
  <2>2. CASE StepOfB /\ SeenByA
    BY <2>2, KeptByB
  <2>3. CASE UNCHANGED vars
    BY <2>3 DEF RivalsInv, TouchedInv, AnsweredInv, TakenDown, vars, hostVars, aVars,
       bVars,
       AP!Answered, BP!Answered, AP!InUse, BP!InUse, AP!Before, BP!Before
  <2>4. QED
    BY <2>1, <2>2, <2>3 DEF RivalsNext
<1>3. QED
  BY <1>1, <1>2, BothInductive, PTL DEF RivalsSpec

\* When both runs have returned, what either took down runs again or is named in
\* an error, however the two were interleaved.
THEOREM AllComeBack == RivalsSpec => []AllBack
<1>1. AP!IInv /\ BP!IInv /\ RivalsInv => AllBack
  BY DEF RivalsInv, AnsweredInv, AllBack, Named, TakenDown, AP!Answered, BP!Answered,
     A!InUse, AP!InUse, BP!InUse, AP!Before, BP!Before
<1>2. QED
  BY <1>1, BothInductive, RivalsInductive, PTL

\* Between them the two start only what one of them took down.
THEOREM RestartOnlyOurs == RivalsSpec => []OnlyOurs
<1>1. AP!IInv /\ BP!IInv /\ RivalsInv => OnlyOurs
  BY DEF AP!IInv, BP!IInv, AP!DownInv, BP!DownInv, RivalsInv, TouchedInv, OnlyOurs,
     TakenDown
<1>2. QED
  BY <1>1, BothInductive, RivalsInductive, PTL
=============================================================================
