---------------------------- MODULE StopperProofs ---------------------------
(***************************************************************************)
(* Proofs of the stopper's safety properties, for any containers, mounts,  *)
(* first states and number of steps of other actors.                       *)
(*                                                                         *)
(* None of the properties is inductive by itself.  The inductive invariant *)
(* is the conjunction of TypeOK and the five parts below; each part is     *)
(* preserved given the ones before it.                                     *)
(***************************************************************************)
EXTENDS Stopper, TLAPS

USE DEF InUse

Before == {"listed", "stop", "inspected", "sent", "held", "failed"}
Stopping == {"inspected", "sent"}

\* The container Stop is at, if any.
AtHand == IF phase \in Stopping THEN {cur} ELSE {}

\* Whatever Stop has visited, is visiting or will visit is a user.
UserInv ==
    /\ \A c \in todo \cup inflight \cup stopped \cup broughtDown \cup AtHand :
           c \notin Helpers /\ InUse(snap[c]) /\ Mounts[c] \cap wanted # {}
    /\ phase \in {"start", "listed"} =>
           todo \cup inflight \cup stopped \cup broughtDown \cup wanted = {}

\* Until Restart, an untouched container is down if it was taken down and as it
\* was listed if not; recorded containers are down or were touched.
DownInv ==
    /\ phase \in Before => \A c \in Containers \ touched :
           IF c \in broughtDown THEN ~InUse(cstate[c]) ELSE cstate[c] = snap[c]
    /\ phase = "sent" /\ cur \notin inflight => cur \in broughtDown \cup touched
    /\ stopped \subseteq broughtDown \cup touched
    /\ revived \subseteq broughtDown \cup touched

\* Stop forgets no user.
VisitInv ==
    phase \in {"stop", "inspected", "sent", "held"} =>
        /\ \A c \in Containers \ Helpers :
            InUse(snap[c]) /\ Mounts[c] \cap wanted # {} => c \in todo \cup stopped \cup AtHand
        /\ phase = "held" => todo = {}

\* Who answers for a container this run took down, or may still take down.
AccountInv ==
    /\ failed # {} => phase \notin {"start", "listed", "stop", "inspected", "sent", "held"}
    /\ \A c \in inflight : c \in failed \/ phase = "killed" \/ (phase = "sent" /\ c = cur)
    /\ \A c \in broughtDown \ touched :
        \/ InUse(cstate[c]) \/ c \in failed \cup restartErrs \/ phase = "killed"
        \/ phase = "sent" /\ c = cur
        \/ phase \in Before /\ c \in stopped
        \/ phase = "restart" /\ c \in toStart

\* The restarted containers came up in order, and before those still to come.
OrderInv ==
    /\ phase \in Before \cup {"start"} => revived = {}
    /\ phase = "restart" =>
        /\ revived \cap toStart = {}
        /\ \A c \in revived \ touched : \A d \in toStart : at[c] <= at[d]
    /\ \A c \in revived \ touched : started[c] < clock
    /\ StartOrderKept

-----------------------------------------------------------------------------
\* The initial states have the right types.
LEMMA TypeInit == Init => TypeOK
<1> SUFFICES ASSUME Init PROVE TypeOK
  OBVIOUS
<1> USE ConstantsAssumption DEF ConstantsAssumption
<1>1. FirstTimes \subseteq Nat
  OBVIOUS
<1>2. started \in [Containers -> Nat]
  BY <1>1 DEF Init
<1>3. cstate \in [Containers -> States] /\ snap \in [Containers -> States]
  BY DEF Init, States
<1>4. at \in [Containers -> Nat] /\ clock \in Nat /\ budget \in 0..OtherSteps
  BY DEF Init
<1>5. QED
  BY <1>2, <1>3, <1>4 DEF Init, TypeOK, Phases

\* The types, action by action.
LEMMA TypeStep == TypeOK /\ [Next]_vars => TypeOK'
<1> SUFFICES ASSUME TypeOK, [Next]_vars PROVE TypeOK'
  OBVIOUS
<1> USE ConstantsAssumption DEF ConstantsAssumption, TypeOK, Phases, States,
        daemonVars, runVars, otherVars, historyVars
<1>1. ASSUME ListContainers PROVE TypeOK'
  BY <1>1 DEF ListContainers
<1>2. ASSUME Leave PROVE TypeOK'
  BY <1>2 DEF Leave
<1>3. ASSUME SkipStop PROVE TypeOK'
  BY <1>3 DEF SkipStop
<1>4. ASSUME NEW vs \in SUBSET Volumes, BeginStop(vs) PROVE TypeOK'
  BY <1>4 DEF BeginStop, UsersOf
<1>5. ASSUME NEW c \in Containers, ReadStartedAt(c) PROVE TypeOK'
  BY <1>5 DEF ReadStartedAt
<1>6. ASSUME NEW c \in Containers, StartOk(c) PROVE TypeOK'
  BY <1>6 DEF StartOk, NextToStart, Bring
<1>7. ASSUME NEW c \in Containers, StartFails(c) PROVE TypeOK'
  BY <1>7 DEF StartFails, NextToStart, Bring
<1>8. ASSUME StartedAtFails PROVE TypeOK'
  BY <1>8 DEF StartedAtFails
<1>9. ASSUME SendStop PROVE TypeOK'
  BY <1>9 DEF SendStop
<1>10. ASSUME StopOk PROVE TypeOK'
  BY <1>10 DEF StopOk
<1>11. ASSUME StopRefused PROVE TypeOK'
  BY <1>11 DEF StopRefused, StopFailed
<1>12. ASSUME StopReturns PROVE TypeOK'
  BY <1>12 DEF StopReturns
<1>13. ASSUME BeginRestart PROVE TypeOK'
  BY <1>13 DEF BeginRestart
<1>14. ASSUME RestartReturns PROVE TypeOK'
  BY <1>14 DEF RestartReturns
<1>15. ASSUME StopLost PROVE TypeOK'
  BY <1>15 DEF StopLost, StopFailed
<1>16. ASSUME Cancel PROVE TypeOK'
  BY <1>16 DEF Cancel
<1>17. ASSUME Kill PROVE TypeOK'
  BY <1>17 DEF Kill
<1>18. ASSUME NEW c \in Containers, DaemonStops(c) PROVE TypeOK'
  BY <1>18 DEF DaemonStops
<1>19. ASSUME NEW c \in Containers, OtherStarts(c) PROVE TypeOK'
  BY <1>19 DEF OtherStarts, OtherActs
<1>20. ASSUME NEW c \in Containers, OtherStops(c) PROVE TypeOK'
  BY <1>20 DEF OtherStops, OtherActs
<1>21. ASSUME NEW c \in Containers, OtherRemoves(c) PROVE TypeOK'
  BY <1>21 DEF OtherRemoves, OtherActs
<1>22. CASE UNCHANGED vars
  BY <1>22 DEF vars
<1>23. QED
  BY <1>1, <1>2, <1>3, <1>4, <1>5, <1>6, <1>7, <1>8, <1>9, <1>10, <1>11, <1>12, <1>13,
     <1>14, <1>15, <1>16, <1>17, <1>18, <1>19, <1>20, <1>21, <1>22 DEF Next, RunStep,
     DaemonStep, OtherStep

\* Every variable of the stopper keeps its type (type invariant).
THEOREM TypeCorrect == Spec => []TypeOK
  BY TypeInit, TypeStep, PTL DEF Spec

-----------------------------------------------------------------------------
\* One step per action: what Stop visits, stops and records.
LEMMA UserStep == TypeOK /\ UserInv /\ [Next]_vars => UserInv'
<1> SUFFICES ASSUME TypeOK, UserInv, [Next]_vars PROVE UserInv'
  OBVIOUS
<1> USE ConstantsAssumption DEF ConstantsAssumption, UserInv, AtHand, Stopping,
        TypeOK, Phases, UsesVolume, IsHelper, daemonVars, runVars, otherVars,
        historyVars
<1>1. ASSUME ListContainers PROVE UserInv'
  BY <1>1 DEF ListContainers
<1>2. ASSUME Leave PROVE UserInv'
  BY <1>2 DEF Leave
<1>3. ASSUME SkipStop PROVE UserInv'
  BY <1>3 DEF SkipStop
<1>4. ASSUME NEW vs \in SUBSET Volumes, BeginStop(vs) PROVE UserInv'
  BY <1>4 DEF BeginStop, UsersOf
<1>5. ASSUME NEW c \in Containers, ReadStartedAt(c) PROVE UserInv'
  BY <1>5 DEF ReadStartedAt
<1>6. ASSUME NEW c \in Containers, StartOk(c) PROVE UserInv'
  BY <1>6 DEF StartOk, NextToStart, Bring
<1>7. ASSUME NEW c \in Containers, StartFails(c) PROVE UserInv'
  BY <1>7 DEF StartFails, NextToStart, Bring
<1>8. ASSUME StartedAtFails PROVE UserInv'
  BY <1>8 DEF StartedAtFails
<1>9. ASSUME SendStop PROVE UserInv'
  BY <1>9 DEF SendStop
<1>10. ASSUME StopOk PROVE UserInv'
  BY <1>10 DEF StopOk
<1>11. ASSUME StopRefused PROVE UserInv'
  BY <1>11 DEF StopRefused, StopFailed
<1>12. ASSUME StopReturns PROVE UserInv'
  BY <1>12 DEF StopReturns
<1>13. ASSUME BeginRestart PROVE UserInv'
  BY <1>13 DEF BeginRestart
<1>14. ASSUME RestartReturns PROVE UserInv'
  BY <1>14 DEF RestartReturns
<1>15. ASSUME StopLost PROVE UserInv'
  BY <1>15 DEF StopLost, StopFailed
<1>16. ASSUME Cancel PROVE UserInv'
  BY <1>16 DEF Cancel
<1>17. ASSUME Kill PROVE UserInv'
  BY <1>17 DEF Kill
<1>18. ASSUME NEW c \in Containers, DaemonStops(c) PROVE UserInv'
  BY <1>18 DEF DaemonStops
<1>19. ASSUME NEW c \in Containers, OtherStarts(c) PROVE UserInv'
  BY <1>19 DEF OtherStarts, OtherActs
<1>20. ASSUME NEW c \in Containers, OtherStops(c) PROVE UserInv'
  BY <1>20 DEF OtherStops, OtherActs
<1>21. ASSUME NEW c \in Containers, OtherRemoves(c) PROVE UserInv'
  BY <1>21 DEF OtherRemoves, OtherActs
<1>22. CASE UNCHANGED vars
  BY <1>22 DEF vars
<1>23. QED
  BY <1>1, <1>2, <1>3, <1>4, <1>5, <1>6, <1>7, <1>8, <1>9, <1>10, <1>11, <1>12, <1>13,
     <1>14, <1>15, <1>16, <1>17, <1>18, <1>19, <1>20, <1>21, <1>22 DEF Next, RunStep,
     DaemonStep, OtherStep

\* What is down while volumes are held, action by action.
LEMMA DownStep == TypeOK /\ UserInv /\ DownInv /\ [Next]_vars => DownInv'
<1> SUFFICES ASSUME TypeOK, UserInv, DownInv, [Next]_vars PROVE DownInv'
  OBVIOUS
<1> USE ConstantsAssumption DEF ConstantsAssumption, DownInv, Before, TypeOK,
        Phases, States, UserInv, AtHand, Stopping, daemonVars, runVars, otherVars,
        historyVars
<1>1. ASSUME ListContainers PROVE DownInv'
  BY <1>1 DEF ListContainers
<1>2. ASSUME Leave PROVE DownInv'
  BY <1>2 DEF Leave
<1>3. ASSUME SkipStop PROVE DownInv'
  BY <1>3 DEF SkipStop
<1>4. ASSUME NEW vs \in SUBSET Volumes, BeginStop(vs) PROVE DownInv'
  BY <1>4 DEF BeginStop, UsersOf
<1>5. ASSUME NEW c \in Containers, ReadStartedAt(c) PROVE DownInv'
  BY <1>5 DEF ReadStartedAt
<1>6. ASSUME NEW c \in Containers, StartOk(c) PROVE DownInv'
  BY <1>6 DEF StartOk, NextToStart, Bring
<1>7. ASSUME NEW c \in Containers, StartFails(c) PROVE DownInv'
  BY <1>7 DEF StartFails, NextToStart, Bring
<1>8. ASSUME StartedAtFails PROVE DownInv'
  BY <1>8 DEF StartedAtFails
<1>9. ASSUME SendStop PROVE DownInv'
  BY <1>9 DEF SendStop
<1>10. ASSUME StopOk PROVE DownInv'
  BY <1>10 DEF StopOk
<1>11. ASSUME StopRefused PROVE DownInv'
  BY <1>11 DEF StopRefused, StopFailed
<1>12. ASSUME StopReturns PROVE DownInv'
  BY <1>12 DEF StopReturns
<1>13. ASSUME BeginRestart PROVE DownInv'
  BY <1>13 DEF BeginRestart
<1>14. ASSUME RestartReturns PROVE DownInv'
  BY <1>14 DEF RestartReturns
<1>15. ASSUME StopLost PROVE DownInv'
  BY <1>15 DEF StopLost, StopFailed
<1>16. ASSUME Cancel PROVE DownInv'
  BY <1>16 DEF Cancel
<1>17. ASSUME Kill PROVE DownInv'
  BY <1>17 DEF Kill
<1>18. ASSUME NEW c \in Containers, DaemonStops(c) PROVE DownInv'
  BY <1>18 DEF DaemonStops
<1>19. ASSUME NEW c \in Containers, OtherStarts(c) PROVE DownInv'
  BY <1>19 DEF OtherStarts, OtherActs
<1>20. ASSUME NEW c \in Containers, OtherStops(c) PROVE DownInv'
  BY <1>20 DEF OtherStops, OtherActs
<1>21. ASSUME NEW c \in Containers, OtherRemoves(c) PROVE DownInv'
  BY <1>21 DEF OtherRemoves, OtherActs
<1>22. CASE UNCHANGED vars
  BY <1>22 DEF vars
<1>23. QED
  BY <1>1, <1>2, <1>3, <1>4, <1>5, <1>6, <1>7, <1>8, <1>9, <1>10, <1>11, <1>12, <1>13,
     <1>14, <1>15, <1>16, <1>17, <1>18, <1>19, <1>20, <1>21, <1>22 DEF Next, RunStep,
     DaemonStep, OtherStep

\* What Restart has visited, action by action.
LEMMA VisitStep == TypeOK /\ UserInv /\ VisitInv /\ [Next]_vars => VisitInv'
<1> SUFFICES ASSUME TypeOK, UserInv, VisitInv, [Next]_vars PROVE VisitInv'
  OBVIOUS
<1> USE ConstantsAssumption DEF ConstantsAssumption, VisitInv, AtHand, Stopping,
        TypeOK, UserInv, UsesVolume, IsHelper, daemonVars, runVars, otherVars,
        historyVars
<1>1. ASSUME ListContainers PROVE VisitInv'
  BY <1>1 DEF ListContainers
<1>2. ASSUME Leave PROVE VisitInv'
  BY <1>2 DEF Leave
<1>3. ASSUME SkipStop PROVE VisitInv'
  BY <1>3 DEF SkipStop
<1>4. ASSUME NEW vs \in SUBSET Volumes, BeginStop(vs) PROVE VisitInv'
  BY <1>4 DEF BeginStop, UsersOf
<1>5. ASSUME NEW c \in Containers, ReadStartedAt(c) PROVE VisitInv'
  BY <1>5 DEF ReadStartedAt
<1>6. ASSUME NEW c \in Containers, StartOk(c) PROVE VisitInv'
  BY <1>6 DEF StartOk, NextToStart, Bring
<1>7. ASSUME NEW c \in Containers, StartFails(c) PROVE VisitInv'
  BY <1>7 DEF StartFails, NextToStart, Bring
<1>8. ASSUME StartedAtFails PROVE VisitInv'
  BY <1>8 DEF StartedAtFails
<1>9. ASSUME SendStop PROVE VisitInv'
  BY <1>9 DEF SendStop
<1>10. ASSUME StopOk PROVE VisitInv'
  BY <1>10 DEF StopOk
<1>11. ASSUME StopRefused PROVE VisitInv'
  BY <1>11 DEF StopRefused, StopFailed
<1>12. ASSUME StopReturns PROVE VisitInv'
  BY <1>12 DEF StopReturns
<1>13. ASSUME BeginRestart PROVE VisitInv'
  BY <1>13 DEF BeginRestart
<1>14. ASSUME RestartReturns PROVE VisitInv'
  BY <1>14 DEF RestartReturns
<1>15. ASSUME StopLost PROVE VisitInv'
  BY <1>15 DEF StopLost, StopFailed
<1>16. ASSUME Cancel PROVE VisitInv'
  BY <1>16 DEF Cancel
<1>17. ASSUME Kill PROVE VisitInv'
  BY <1>17 DEF Kill
<1>18. ASSUME NEW c \in Containers, DaemonStops(c) PROVE VisitInv'
  BY <1>18 DEF DaemonStops
<1>19. ASSUME NEW c \in Containers, OtherStarts(c) PROVE VisitInv'
  BY <1>19 DEF OtherStarts, OtherActs
<1>20. ASSUME NEW c \in Containers, OtherStops(c) PROVE VisitInv'
  BY <1>20 DEF OtherStops, OtherActs
<1>21. ASSUME NEW c \in Containers, OtherRemoves(c) PROVE VisitInv'
  BY <1>21 DEF OtherRemoves, OtherActs
<1>22. CASE UNCHANGED vars
  BY <1>22 DEF vars
<1>23. QED
  BY <1>1, <1>2, <1>3, <1>4, <1>5, <1>6, <1>7, <1>8, <1>9, <1>10, <1>11, <1>12, <1>13,
     <1>14, <1>15, <1>16, <1>17, <1>18, <1>19, <1>20, <1>21, <1>22 DEF Next, RunStep,
     DaemonStep, OtherStep

\* What becomes of a container that was taken down, action by action.
LEMMA AccountStep == TypeOK /\ UserInv /\ AccountInv /\ [Next]_vars => AccountInv'
<1> SUFFICES ASSUME TypeOK, UserInv, AccountInv, [Next]_vars PROVE AccountInv'
  OBVIOUS
<1> USE ConstantsAssumption DEF ConstantsAssumption, AccountInv, Before, TypeOK,
        Phases, UserInv, AtHand, Stopping, daemonVars, runVars, otherVars,
        historyVars
<1>1. ASSUME ListContainers PROVE AccountInv'
  BY <1>1 DEF ListContainers
<1>2. ASSUME Leave PROVE AccountInv'
  BY <1>2 DEF Leave
<1>3. ASSUME SkipStop PROVE AccountInv'
  BY <1>3 DEF SkipStop
<1>4. ASSUME NEW vs \in SUBSET Volumes, BeginStop(vs) PROVE AccountInv'
  BY <1>4 DEF BeginStop, UsersOf
<1>5. ASSUME NEW c \in Containers, ReadStartedAt(c) PROVE AccountInv'
  BY <1>5 DEF ReadStartedAt
<1>6. ASSUME NEW c \in Containers, StartOk(c) PROVE AccountInv'
  BY <1>6 DEF StartOk, NextToStart, Bring
<1>7. ASSUME NEW c \in Containers, StartFails(c) PROVE AccountInv'
  BY <1>7 DEF StartFails, NextToStart, Bring
<1>8. ASSUME StartedAtFails PROVE AccountInv'
  BY <1>8 DEF StartedAtFails
<1>9. ASSUME SendStop PROVE AccountInv'
  BY <1>9 DEF SendStop
<1>10. ASSUME StopOk PROVE AccountInv'
  BY <1>10 DEF StopOk
<1>11. ASSUME StopRefused PROVE AccountInv'
  BY <1>11 DEF StopRefused, StopFailed
<1>12. ASSUME StopReturns PROVE AccountInv'
  BY <1>12 DEF StopReturns
<1>13. ASSUME BeginRestart PROVE AccountInv'
  BY <1>13 DEF BeginRestart
<1>14. ASSUME RestartReturns PROVE AccountInv'
  BY <1>14 DEF RestartReturns
<1>15. ASSUME StopLost PROVE AccountInv'
  BY <1>15 DEF StopLost, StopFailed
<1>16. ASSUME Cancel PROVE AccountInv'
  BY <1>16 DEF Cancel
<1>17. ASSUME Kill PROVE AccountInv'
  BY <1>17 DEF Kill
<1>18. ASSUME NEW c \in Containers, DaemonStops(c) PROVE AccountInv'
  BY <1>18 DEF DaemonStops
<1>19. ASSUME NEW c \in Containers, OtherStarts(c) PROVE AccountInv'
  BY <1>19 DEF OtherStarts, OtherActs
<1>20. ASSUME NEW c \in Containers, OtherStops(c) PROVE AccountInv'
  BY <1>20 DEF OtherStops, OtherActs
<1>21. ASSUME NEW c \in Containers, OtherRemoves(c) PROVE AccountInv'
  BY <1>21 DEF OtherRemoves, OtherActs
<1>22. CASE UNCHANGED vars
  BY <1>22 DEF vars
<1>23. QED
  BY <1>1, <1>2, <1>3, <1>4, <1>5, <1>6, <1>7, <1>8, <1>9, <1>10, <1>11, <1>12, <1>13,
     <1>14, <1>15, <1>16, <1>17, <1>18, <1>19, <1>20, <1>21, <1>22 DEF Next, RunStep,
     DaemonStep, OtherStep

\* The order of the start times, action by action.
LEMMA OrderStep == TypeOK /\ OrderInv /\ [Next]_vars => OrderInv'
<1> SUFFICES ASSUME TypeOK, OrderInv, [Next]_vars PROVE OrderInv'
  OBVIOUS
<1> USE ConstantsAssumption DEF ConstantsAssumption, OrderInv, StartOrderKept,
        Before, TypeOK, Phases, daemonVars, runVars, otherVars, historyVars
<1>1. ASSUME ListContainers PROVE OrderInv'
  BY <1>1 DEF ListContainers
<1>2. ASSUME Leave PROVE OrderInv'
  BY <1>2 DEF Leave
<1>3. ASSUME SkipStop PROVE OrderInv'
  BY <1>3 DEF SkipStop
<1>4. ASSUME NEW vs \in SUBSET Volumes, BeginStop(vs) PROVE OrderInv'
  BY <1>4 DEF BeginStop, UsersOf
<1>5. ASSUME NEW c \in Containers, ReadStartedAt(c) PROVE OrderInv'
  BY <1>5 DEF ReadStartedAt
<1>6. ASSUME NEW c \in Containers, StartOk(c) PROVE OrderInv'
  BY <1>6 DEF StartOk, NextToStart, Bring
<1>7. ASSUME NEW c \in Containers, StartFails(c) PROVE OrderInv'
  BY <1>7 DEF StartFails, NextToStart, Bring
<1>8. ASSUME StartedAtFails PROVE OrderInv'
  BY <1>8 DEF StartedAtFails
<1>9. ASSUME SendStop PROVE OrderInv'
  BY <1>9 DEF SendStop
<1>10. ASSUME StopOk PROVE OrderInv'
  BY <1>10 DEF StopOk
<1>11. ASSUME StopRefused PROVE OrderInv'
  BY <1>11 DEF StopRefused, StopFailed
<1>12. ASSUME StopReturns PROVE OrderInv'
  BY <1>12 DEF StopReturns
<1>13. ASSUME BeginRestart PROVE OrderInv'
  BY <1>13 DEF BeginRestart
<1>14. ASSUME RestartReturns PROVE OrderInv'
  BY <1>14 DEF RestartReturns
<1>15. ASSUME StopLost PROVE OrderInv'
  BY <1>15 DEF StopLost, StopFailed
<1>16. ASSUME Cancel PROVE OrderInv'
  BY <1>16 DEF Cancel
<1>17. ASSUME Kill PROVE OrderInv'
  BY <1>17 DEF Kill
<1>18. ASSUME NEW c \in Containers, DaemonStops(c) PROVE OrderInv'
  BY <1>18 DEF DaemonStops
<1>19. ASSUME NEW c \in Containers, OtherStarts(c) PROVE OrderInv'
  BY <1>19 DEF OtherStarts, OtherActs
<1>20. ASSUME NEW c \in Containers, OtherStops(c) PROVE OrderInv'
  BY <1>20 DEF OtherStops, OtherActs
<1>21. ASSUME NEW c \in Containers, OtherRemoves(c) PROVE OrderInv'
  BY <1>21 DEF OtherRemoves, OtherActs
<1>22. CASE UNCHANGED vars
  BY <1>22 DEF vars
<1>23. QED
  BY <1>1, <1>2, <1>3, <1>4, <1>5, <1>6, <1>7, <1>8, <1>9, <1>10, <1>11, <1>12, <1>13,
     <1>14, <1>15, <1>16, <1>17, <1>18, <1>19, <1>20, <1>21, <1>22 DEF Next, RunStep,
     DaemonStep, OtherStep

-----------------------------------------------------------------------------
IInv == TypeOK /\ UserInv /\ DownInv /\ VisitInv /\ AccountInv /\ OrderInv

\* The inductive invariant holds initially.
LEMMA IInvInit == Init => IInv
<1> SUFFICES ASSUME Init PROVE IInv
  OBVIOUS
<1>1. TypeOK
  BY TypeInit
<1>2. UserInv /\ DownInv /\ VisitInv /\ AccountInv /\ OrderInv
  BY DEF Init, UserInv, AtHand, Stopping, DownInv, Before, VisitInv, AccountInv,
     OrderInv,
         StartOrderKept
<1>3. QED
  BY <1>1, <1>2 DEF IInv

\* The invariant from which every safety property of the stopper follows.
THEOREM Inductive == Spec => []IInv
<1>1. IInv /\ [Next]_vars => IInv'
  BY TypeStep, UserStep, DownStep, VisitStep, AccountStep, OrderStep DEF IInv
<1>2. QED
  BY IInvInit, <1>1, PTL DEF Spec

\* A run stops, asks to stop and records only in-use users of the wanted
\* volumes, never a helper.
THEOREM BystandersSafe == Spec => []OnlyUsersStopped
<1>1. IInv => OnlyUsersStopped
  BY DEF IInv, UserInv, OnlyUsersStopped
<1>2. QED
  BY Inductive, <1>1, PTL

\* When Stop has returned nil the wanted volumes are at rest, but for what
\* other actors do.
THEOREM VolumesAtRest == Spec => []VolumesHeld
<1>1. IInv => VolumesHeld
  <2> SUFFICES ASSUME IInv, phase = "held", NEW c \in Containers \ (Helpers \cup touched),
                      NEW v \in wanted, UsesVolume(c, v)
               PROVE  ~InUse(cstate[c])
    BY DEF VolumesHeld
  <2>1. Mounts[c] \cap wanted # {}
    BY DEF UsesVolume
  <2>2. CASE c \in broughtDown
    BY <2>2 DEF IInv, DownInv, Before
  <2>3. CASE c \notin broughtDown
    <3>1. c \notin stopped
      BY <2>3 DEF IInv, DownInv
    <3>2. cstate[c] = snap[c]
      BY <2>3 DEF IInv, DownInv, Before
    <3>3. c \notin todo /\ c \notin AtHand
      BY DEF IInv, VisitInv, AtHand, Stopping
    <3>4. QED
      BY <2>1, <3>1, <3>2, <3>3 DEF IInv, VisitInv
  <2>4. QED
    BY <2>2, <2>3
<1>2. QED
  BY Inductive, <1>1, PTL

\* Whatever failed, a container the run took down runs again when it returns,
\* or an error names it, or another actor interfered.
THEOREM AllAccountedFor == Spec => []RestartedOrReported
<1>1. IInv => RestartedOrReported
  BY DEF IInv, AccountInv, Before, RestartedOrReported, AllBackOrNamed
<1>2. QED
  BY Inductive, <1>1, PTL

\* Restart starts only what this run took down or another actor acted on.
THEOREM RestartScope == Spec => []RevivesOnlyStopped
<1>1. IInv => RevivesOnlyStopped
  BY DEF IInv, DownInv, RevivesOnlyStopped
<1>2. QED
  BY Inductive, <1>1, PTL

\* Containers come up in the order in which they had been started.
THEOREM RestartOrder == Spec => []StartOrderKept
<1>1. IInv => StartOrderKept
  BY DEF IInv, OrderInv
<1>2. QED
  BY Inductive, <1>1, PTL

-----------------------------------------------------------------------------
(* A run among others: facts about one step of this run, or of the daemon  *)
(* for it, that hold whatever other actors did before.  RivalsProofs uses  *)
(* them of two runs at once.                                               *)

\* A step of this run, short of its death, or of the daemon for it.
OwnStep == RunStep \/ StopLost \/ Cancel \/ DaemonStep

\* Container c is in use, or an error of this run names it, or this run is still
\* to restart it or to name it.
Answered(c) ==
    \/ InUse(cstate[c]) \/ c \in failed \cup restartErrs
    \/ phase = "sent" /\ c = cur
    \/ phase \in Before /\ c \in stopped
    \/ phase = "restart" /\ c \in toStart

\* This run never gives up on a container it answers for, and answers for each
\* one it takes down: recorded, then restarted, or named where that fails.
LEMMA StaysAnswered ==
    TypeOK /\ AccountInv /\ phase # "killed" /\ OwnStep =>
        /\ phase' # "killed"
        /\ \A c \in Containers :
               Answered(c) \/ c \in broughtDown' \ broughtDown => Answered(c)'
<1> SUFFICES ASSUME TypeOK, AccountInv, phase # "killed", OwnStep
             PROVE  /\ phase' # "killed"
                    /\ \A c \in Containers :
                           Answered(c) \/ c \in broughtDown' \ broughtDown => Answered(c)'
  OBVIOUS
<1> DEFINE Kept == /\ phase' # "killed"
                   /\ \A c \in Containers :
                          Answered(c) \/ c \in broughtDown' \ broughtDown => Answered(c)'
<1> USE ConstantsAssumption DEF ConstantsAssumption, Answered, AccountInv, Before, TypeOK,
        Phases, Stopping, daemonVars, runVars, otherVars, historyVars
<1>1. ASSUME ListContainers PROVE Kept
  BY <1>1 DEF ListContainers
<1>2. ASSUME Leave PROVE Kept
  BY <1>2 DEF Leave
<1>3. ASSUME SkipStop PROVE Kept
  BY <1>3 DEF SkipStop
<1>4. ASSUME NEW vs \in SUBSET Volumes, BeginStop(vs) PROVE Kept
  BY <1>4 DEF BeginStop, UsersOf
<1>5. ASSUME NEW c \in Containers, ReadStartedAt(c) PROVE Kept
  BY <1>5 DEF ReadStartedAt
<1>6. ASSUME NEW c \in Containers, StartOk(c) PROVE Kept
  BY <1>6 DEF StartOk, NextToStart, Bring
<1>7. ASSUME NEW c \in Containers, StartFails(c) PROVE Kept
  BY <1>7 DEF StartFails, NextToStart, Bring
<1>8. ASSUME StartedAtFails PROVE Kept
  BY <1>8 DEF StartedAtFails
<1>9. ASSUME SendStop PROVE Kept
  BY <1>9 DEF SendStop
<1>10. ASSUME StopOk PROVE Kept
  BY <1>10 DEF StopOk
<1>11. ASSUME StopRefused PROVE Kept
  BY <1>11 DEF StopRefused, StopFailed
<1>12. ASSUME StopReturns PROVE Kept
  BY <1>12 DEF StopReturns
<1>13. ASSUME BeginRestart PROVE Kept
  BY <1>13 DEF BeginRestart
<1>14. ASSUME RestartReturns PROVE Kept
  BY <1>14 DEF RestartReturns
<1>15. ASSUME StopLost PROVE Kept
  BY <1>15 DEF StopLost, StopFailed
<1>16. ASSUME Cancel PROVE Kept
  BY <1>16 DEF Cancel
<1>17. ASSUME NEW c \in Containers, DaemonStops(c) PROVE Kept
  BY <1>17 DEF DaemonStops
<1>18. QED
  BY <1>1, <1>2, <1>3, <1>4, <1>5, <1>6, <1>7, <1>8, <1>9, <1>10, <1>11, <1>12, <1>13,
     <1>14, <1>15, <1>16, <1>17 DEF OwnStep, RunStep, DaemonStep

\* A container that a step of this run changes is one the run has then taken down
\* or brought up; what other actors did is recorded by their own steps only.
LEMMA OwnChanges ==
    TypeOK /\ OwnStep =>
        /\ \A c \in Containers :
               cstate'[c] # cstate[c] => c \in broughtDown' \cup revived'
        /\ touched' = touched /\ budget' = budget
        /\ broughtDown \subseteq broughtDown'
<1> SUFFICES ASSUME TypeOK, OwnStep
             PROVE  /\ \A c \in Containers :
                           cstate'[c] # cstate[c] => c \in broughtDown' \cup revived'
                    /\ touched' = touched /\ budget' = budget
                    /\ broughtDown \subseteq broughtDown'
  OBVIOUS
<1> DEFINE Own == /\ \A c \in Containers :
                         cstate'[c] # cstate[c] => c \in broughtDown' \cup revived'
                  /\ touched' = touched /\ budget' = budget
                  /\ broughtDown \subseteq broughtDown'
<1> USE DEF TypeOK, daemonVars, runVars, otherVars, historyVars
<1>1. ASSUME \/ ListContainers \/ Leave \/ SkipStop \/ StartedAtFails \/ StopOk
             \/ StopReturns \/ BeginRestart \/ RestartReturns \/ StopLost \/ Cancel
             \/ \E vs \in SUBSET Volumes : BeginStop(vs)
             \/ \E c \in Containers : ReadStartedAt(c)
      PROVE  Own
  BY <1>1 DEF ListContainers, Leave, SkipStop, StartedAtFails, StopOk, StopReturns,
     BeginRestart, RestartReturns, StopLost, Cancel, BeginStop, ReadStartedAt
<1>2. ASSUME SendStop \/ StopRefused PROVE Own
  BY <1>2 DEF SendStop, StopRefused
<1>3. ASSUME NEW c \in Containers, StartOk(c) \/ StartFails(c) PROVE Own
  BY <1>3 DEF StartOk, StartFails, Bring
<1>4. ASSUME NEW c \in Containers, DaemonStops(c) PROVE Own
  BY <1>4 DEF DaemonStops
<1>5. QED
  BY <1>1, <1>2, <1>3, <1>4 DEF OwnStep, RunStep, DaemonStep

\* Another actor changes the state of the container it acts on, and leaves alone
\* all that this run knows.
LEMMA OthersChange ==
    TypeOK /\ OtherStep =>
        /\ \E c \in Containers : touched' = touched \cup {c} /\ cstate'[c] # cstate[c]
        /\ UNCHANGED <<inflight, runVars, historyVars>>
<1> SUFFICES ASSUME TypeOK, OtherStep
             PROVE  /\ \E c \in Containers :
                           touched' = touched \cup {c} /\ cstate'[c] # cstate[c]
                    /\ UNCHANGED <<inflight, runVars, historyVars>>
  OBVIOUS
<1>1. PICK c \in Containers : OtherStarts(c) \/ OtherStops(c) \/ OtherRemoves(c)
  BY DEF OtherStep
<1>2. touched' = touched \cup {c} /\ UNCHANGED <<inflight, runVars, historyVars>>
  BY <1>1 DEF OtherStarts, OtherStops, OtherRemoves, OtherActs
<1>3. cstate'[c] # cstate[c]
  BY <1>1 DEF OtherStarts, OtherStops, OtherRemoves, TypeOK
<1>4. QED
  BY <1>2, <1>3
=============================================================================
