------------------------- MODULE BackupVolumeProofs -------------------------
(***************************************************************************)
(* Proofs about one call of backupVolume, for any amount of output and any *)
(* buffer: the types, that only a whole stream reaches the archive, and    *)
(* that the call implements the contract (VolumeCall) backup.Run uses.     *)
(*                                                                         *)
(* Every step of the call is one of RunHelper or leaves it alone, so that  *)
(* the theorems of RunHelperProofs hold here.  What remains is the pipe:   *)
(* which end is closed follows from where the two goroutines are           *)
(* (PipeInv).                                                              *)
(***************************************************************************)
EXTENDS BackupVolume, TLAPS

HP == INSTANCE RunHelperProofs WITH Inputs <- 0

callVars == <<apc, gpc, writeEnd, readEnd, addErr, noStop, verdict>>

\* How the two goroutines and the two ends of the pipe go together: the write
\* end tells how RunHelper ended, and AddVolume gives up only with an error.
PipeInv ==
    /\ gpc = "off" <=> apc = "start"
    /\ gpc = "off" => pc = "create"
    /\ gpc \in {"closed", "done"} => pc = "returned"
    /\ writeEnd = "open" <=> gpc \in {"off", "helper"}
    /\ writeEnd = "eof" => result # "error"
    /\ apc \in {"start", "adding", "sealing"} => ~addErr
    /\ apc = "giveup" => addErr
    /\ apc \in {"sealing", "waiting", "returned"} /\ ~addErr => writeEnd = "eof"
    /\ apc = "returned" => gpc = "done"
    /\ apc = "returned" <=> verdict # "none"

VInv == VTypeOK /\ PipeInv

-----------------------------------------------------------------------------
(* The helper inside the call.                                             *)

\* Each step of the call is a step of RunHelper or leaves it alone.
LEMMA HelperSteps == VSpec => HP!Spec
<1>1. VInit => HP!Init
  BY DEF VInit, H!Init, HP!Init
<1>2. [VNext]_vars => [HP!Next]_(HP!vars)
  <2> USE DEF hvars, HP!vars, H!vars, HP!Next, HP!Goto, H!Goto, HP!Errs, H!Errs,
          HP!streamVars, H!streamVars, HP!connVars, H!connVars, HP!copyVars, H!copyVars
  <2>1. H!Main => HP!Main
    BY DEF H!Main, H!Create, H!CreateFails, H!Attach, H!AttachFails, H!Start,
       H!StartFails, H!SendReturns, H!SendCancelled, H!SendAbandoned, H!OutputEnds,
       H!ContainerEnds, H!WaitFails, H!WaitFailed, H!Drained, H!DrainGivesUp,
       H!DrainClosed, H!ResultArrives, H!ResultFails, H!Finish, H!Outcome, H!Remove,
       HP!Main, HP!Create, HP!CreateFails, HP!Attach, HP!AttachFails, HP!Start,
       HP!StartFails, HP!SendReturns, HP!SendCancelled, HP!SendAbandoned,
       HP!OutputEnds, HP!ContainerEnds, HP!WaitFails, HP!WaitFailed, HP!Drained,
       HP!DrainGivesUp, HP!DrainClosed, HP!ResultArrives, HP!ResultFails, HP!Finish,
       HP!Outcome, HP!Remove
  <2>2. H!AfterFunc => HP!AfterFunc
    BY DEF H!AfterFunc, HP!AfterFunc
  <2>3. H!ReadOutput \/ H!OutputEOF \/ H!OutputFails \/ H!WriteOutput => HP!Output
    BY DEF HP!Output, H!ReadOutput, H!OutputEOF, H!OutputFails, H!WriteOutput,
       HP!ReadOutput, HP!OutputEOF, HP!OutputFails, HP!WriteOutput
  <2>4. H!Container => HP!Container
    BY DEF H!Container, H!Produce, H!Blocked, H!CloseOutput, H!ContainerExits,
       HP!Container, HP!Produce, HP!Blocked, HP!CloseOutput, HP!ContainerExits
  <2>5. H!ReportExit \/ H!AbortWait => HP!ReportExit \/ HP!AbortWait
    BY DEF H!ReportExit, H!AbortWait, HP!ReportExit, HP!AbortWait
  <2>6. H!Cancel \/ H!Break \/ H!StdoutFails => HP!Environment
    BY DEF H!Cancel, H!Break, H!StdoutFails, HP!Environment, HP!Cancel, HP!Break,
       HP!StdoutFails
  <2>7. QED
    BY <2>1, <2>2, <2>3, <2>4, <2>5, <2>6
       DEF VNext, Helper, Caller, RunHelper, Transfer, PipeRefuses, CloseWriteEnd,
           SendOutcome, Call, StreamEnds, StreamBreaks, Sealed, GiveUp, Returns,
           AddFails, Container, Daemon, Trouble, vars
<1>3. QED
  BY <1>1, <1>2, PTL DEF VSpec, HP!Spec

\* What RunHelper's proofs say of the helper of a call.
LEMMA HelperAlways == VSpec => []H!HTypeOK /\ []H!OkMeansComplete
<1>1. HP!RunHelperAssumption
  BY VolumeAssumption DEF H!RunHelperAssumption, HP!RunHelperAssumption
<1>2. HP!Spec => []HP!HTypeOK /\ []HP!OkMeansComplete
  BY <1>1, HP!HTypeCorrect, HP!CompleteWhenOk
<1>3. HP!HTypeOK => H!HTypeOK
  BY DEF HP!HTypeOK, H!HTypeOK, HP!Points, H!Points
<1>4. HP!OkMeansComplete => H!OkMeansComplete
  BY DEF HP!OkMeansComplete, H!OkMeansComplete
<1>5. QED
  BY <1>2, <1>3, <1>4, HelperSteps, PTL

\* Only RunHelper itself moves the helper's caller, which returns once and with
\* a result; nothing changes what it returned.
LEMMA CallerMoves ==
  ASSUME [VNext]_vars, H!HTypeOK, H!HTypeOK'
  PROVE  \/ RunHelper /\ H!Main /\ pc # "returned" /\ UNCHANGED callVars
         \/ UNCHANGED <<pc, result>>
<1> USE DEF callVars
<1>1. ASSUME RunHelper PROVE \/ H!Main /\ UNCHANGED callVars
                             \/ UNCHANGED <<pc, result>>
  BY <1>1 DEF RunHelper, H!AfterFunc, H!ReadOutput, H!OutputEOF, H!OutputFails, H!copyVars
<1>2. H!Main => pc # "returned"
  BY DEF H!Main, H!Goto, H!Create, H!CreateFails, H!Attach, H!AttachFails, H!Start,
     H!StartFails, H!SendReturns, H!SendCancelled, H!SendAbandoned, H!OutputEnds,
     H!ContainerEnds, H!WaitFails, H!WaitFailed, H!Drained, H!DrainGivesUp,
     H!DrainClosed, H!ResultArrives, H!ResultFails, H!Finish, H!Remove
<1>3. Transfer \/ PipeRefuses \/ Container \/ Daemon \/ Trouble => UNCHANGED <<pc, result>>
  BY DEF Transfer, PipeRefuses, Container, Daemon, Trouble, H!WriteOutput, H!StdoutFails,
     H!Container, H!Produce, H!CloseOutput, H!ContainerExits, H!ReportExit, H!AbortWait,
     H!Cancel, H!Break, H!copyVars
<1>4. CloseWriteEnd \/ SendOutcome \/ Caller \/ AddFails => UNCHANGED <<pc, result>>
  BY DEF CloseWriteEnd, SendOutcome, Caller, Call, StreamEnds, StreamBreaks, Sealed,
     GiveUp, Returns, AddFails, hvars
<1>5. QED
  BY <1>1, <1>2, <1>3, <1>4 DEF VNext, Helper, vars, hvars

-----------------------------------------------------------------------------
(* The pipe.                                                               *)

\* The types and the pipe's invariant are kept by every step.
LEMMA PipeStep ==
  ASSUME VInv, H!HTypeOK', [VNext]_vars
  PROVE  VInv'
<1> USE DEF VInv, VTypeOK, PipeInv, CallPoints
<1>h. hasStdin' = hasStdin
  BY DEF VNext, Helper, Caller, RunHelper, Transfer, PipeRefuses, CloseWriteEnd,
     SendOutcome, Call, StreamEnds, StreamBreaks, Sealed, GiveUp, Returns, AddFails,
     Container, Daemon, Trouble, vars, hvars, H!Main, H!Create, H!CreateFails, H!Attach,
     H!AttachFails, H!Start, H!StartFails, H!SendReturns, H!SendCancelled,
     H!SendAbandoned, H!OutputEnds, H!ContainerEnds, H!WaitFails, H!WaitFailed,
     H!Drained, H!DrainGivesUp, H!DrainClosed, H!ResultArrives, H!ResultFails, H!Finish,
     H!Remove, H!AfterFunc, H!ReadOutput, H!OutputEOF, H!OutputFails, H!WriteOutput,
     H!StdoutFails, H!Container, H!Produce, H!CloseOutput, H!ContainerExits,
     H!ReportExit, H!AbortWait, H!Cancel, H!Break
<1>1. CASE RunHelper /\ H!Main /\ pc # "returned" /\ UNCHANGED callVars
  BY <1>1, <1>h DEF RunHelper, Calling, callVars
<1>2. CASE UNCHANGED <<pc, result>>
  <2>1. CASE UNCHANGED callVars
    BY <1>2, <1>h, <2>1 DEF callVars
  <2>2. CASE CloseWriteEnd
    BY <1>2, <1>h, <2>2 DEF CloseWriteEnd, Calling
  <2>3. CASE SendOutcome
    BY <1>2, <1>h, <2>3 DEF SendOutcome
  <2>4. CASE Call
    BY <1>2, <1>h, <2>4 DEF Call, Goto
  <2>5. CASE StreamEnds
    BY <1>2, <1>h, <2>5 DEF StreamEnds, Goto
  <2>6. CASE StreamBreaks
    BY <1>2, <1>h, <2>6 DEF StreamBreaks, Goto
  <2>7. CASE Sealed
    BY <1>2, <1>h, <2>7 DEF Sealed, Goto
  <2>8. CASE GiveUp
    BY <1>2, <1>h, <2>8 DEF GiveUp, Goto
  <2>9. CASE Returns
    BY <1>2, <1>h, <2>9 DEF Returns, Judge, Goto
  <2>10. CASE AddFails
    BY <1>2, <1>h, <2>10 DEF AddFails, Goto
  <2>11. QED
    BY <2>1, <2>2, <2>3, <2>4, <2>5, <2>6, <2>7, <2>8, <2>9, <2>10
       DEF VNext, Helper, Caller, RunHelper, Transfer, PipeRefuses, Container, Daemon,
           Trouble, vars, callVars
<1>3. QED
  BY <1>1, <1>2, CallerMoves

\* The invariant of the call holds in every reachable state.
THEOREM VInductive == VSpec => []VInv
<1>1. VInit /\ H!HTypeOK => VInv
  BY DEF VInit, H!Init, VInv, VTypeOK, PipeInv, CallPoints
<1>2. VInv /\ H!HTypeOK' /\ [VNext]_vars => VInv'
  BY PipeStep
<1>3. QED
  BY <1>1, <1>2, HelperAlways, PTL DEF VSpec

\* Types of the state of a call, with either end of the pipe closed only by its
\* own side and only once that is done with it.
THEOREM VTypeCorrect == VSpec => []VTypeOK
BY VInductive, PTL DEF VInv

\* AddVolume appends an entry only from a stream that is whole.
THEOREM WholeStream == VSpec => []StreamIsWhole
<1>1. VInv /\ H!OkMeansComplete => StreamIsWhole
  BY DEF VInv, VTypeOK, H!HTypeOK, PipeInv, H!OkMeansComplete, StreamIsWhole
<1>2. QED
  BY <1>1, VInductive, HelperAlways, PTL

-----------------------------------------------------------------------------
(* The contract of the call.                                               *)

\* Each step of the call is one that its contract allows, or none.
LEMMA ContractStep ==
  ASSUME VInv, VInv', [VNext]_vars
  PROVE  [V!CNext]_(V!cvars)
<1> USE DEF VInv, VTypeOK, PipeInv, CallPoints, Draining, V!cvars, V!CNext, V!Goto
<1>1. CASE RunHelper /\ H!Main /\ pc # "returned" /\ UNCHANGED callVars
  <2>1. apc \notin {"start", "returned"} /\ verdict = "none"
    BY <1>1 DEF RunHelper, Calling
  <2>2. CASE pc' = "returned"
    BY <1>1, <2>1, <2>2 DEF callVars, V!HelperEnds, V!Ended, H!HTypeOK
  <2>3. CASE pc' # "returned"
    BY <1>1, <2>1, <2>3 DEF callVars
  <2>4. QED
    BY <2>2, <2>3
<1>2. CASE UNCHANGED <<pc, result>>
  <2>1. CASE UNCHANGED callVars \/ CloseWriteEnd \/ SendOutcome
    BY <1>2, <2>1 DEF callVars, CloseWriteEnd, SendOutcome
  <2>2. CASE Call
    BY <1>2, <2>2 DEF Call, Goto, V!Call
  <2>3. CASE StreamEnds \/ Sealed \/ GiveUp
    BY <1>2, <2>3 DEF StreamEnds, Sealed, GiveUp, Goto
  <2>4. CASE StreamBreaks \/ AddFails
    BY <1>2, <2>4 DEF StreamBreaks, AddFails, Goto, V!AddVolumeFails
  <2>5. CASE Returns
    <3>1. /\ pc = "returned" /\ result \in {"ok", "failed", "error"}
          /\ apc = "waiting" /\ apc' = "returned" /\ verdict = "none"
      BY <2>5 DEF Returns, Goto, H!HTypeOK
    <3>2. CASE verdict' = "entry"
      BY <1>2, <2>5, <3>1, <3>2 DEF Returns, Judge, V!Accept
    <3>3. CASE verdict' = "error" /\ addErr
      BY <1>2, <2>5, <3>1, <3>3 DEF Returns, V!Drained, V!Ended
    <3>4. CASE verdict' = "error" /\ ~addErr
      BY <1>2, <2>5, <3>1, <3>4 DEF Returns, Judge, V!Reject
    <3>5. QED
      BY <2>5, <3>2, <3>3, <3>4 DEF Returns, Judge
  <2>6. QED
    BY <2>1, <2>2, <2>3, <2>4, <2>5
       DEF VNext, Helper, Caller, RunHelper, Transfer, PipeRefuses, Container, Daemon,
           Trouble, vars, callVars
<1>3. QED
  BY <1>1, <1>2, CallerMoves

\* With the pipe, the goroutines and all of RunHelper in between, backupVolume is
\* the call that Backup relies on: an entry counts only after the helper ended
\* well, and no call returns while its helper is at work.
THEOREM VolumeImplementsCall == VSpec => ImplementsVolumeCall
<1>1. VInit => V!CInit
  BY DEF VInit, H!Init, V!CInit, Draining
<1>2. QED
  BY <1>1, ContractStep, VInductive, PTL DEF VSpec, ImplementsVolumeCall, V!CSpec
=============================================================================
