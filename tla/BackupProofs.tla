---------------------------- MODULE BackupProofs ----------------------------
(***************************************************************************)
(* A backup implements the stopper protocol and the archive writer's: each *)
(* of its steps is a step of theirs or leaves their variables alone.  What *)
(* StopperProofs and ArchiveWriterProofs show of every behaviour of those  *)
(* two therefore holds of every backup, and is brought here (Stops,        *)
(* Writes).  The backup's own safety follows from an invariant that says,  *)
(* for each place Run may be at, where the two protocols are, which        *)
(* volumes are in the archive and who may have written to them.            *)
(***************************************************************************)
EXTENDS Backup, TLAPS

\* The volumes to back up are volumes of the host.
LEMMA SelectedInit == BInit => selected \subseteq Volumes
  BY DEF BInit

\* No step changes the selection.
LEMMA SelectedStep == selected \subseteq Volumes /\ [BNext]_vars => (selected \subseteq Volumes)'
<1> SUFFICES ASSUME selected \subseteq Volumes, [BNext]_vars PROVE selected' = selected
  OBVIOUS
<1>1. CASE Run
  BY <1>1 DEF Run, Preflight, Stopping, Reading, Finishing, Deferred, Settings, List,
     PreflightFails, CheckName, NameTaken, CreatePartial, CreateFails, CallStop, NoStopCall,
     StopGoesOn, StopFails, StopSucceeds, StartVolume, HelperEnds, VolumeDone, VolumeRejected,
     AddVolumeFails, Drained, BeginFinish, FinishGoesOn, Publish, FinishErrs, CallRestart,
     RestartGoesOn, RestartDone, CallAbort, Exit
<1>2. CASE Docker \/ Environment
  BY <1>2 DEF Docker, Environment, Settings, StopAnswerLost, Signal, KillRun, bvars,
     OtherContainerStep, OtherFileStep, ContainerWrites
<1>3. CASE UNCHANGED vars
  BY <1>3 DEF vars, bvars
<1>4. QED
  BY <1>1, <1>2, <1>3 DEF BNext

-----------------------------------------------------------------------------
\* Every step of a backup is a step of the stopper, or none.
LEMMA StopperStep == selected \subseteq Volumes /\ [BNext]_vars => [S!Next]_(S!vars)
<1> SUFFICES ASSUME selected \subseteq Volumes, [BNext]_vars PROVE [S!Next]_(S!vars)
  OBVIOUS
<1>1. ASSUME List PROVE S!Next \/ UNCHANGED svars
  BY <1>1 DEF List, S!Next, S!RunStep
<1>2. ASSUME PreflightFails PROVE S!Next \/ UNCHANGED svars
  BY <1>2 DEF PreflightFails, S!Next, S!RunStep
<1>3. ASSUME CheckName PROVE S!Next \/ UNCHANGED svars
  BY <1>3 DEF CheckName
<1>4. ASSUME NameTaken PROVE S!Next \/ UNCHANGED svars
  BY <1>4 DEF NameTaken, S!Next, S!RunStep
<1>5. ASSUME CreatePartial PROVE S!Next \/ UNCHANGED svars
  BY <1>5 DEF CreatePartial
<1>6. ASSUME CreateFails PROVE S!Next \/ UNCHANGED svars
  BY <1>6 DEF CreateFails, S!Next, S!RunStep
<1>7. ASSUME CallStop PROVE S!Next \/ UNCHANGED svars
  BY <1>7 DEF CallStop, S!Next, S!RunStep
<1>8. ASSUME NoStopCall PROVE S!Next \/ UNCHANGED svars
  BY <1>8 DEF NoStopCall, S!Next, S!RunStep
<1>9. ASSUME StopGoesOn PROVE S!Next \/ UNCHANGED svars
  BY <1>9 DEF StopGoesOn, S!Next, S!RunStep
<1>10. ASSUME StopFails PROVE S!Next \/ UNCHANGED svars
  BY <1>10 DEF StopFails, S!Next, S!RunStep
<1>11. ASSUME StopSucceeds PROVE S!Next \/ UNCHANGED svars
  BY <1>11 DEF StopSucceeds, S!Next, S!RunStep
<1>12. ASSUME NEW v \in Volumes, StartVolume(v) PROVE S!Next \/ UNCHANGED svars
  BY <1>12 DEF StartVolume
<1>13. ASSUME NEW h \in {"exit0", "exit1", "exit2", "error"}, HelperEnds(h)
       PROVE  S!Next \/ UNCHANGED svars
  BY <1>13 DEF HelperEnds
<1>14. ASSUME VolumeDone PROVE S!Next \/ UNCHANGED svars
  BY <1>14 DEF VolumeDone
<1>15. ASSUME VolumeRejected PROVE S!Next \/ UNCHANGED svars
  BY <1>15 DEF VolumeRejected
<1>16. ASSUME AddVolumeFails PROVE S!Next \/ UNCHANGED svars
  BY <1>16 DEF AddVolumeFails
<1>17. ASSUME Drained PROVE S!Next \/ UNCHANGED svars
  BY <1>17 DEF Drained
<1>18. ASSUME BeginFinish PROVE S!Next \/ UNCHANGED svars
  BY <1>18 DEF BeginFinish
<1>19. ASSUME FinishGoesOn PROVE S!Next \/ UNCHANGED svars
  BY <1>19 DEF FinishGoesOn
<1>20. ASSUME Publish PROVE S!Next \/ UNCHANGED svars
  BY <1>20 DEF Publish
<1>21. ASSUME FinishErrs PROVE S!Next \/ UNCHANGED svars
  BY <1>21 DEF FinishErrs
<1>22. ASSUME CallRestart PROVE S!Next \/ UNCHANGED svars
  BY <1>22 DEF CallRestart, S!Next, S!RunStep
<1>23. ASSUME RestartGoesOn PROVE S!Next \/ UNCHANGED svars
  BY <1>23 DEF RestartGoesOn, S!Next, S!RunStep
<1>24. ASSUME RestartDone PROVE S!Next \/ UNCHANGED svars
  BY <1>24 DEF RestartDone, S!Next, S!RunStep
<1>25. ASSUME CallAbort PROVE S!Next \/ UNCHANGED svars
  BY <1>25 DEF CallAbort
<1>26. ASSUME Exit PROVE S!Next \/ UNCHANGED svars
  BY <1>26 DEF Exit
<1>27. ASSUME Docker PROVE S!Next \/ UNCHANGED svars
  BY <1>27 DEF Docker, S!Next
<1>28. ASSUME StopAnswerLost PROVE S!Next \/ UNCHANGED svars
  BY <1>28 DEF StopAnswerLost, S!Next
<1>29. ASSUME Signal PROVE S!Next \/ UNCHANGED svars
  BY <1>29 DEF Signal, S!Next
<1>30. ASSUME KillRun PROVE S!Next \/ UNCHANGED svars
  BY <1>30 DEF KillRun, S!Next
<1>31. ASSUME OtherContainerStep PROVE S!Next \/ UNCHANGED svars
  BY <1>31 DEF OtherContainerStep, S!Next
<1>32. ASSUME OtherFileStep PROVE S!Next \/ UNCHANGED svars
  BY <1>32 DEF OtherFileStep
<1>33. ASSUME NEW c \in Containers, ContainerWrites(c) PROVE S!Next \/ UNCHANGED svars
  BY <1>33 DEF ContainerWrites
<1>34. ASSUME UNCHANGED vars PROVE UNCHANGED svars
  BY <1>34 DEF vars
<1>35. QED
  BY <1>1, <1>2, <1>3, <1>4, <1>5, <1>6, <1>7, <1>8, <1>9, <1>10, <1>11, <1>12,
     <1>13, <1>14, <1>15, <1>16, <1>17, <1>18, <1>19, <1>20, <1>21, <1>22,
     <1>23, <1>24, <1>25, <1>26, <1>27, <1>28, <1>29, <1>30, <1>31, <1>32,
     <1>33, <1>34
     DEF BNext, Run, Preflight, Stopping, Reading, Finishing, Deferred,
         Environment, svars, S!vars, S!daemonVars, S!runVars, S!otherVars,
         S!historyVars

\* A backup stops and restarts containers by the stopper's protocol.
LEMMA BackupIsStopper == BSpec => S!Spec
<1>1. BInit => S!Init
  BY DEF BInit
<1>2. QED
  BY <1>1, SelectedInit, SelectedStep, StopperStep, PTL DEF BSpec, S!Spec

-----------------------------------------------------------------------------
\* Every step of a backup is a step of the archive writer, or none.
LEMMA WriterStepOrNone == [BNext]_vars => [W!WNext]_(W!wvars)
<1> SUFFICES ASSUME [BNext]_vars PROVE [W!WNext]_(W!wvars)
  OBVIOUS
<1>1. ASSUME List PROVE W!WNext \/ UNCHANGED wvars
  BY <1>1 DEF List
<1>2. ASSUME PreflightFails PROVE W!WNext \/ UNCHANGED wvars
  BY <1>2 DEF PreflightFails
<1>3. ASSUME CheckName PROVE W!WNext \/ UNCHANGED wvars
  BY <1>3 DEF CheckName, W!WNext, W!WriterStep
<1>4. ASSUME NameTaken PROVE W!WNext \/ UNCHANGED wvars
  BY <1>4 DEF NameTaken, W!WNext, W!WriterStep
<1>5. ASSUME CreatePartial PROVE W!WNext \/ UNCHANGED wvars
  BY <1>5 DEF CreatePartial, W!WNext, W!WriterStep
<1>6. ASSUME CreateFails PROVE W!WNext \/ UNCHANGED wvars
  BY <1>6 DEF CreateFails, W!WNext, W!WriterStep
<1>7. ASSUME CallStop PROVE W!WNext \/ UNCHANGED wvars
  BY <1>7 DEF CallStop
<1>8. ASSUME NoStopCall PROVE W!WNext \/ UNCHANGED wvars
  BY <1>8 DEF NoStopCall
<1>9. ASSUME StopGoesOn PROVE W!WNext \/ UNCHANGED wvars
  BY <1>9 DEF StopGoesOn
<1>10. ASSUME StopFails PROVE W!WNext \/ UNCHANGED wvars
  BY <1>10 DEF StopFails
<1>11. ASSUME StopSucceeds PROVE W!WNext \/ UNCHANGED wvars
  BY <1>11 DEF StopSucceeds
<1>12. ASSUME NEW v \in Volumes, StartVolume(v) PROVE W!WNext \/ UNCHANGED wvars
  BY <1>12 DEF StartVolume, W!WNext, W!WriterStep
<1>13. ASSUME NEW h \in {"exit0", "exit1", "exit2", "error"}, HelperEnds(h)
       PROVE  W!WNext \/ UNCHANGED wvars
  BY <1>13 DEF HelperEnds
<1>14. ASSUME VolumeDone PROVE W!WNext \/ UNCHANGED wvars
  BY <1>14 DEF VolumeDone, W!WNext, W!WriterStep
<1>15. ASSUME VolumeRejected PROVE W!WNext \/ UNCHANGED wvars
  BY <1>15 DEF VolumeRejected, W!WNext, W!WriterStep
<1>16. ASSUME AddVolumeFails PROVE W!WNext \/ UNCHANGED wvars
  BY <1>16 DEF AddVolumeFails, W!WNext, W!WriterStep
<1>17. ASSUME Drained PROVE W!WNext \/ UNCHANGED wvars
  BY <1>17 DEF Drained
<1>18. ASSUME BeginFinish PROVE W!WNext \/ UNCHANGED wvars
  BY <1>18 DEF BeginFinish, W!WNext, W!WriterStep
<1>19. ASSUME FinishGoesOn PROVE W!WNext \/ UNCHANGED wvars
  BY <1>19 DEF FinishGoesOn, W!WNext, W!WriterStep
<1>20. ASSUME Publish PROVE W!WNext \/ UNCHANGED wvars
  BY <1>20 DEF Publish, W!WNext, W!WriterStep
<1>21. ASSUME FinishErrs PROVE W!WNext \/ UNCHANGED wvars
  BY <1>21 DEF FinishErrs, W!WNext, W!WriterStep
<1>22. ASSUME CallRestart PROVE W!WNext \/ UNCHANGED wvars
  BY <1>22 DEF CallRestart
<1>23. ASSUME RestartGoesOn PROVE W!WNext \/ UNCHANGED wvars
  BY <1>23 DEF RestartGoesOn
<1>24. ASSUME RestartDone PROVE W!WNext \/ UNCHANGED wvars
  BY <1>24 DEF RestartDone
<1>25. ASSUME CallAbort PROVE W!WNext \/ UNCHANGED wvars
  BY <1>25 DEF CallAbort, W!WNext, W!WriterStep
<1>26. ASSUME Exit PROVE W!WNext \/ UNCHANGED wvars
  BY <1>26 DEF Exit
<1>27. ASSUME Docker PROVE W!WNext \/ UNCHANGED wvars
  BY <1>27 DEF Docker
<1>28. ASSUME StopAnswerLost PROVE W!WNext \/ UNCHANGED wvars
  BY <1>28 DEF StopAnswerLost
<1>29. ASSUME Signal PROVE W!WNext \/ UNCHANGED wvars
  BY <1>29 DEF Signal
<1>30. ASSUME KillRun PROVE W!WNext \/ UNCHANGED wvars
  BY <1>30 DEF KillRun, W!WNext
<1>31. ASSUME OtherContainerStep PROVE W!WNext \/ UNCHANGED wvars
  BY <1>31 DEF OtherContainerStep
<1>32. ASSUME OtherFileStep PROVE W!WNext \/ UNCHANGED wvars
  BY <1>32 DEF OtherFileStep, W!WNext
<1>33. ASSUME NEW c \in Containers, ContainerWrites(c) PROVE W!WNext \/ UNCHANGED wvars
  BY <1>33 DEF ContainerWrites
<1>34. ASSUME UNCHANGED vars PROVE UNCHANGED wvars
  BY <1>34 DEF vars
<1>35. QED
  BY <1>1, <1>2, <1>3, <1>4, <1>5, <1>6, <1>7, <1>8, <1>9, <1>10, <1>11, <1>12,
     <1>13, <1>14, <1>15, <1>16, <1>17, <1>18, <1>19, <1>20, <1>21, <1>22,
     <1>23, <1>24, <1>25, <1>26, <1>27, <1>28, <1>29, <1>30, <1>31, <1>32,
     <1>33, <1>34
     DEF BNext, Run, Preflight, Stopping, Reading, Finishing, Deferred,
         Environment, wvars, W!wvars

\* A backup builds and publishes its archive by the writer's protocol.
THEOREM BackupImplementsWriter == BSpec => ImplementsWriter
<1>1. BInit => W!WInit
  BY DEF BInit
<1>2. QED
  BY <1>1, WriterStepOrNone, PTL DEF BSpec, ImplementsWriter, W!WSpec

-----------------------------------------------------------------------------
(* backupVolume is used by its contract.                                   *)

\* The stages of Run before its deferred calls.
Working == {"preflight", "listed", "checked", "open", "stopping", "volumes", "reading",
            "draining", "finishing"}

\* Until the deferred calls there is no error, and a helper, running or ended,
\* from the start of a volume until its outcome is judged.
CallInv ==
    /\ helper \in HelperStates /\ err \in BOOLEAN
    /\ bpc \in Working => ~err
    /\ bpc \in {"reading", "draining"} => helper # "none"

LEMMA CallInit == BInit => CallInv
  BY DEF BInit, CallInv, HelperStates

\* A step between two calls: it may end the calls with an error.
Aside ==
    /\ bpc \notin {"reading", "draining", "killed"}
    /\ bpc' \notin {"reading", "draining", "killed"}
    /\ UNCHANGED <<helper, noStop>>
    /\ err' = err \/ (err' /\ bpc' \notin Working)
    /\ bpc' \in Working => bpc \in Working

LEMMA AsideStep == CallInv /\ Aside => CallInv' /\ [V!CNext]_(V!cvars)
<1> SUFFICES ASSUME CallInv, Aside PROVE CallInv' /\ [V!CNext]_(V!cvars)
  OBVIOUS
<1>1. ASSUME err' = err PROVE CallInv' /\ UNCHANGED V!cvars
  BY <1>1 DEF CallInv, Aside, V!cvars
<1>2. ASSUME ~err, err' PROVE CallInv' /\ V!NoMoreCalls
  BY <1>2 DEF CallInv, Aside, V!NoMoreCalls, V!Goto
<1>3. QED
  BY <1>1, <1>2 DEF CallInv, Aside, V!CNext

\* A step keeps CallInv and is one of the call, or none.
LEMMA CallStep == CallInv /\ [BNext]_vars => CallInv' /\ [V!CNext]_(V!cvars)
<1> SUFFICES ASSUME CallInv, [BNext]_vars PROVE CallInv' /\ [V!CNext]_(V!cvars)
  OBVIOUS
<1> USE DEF CallInv, HelperStates, Working, At, GoesOn, Errs, Settings, VolumeState,
        V!cvars
<1>1. CASE Preflight
  <2>1. Aside
    BY <1>1 DEF Preflight, List, PreflightFails, CheckName, NameTaken, CreatePartial,
       CreateFails, Aside
  <2>2. QED
    BY <2>1, AsideStep
<1>2. CASE Stopping
  <2>1. Aside
    BY <1>2 DEF Stopping, CallStop, NoStopCall, StopGoesOn, StopFails, StopSucceeds,
       Aside
  <2>2. QED
    BY <2>1, AsideStep
<1>3. ASSUME NEW v \in Volumes, StartVolume(v) PROVE CallInv' /\ V!CNext
  BY <1>3 DEF StartVolume, V!CNext, V!Call, V!Goto
<1>4. ASSUME NEW h \in {"exit0", "exit1", "exit2", "error"}, HelperEnds(h)
      PROVE  CallInv' /\ V!CNext
  BY <1>4 DEF HelperEnds, V!CNext, V!HelperEnds, V!Ended
<1>5. CASE VolumeDone
  BY <1>5 DEF VolumeDone, Accepted, V!CNext, V!Accept, V!Goto
<1>6. CASE VolumeRejected
  BY <1>6 DEF VolumeRejected, V!CNext, V!Reject, V!Goto
<1>7. CASE AddVolumeFails
  BY <1>7 DEF AddVolumeFails, V!CNext, V!AddVolumeFails, V!Goto
<1>8. CASE Drained
  BY <1>8 DEF Drained, V!CNext, V!Drained, V!Ended, V!Goto
<1>9. CASE Finishing
  <2>1. Aside
    BY <1>9 DEF Finishing, BeginFinish, FinishGoesOn, Publish, FinishErrs, Aside
  <2>2. QED
    BY <2>1, AsideStep
<1>10. CASE Deferred
  BY <1>10 DEF Deferred, CallRestart, RestartGoesOn, RestartDone, CallAbort, Exit
<1>11. CASE StopAnswerLost
  BY <1>11 DEF StopAnswerLost, V!CNext, V!NoMoreCalls, V!Goto
<1>12. CASE KillRun
  BY <1>12 DEF KillRun, V!CNext, V!Die
<1>13. CASE Docker \/ Signal \/ OtherContainerStep \/ OtherFileStep
  BY <1>13 DEF Docker, Signal, OtherContainerStep, OtherFileStep, bvars
<1>14. ASSUME NEW c \in Containers, ContainerWrites(c)
       PROVE  CallInv' /\ UNCHANGED V!cvars
  BY <1>14 DEF ContainerWrites
<1>15. CASE UNCHANGED vars
  BY <1>15 DEF vars, bvars
<1>16. QED
  BY <1>1, <1>2, <1>3, <1>4, <1>5, <1>6, <1>7, <1>8, <1>9, <1>10, <1>11, <1>12, <1>13,
     <1>14, <1>15
     DEF BNext, Run, Reading, Environment

\* A backup relies on nothing of backupVolume but its contract: together with
\* what BackupVolume shows of the call, no container is restarted under a helper.
THEOREM BackupImplementsVolumeCall == BSpec => ImplementsVolumeCall
<1>1. BInit => V!CInit
  BY DEF BInit, V!CInit
<1>2. QED
  BY <1>1, CallInit, CallStep, PTL DEF BSpec, ImplementsVolumeCall, V!CSpec

-----------------------------------------------------------------------------
(* What the two protocols are known to keep, of any backup.                *)

SP == INSTANCE StopperProofs
WP == INSTANCE ArchiveWriterProofs WITH Writers <- {Self}

\* While the volumes are held, an untouched container that was not taken down is
\* as it was listed.
AsListed ==
    phase = "held" =>
        \A c \in Containers \ touched : c \in broughtDown \/ cstate[c] = snap[c]

\* What is known of the stopper ...
Stops ==
    S!TypeOK /\ S!OnlyUsersStopped /\ S!VolumesHeld /\ S!RestartedOrReported /\ AsListed

\* ... and of the archive writer.
Writes == W!WTypeOK /\ W!PartialOwned /\ W!NothingLeftBehind

\* The stopper's theorems hold of a backup.
LEMMA StopsAlways == BSpec => []Stops
<1>1. S!Init => SP!Init
  BY DEF S!Init, SP!Init
<1>2. [S!Next]_(S!vars) => [SP!Next]_(SP!vars)
  BY DEF S!Next, S!vars, S!RunStep, S!DaemonStep, S!OtherStep, S!daemonVars, S!runVars,
     S!otherVars, S!historyVars, S!ListContainers, S!Leave, S!SkipStop, S!BeginStop,
     S!ReadStartedAt, S!StartOk, S!StartFails, S!StartedAtFails, S!SendStop, S!StopOk,
     S!StopRefused, S!StopReturns, S!BeginRestart, S!RestartReturns, S!StopLost,
     S!Cancel, S!Kill, S!DaemonStops, S!OtherStarts, S!OtherStops, S!OtherRemoves,
     S!OtherActs, S!StopFailed, S!Bring, S!NextToStart, S!UsersOf, S!InUse, S!IsHelper,
     S!UsesVolume, SP!Next, SP!vars, SP!RunStep, SP!DaemonStep, SP!OtherStep,
     SP!daemonVars, SP!runVars, SP!otherVars, SP!historyVars, SP!ListContainers,
     SP!Leave, SP!SkipStop, SP!BeginStop, SP!ReadStartedAt, SP!StartOk, SP!StartFails,
     SP!StartedAtFails, SP!SendStop, SP!StopOk, SP!StopRefused, SP!StopReturns,
     SP!BeginRestart, SP!RestartReturns, SP!StopLost, SP!Cancel, SP!Kill,
     SP!DaemonStops, SP!OtherStarts, SP!OtherStops, SP!OtherRemoves, SP!OtherActs,
     SP!StopFailed, SP!Bring, SP!NextToStart, SP!UsersOf, SP!InUse, SP!IsHelper,
     SP!UsesVolume
<1>3. S!Spec => SP!Spec
  BY <1>1, <1>2, PTL DEF S!Spec, SP!Spec
<1>4. SP!ConstantsAssumption
  BY BackupAssumption DEF S!ConstantsAssumption, SP!ConstantsAssumption, S!States,
     SP!States
<1>5. SP!Spec => []SP!IInv /\ []SP!VolumesHeld
  BY <1>4, SP!Inductive, SP!VolumesAtRest
<1>6. SP!IInv => S!TypeOK
  BY DEF SP!IInv, SP!TypeOK, S!TypeOK, SP!States, S!States, S!Phases, SP!Phases
<1>7. SP!IInv => S!OnlyUsersStopped
  BY DEF SP!IInv, SP!UserInv, S!OnlyUsersStopped, S!InUse, SP!InUse
<1>8. SP!IInv => S!RestartedOrReported
  BY DEF SP!IInv, SP!AccountInv, S!RestartedOrReported, S!AllBackOrNamed, S!InUse,
     SP!InUse, SP!Before
<1>9. SP!IInv => AsListed
  BY DEF SP!IInv, SP!DownInv, AsListed, SP!Before
<1>10. SP!VolumesHeld => S!VolumesHeld
  BY DEF S!VolumesHeld, SP!VolumesHeld, S!InUse, SP!InUse, S!UsesVolume, SP!UsesVolume
<1>11. QED
  BY <1>3, <1>5, <1>6, <1>7, <1>8, <1>9, <1>10, BackupIsStopper, PTL
     DEF Stops

\* The archive writer's theorems hold of a backup.
LEMMA WritesAlways == BSpec => []Writes
<1>1. W!WInit => WP!WInit
  BY DEF W!WInit, WP!WInit
<1>2. [W!WNext]_(W!wvars) => [WP!WNext]_(WP!wvars)
  BY DEF W!WNext, W!wvars, W!WriterStep, W!KillWriter, W!OtherRemovesLeftover,
     W!PowerLoss, W!OtherPlacesFinal, W!StatFinal, W!OpenPartial, W!OpenFails,
     W!BeginAdd, W!AppendVolume, W!AddFails, W!WriteManifest, W!WriteReadme,
     W!CloseTar, W!Sync, W!CloseFile, W!Rename, W!FinishFails, W!Abort, W!AbortFails,
     W!Goto, W!WithEntry, W!Header, W!Body, W!MaxBlocks, W!Working, W!Cardinality,
     WP!WNext, WP!wvars, WP!WriterStep, WP!KillWriter, WP!OtherRemovesLeftover,
     WP!PowerLoss, WP!OtherPlacesFinal, WP!StatFinal, WP!OpenPartial, WP!OpenFails,
     WP!BeginAdd, WP!AppendVolume, WP!AddFails, WP!WriteManifest, WP!WriteReadme,
     WP!CloseTar, WP!Sync, WP!CloseFile, WP!Rename, WP!FinishFails, WP!Abort,
     WP!AbortFails, WP!Goto, WP!WithEntry, WP!Header, WP!Body, WP!MaxBlocks, WP!Working,
     WP!Cardinality
<1>3. W!WSpec => WP!WSpec
  BY <1>1, <1>2, PTL DEF W!WSpec, WP!WSpec
<1>4. WP!WriterAssumption
  BY BackupAssumption DEF W!WriterAssumption, WP!WriterAssumption, W!IsFiniteSet,
     WP!IsFiniteSet
<1>5. WP!WSpec => []WP!WTypeOK /\ []WP!PartialOwned /\ []WP!NothingLeftBehind
  BY <1>4, WP!WTypeCorrect, WP!Ownership, WP!CleanEnd
<1>6. WP!WTypeOK => W!WTypeOK
  BY DEF W!WTypeOK, WP!WTypeOK, W!Blocks, WP!Blocks, W!Entries, WP!Entries, W!Stages,
     WP!Stages
<1>7. WP!PartialOwned => W!PartialOwned
  BY DEF W!PartialOwned, WP!PartialOwned, W!Working, WP!Working
<1>8. WP!NothingLeftBehind => W!NothingLeftBehind
  BY DEF W!NothingLeftBehind, WP!NothingLeftBehind
<1>9. QED
  BY <1>3, <1>5, <1>6, <1>7, <1>8, BackupImplementsWriter, PTL
     DEF Writes, ImplementsWriter

-----------------------------------------------------------------------------
(* The inductive invariant of a backup.                                    *)

\* The variables of Run itself.
RunTypes ==
    /\ bpc \in BPhases /\ noStop \in BOOLEAN
    /\ selected \subseteq Volumes /\ left \subseteq selected
    /\ helper \in HelperStates
    /\ inconsistent \subseteq Volumes
    /\ torn \subseteq Volumes \X Containers
    /\ err \in BOOLEAN /\ code \in {None, 0, 1, 3}

\* Where the stopper is when Run is at bpc.
StopperAt ==
    /\ bpc = "preflight" => phase = "start"
    /\ bpc \in {"listed", "checked", "open"} => phase = "listed"
    /\ bpc = "stopping" => phase \in {"stop", "inspected", "sent"}
    /\ bpc \in {"volumes", "reading", "draining", "finishing"} => phase = "held"
    /\ bpc = "deferred" => phase \in {"held", "failed"}
    /\ bpc = "restarting" => phase = "restart"
    /\ bpc \in {"aborting", "exiting", "done"} => phase = "done"
    /\ failed # {} => err

\* The stage of the archive writer.
File == wpc[Self]

\* Where the writer is when Run is at bpc: it is done exactly if there is no
\* error, and only a writer that is done has published.
WriterAt ==
    /\ bpc \in {"preflight", "listed"} => File = "idle"
    /\ bpc = "checked" => File = "checked"
    /\ bpc \in {"open", "stopping", "volumes"} => File = "open"
    /\ bpc = "reading" => File = "compress"
    /\ bpc = "draining" => File = "broken"
    /\ bpc = "finishing" => File \in {"manifest", "readme", "trailer", "synced", "closed"}
    /\ bpc \in {"deferred", "restarting", "aborting"} /\ err => File \in {"open", "broken"}
    /\ bpc = "aborting" => err
    /\ bpc \in {"exiting", "done"} /\ err => File \in {"idle", "refused", "aborted", "left"}
    /\ bpc \in {"deferred", "restarting", "exiting", "done"} /\ ~err => File = "done"
    /\ File = "done" => ~err
    /\ final = Self => File = "done"

\* Before the first volume is read.
Early == {"preflight", "listed", "checked", "open", "stopping"}

\* Which volumes the archive holds.
ArchivedInv ==
    /\ bpc \in Early => left = selected /\ listed[Self] = {}
    /\ bpc \in {"volumes", "reading", "draining"} => listed[Self] = selected \ left
    /\ bpc = "reading" => adding[Self] \in left
    /\ bpc = "finishing" \/ File = "done" => left = {} /\ listed[Self] = selected

\* Whose users Stop has stopped, and when a helper may run.
HoldInv ==
    /\ helper = "running" => bpc \in {"reading", "draining", "killed"}
    /\ bpc \in Early \ {"stopping"} => wanted = {}
    /\ bpc = "stopping" => ~noStop /\ wanted = selected
    /\ bpc \in {"volumes", "reading", "draining", "finishing"} =>
           wanted = IF noStop THEN {} ELSE selected

\* A write under a helper, of a container no other actor acted on, is one of a
\* run with --no-stop, by a container that was listed in use, to a volume that is
\* marked or still to be judged.
TornInv ==
    /\ bpc \in Early => torn = {}
    /\ \A vc \in torn :
        vc[2] \notin touched \cup Helpers =>
            /\ noStop /\ S!UsesVolume(vc[2], vc[1]) /\ S!InUse(snap[vc[2]])
            /\ vc[1] \in left \cup inconsistent

\* What the exit code was computed from.
ExitInv ==
    /\ code # None => bpc = "done"
    /\ code = 0 => ~err /\ restartErrs = {}
    /\ code = 1 => err
    /\ code = 3 => ~err /\ restartErrs # {}

BInv ==
    /\ CallInv /\ RunTypes /\ StopperAt /\ WriterAt /\ ArchivedInv /\ HoldInv
    /\ HeldWhileRead /\ TornInv /\ ExitInv

\* A new run satisfies the invariant.
LEMMA BInvInit == BInit => BInv
<1> SUFFICES ASSUME BInit PROVE BInv
  OBVIOUS
<1> USE BackupAssumption DEF BInit, S!Init, W!WInit
<1>1. CallInv /\ RunTypes
  BY CallInit DEF RunTypes, BPhases, HelperStates
<1>2. StopperAt /\ WriterAt
  BY DEF StopperAt, WriterAt, File, W!WriterAssumption
<1>3. ArchivedInv /\ HoldInv /\ HeldWhileRead /\ TornInv /\ ExitInv
  BY DEF ArchivedInv, HoldInv, HeldWhileRead, TornInv, ExitInv, Early, File
<1>4. QED
  BY <1>1, <1>2, <1>3 DEF BInv

\* The types of Run's variables; a volume is archived at most once.
LEMMA RunTypesStep ==
  ASSUME CallInv, WriterAt, RunTypes, Writes, [BNext]_vars
  PROVE  RunTypes'
<1> USE DEF CallInv, WriterAt, File, RunTypes, BPhases, Working, HelperStates, Writes,
        W!WTypeOK, W!Goto, At, GoesOn, Errs, Settings, VolumeState
<1>1. CASE List
  BY <1>1 DEF List
<1>2. CASE PreflightFails
  BY <1>2 DEF PreflightFails
<1>3. CASE CheckName
  BY <1>3 DEF CheckName
<1>4. CASE NameTaken
  BY <1>4 DEF NameTaken
<1>5. CASE CreatePartial
  BY <1>5 DEF CreatePartial
<1>6. CASE CreateFails
  BY <1>6 DEF CreateFails
<1>7. CASE CallStop
  BY <1>7 DEF CallStop
<1>8. CASE NoStopCall
  BY <1>8 DEF NoStopCall
<1>9. CASE StopGoesOn
  BY <1>9 DEF StopGoesOn
<1>10. CASE StopFails
  BY <1>10 DEF StopFails
<1>11. CASE StopSucceeds
  BY <1>11 DEF StopSucceeds
<1>12. ASSUME NEW v \in Volumes, StartVolume(v) PROVE RunTypes'
  BY <1>12 DEF StartVolume
<1>13. ASSUME NEW h \in {"exit0", "exit1", "exit2", "error"}, HelperEnds(h)
       PROVE  RunTypes'
  BY <1>13 DEF HelperEnds
<1>14. CASE VolumeDone
  BY <1>14 DEF VolumeDone, Accepted
<1>15. CASE VolumeRejected
  BY <1>15 DEF VolumeRejected, Accepted
<1>16. CASE AddVolumeFails
  BY <1>16 DEF AddVolumeFails
<1>17. CASE Drained
  BY <1>17 DEF Drained
<1>18. CASE BeginFinish
  BY <1>18 DEF BeginFinish
<1>19. CASE FinishGoesOn
  BY <1>19 DEF FinishGoesOn
<1>20. CASE Publish
  BY <1>20 DEF Publish
<1>21. CASE FinishErrs
  BY <1>21 DEF FinishErrs
<1>22. CASE CallRestart
  BY <1>22 DEF CallRestart
<1>23. CASE RestartGoesOn
  BY <1>23 DEF RestartGoesOn
<1>24. CASE RestartDone
  BY <1>24 DEF RestartDone
<1>25. CASE CallAbort
  BY <1>25 DEF CallAbort
<1>26. CASE Exit
  BY <1>26 DEF Exit
<1>27. CASE Docker
  BY <1>27 DEF Docker, bvars
<1>28. CASE StopAnswerLost
  BY <1>28 DEF StopAnswerLost
<1>29. CASE Signal
  BY <1>29 DEF Signal, bvars
<1>30. CASE KillRun
  BY <1>30 DEF KillRun
<1>31. CASE OtherContainerStep
  BY <1>31 DEF OtherContainerStep, bvars
<1>32. CASE OtherFileStep
  BY <1>32 DEF OtherFileStep, bvars
<1>33. ASSUME NEW c \in Containers, ContainerWrites(c) PROVE RunTypes'
  BY <1>33 DEF ContainerWrites
<1>34. CASE UNCHANGED vars
  BY <1>34 DEF vars, bvars
<1>35. QED
  BY <1>1, <1>2, <1>3, <1>4, <1>5, <1>6, <1>7, <1>8, <1>9, <1>10, <1>11, <1>12, <1>13,
     <1>14, <1>15, <1>16, <1>17, <1>18, <1>19, <1>20, <1>21, <1>22, <1>23, <1>24, <1>25,
     <1>26, <1>27, <1>28, <1>29, <1>30, <1>31, <1>32, <1>33, <1>34
     DEF BNext, Run, Preflight, Stopping, Reading, Finishing, Deferred, Environment

\* Run and the stopper move together.
LEMMA StopperAtStep ==
  ASSUME CallInv, StopperAt, [BNext]_vars
  PROVE  StopperAt'
<1> USE DEF CallInv, StopperAt, Working, HelperStates, At, GoesOn, Errs, Settings,
        VolumeState, svars, S!daemonVars, S!runVars, S!otherVars, S!historyVars
<1>1. CASE List
  BY <1>1 DEF List, S!ListContainers
<1>2. CASE PreflightFails
  BY <1>2 DEF PreflightFails, S!Leave
<1>3. CASE CheckName
  BY <1>3 DEF CheckName
<1>4. CASE NameTaken
  BY <1>4 DEF NameTaken, S!Leave
<1>5. CASE CreatePartial
  BY <1>5 DEF CreatePartial
<1>6. CASE CreateFails
  BY <1>6 DEF CreateFails, S!Leave
<1>7. CASE CallStop
  BY <1>7 DEF CallStop, S!BeginStop
<1>8. CASE NoStopCall
  BY <1>8 DEF NoStopCall, S!SkipStop
<1>9. CASE StopGoesOn
  BY <1>9 DEF StopGoesOn, S!SendStop, S!StopOk, S!ReadStartedAt
<1>10. CASE StopFails
  BY <1>10 DEF StopFails, S!StartedAtFails, S!StopRefused, S!StopFailed
<1>11. CASE StopSucceeds
  BY <1>11 DEF StopSucceeds, S!StopReturns
<1>12. ASSUME NEW v \in Volumes, StartVolume(v) PROVE StopperAt'
  BY <1>12 DEF StartVolume
<1>13. ASSUME NEW h \in {"exit0", "exit1", "exit2", "error"}, HelperEnds(h)
       PROVE  StopperAt'
  BY <1>13 DEF HelperEnds
<1>14. CASE VolumeDone
  BY <1>14 DEF VolumeDone, Accepted
<1>15. CASE VolumeRejected
  BY <1>15 DEF VolumeRejected, Accepted
<1>16. CASE AddVolumeFails
  BY <1>16 DEF AddVolumeFails
<1>17. CASE Drained
  BY <1>17 DEF Drained
<1>18. CASE BeginFinish
  BY <1>18 DEF BeginFinish
<1>19. CASE FinishGoesOn
  BY <1>19 DEF FinishGoesOn
<1>20. CASE Publish
  BY <1>20 DEF Publish
<1>21. CASE FinishErrs
  BY <1>21 DEF FinishErrs
<1>22. CASE CallRestart
  BY <1>22 DEF CallRestart, S!BeginRestart
<1>23. CASE RestartGoesOn
  BY <1>23 DEF RestartGoesOn, S!StartOk, S!StartFails, S!NextToStart, S!Bring
<1>24. CASE RestartDone
  BY <1>24 DEF RestartDone, S!RestartReturns
<1>25. CASE CallAbort
  BY <1>25 DEF CallAbort
<1>26. CASE Exit
  BY <1>26 DEF Exit
<1>27. CASE Docker
  BY <1>27 DEF Docker, bvars, S!DaemonStep, S!DaemonStops
<1>28. CASE StopAnswerLost
  BY <1>28 DEF StopAnswerLost, S!StopLost, S!StopFailed
<1>29. CASE Signal
  BY <1>29 DEF Signal, bvars, S!Cancel
<1>30. CASE KillRun
  BY <1>30 DEF KillRun, S!Kill
<1>31. CASE OtherContainerStep
  BY <1>31 DEF OtherContainerStep, bvars, S!OtherStep, S!OtherStarts, S!OtherStops,
     S!OtherRemoves, S!OtherActs
<1>32. CASE OtherFileStep
  BY <1>32 DEF OtherFileStep, bvars
<1>33. ASSUME NEW c \in Containers, ContainerWrites(c) PROVE StopperAt'
  BY <1>33 DEF ContainerWrites
<1>34. CASE UNCHANGED vars
  BY <1>34 DEF vars, bvars
<1>35. QED
  BY <1>1, <1>2, <1>3, <1>4, <1>5, <1>6, <1>7, <1>8, <1>9, <1>10, <1>11, <1>12, <1>13,
     <1>14, <1>15, <1>16, <1>17, <1>18, <1>19, <1>20, <1>21, <1>22, <1>23, <1>24, <1>25,
     <1>26, <1>27, <1>28, <1>29, <1>30, <1>31, <1>32, <1>33, <1>34
     DEF BNext, Run, Preflight, Stopping, Reading, Finishing, Deferred, Environment

\* Run and the archive writer move together; the rename publishes the run's own
\* file because it still owns the .partial name.
LEMMA WriterAtStep ==
  ASSUME CallInv, WriterAt, Writes, Writes', [BNext]_vars
  PROVE  WriterAt'
<1> USE BackupAssumption DEF CallInv, WriterAt, File, Working, HelperStates, wvars,
        Writes, W!WTypeOK, W!PartialOwned, W!Goto, W!Working, W!WriterAssumption, At,
        GoesOn, Errs, Settings, VolumeState
<1>1. CASE List
  BY <1>1 DEF List
<1>2. CASE PreflightFails
  BY <1>2 DEF PreflightFails
<1>3. CASE CheckName
  BY <1>3 DEF CheckName, W!StatFinal
<1>4. CASE NameTaken
  BY <1>4 DEF NameTaken, W!StatFinal
<1>5. CASE CreatePartial
  BY <1>5 DEF CreatePartial, W!OpenPartial
<1>6. CASE CreateFails
  BY <1>6 DEF CreateFails, W!OpenFails
<1>7. CASE CallStop
  BY <1>7 DEF CallStop
<1>8. CASE NoStopCall
  BY <1>8 DEF NoStopCall
<1>9. CASE StopGoesOn
  BY <1>9 DEF StopGoesOn
<1>10. CASE StopFails
  BY <1>10 DEF StopFails
<1>11. CASE StopSucceeds
  BY <1>11 DEF StopSucceeds
<1>12. ASSUME NEW v \in Volumes, StartVolume(v) PROVE WriterAt'
  BY <1>12 DEF StartVolume, W!BeginAdd
<1>13. ASSUME NEW h \in {"exit0", "exit1", "exit2", "error"}, HelperEnds(h)
       PROVE  WriterAt'
  BY <1>13 DEF HelperEnds
<1>14. CASE VolumeDone
  BY <1>14 DEF VolumeDone, Accepted, W!AppendVolume
<1>15. CASE VolumeRejected
  BY <1>15 DEF VolumeRejected, Accepted, W!AppendVolume
<1>16. CASE AddVolumeFails
  BY <1>16 DEF AddVolumeFails, W!AddFails
<1>17. CASE Drained
  BY <1>17 DEF Drained
<1>18. CASE BeginFinish
  BY <1>18 DEF BeginFinish, W!WriteManifest
<1>19. CASE FinishGoesOn
  BY <1>19 DEF FinishGoesOn, W!WriteReadme, W!CloseTar, W!Sync, W!CloseFile
<1>20. CASE Publish
  BY <1>20 DEF Publish, W!Rename
<1>21. CASE FinishErrs
  BY <1>21 DEF FinishErrs, W!FinishFails
<1>22. CASE CallRestart
  BY <1>22 DEF CallRestart
<1>23. CASE RestartGoesOn
  BY <1>23 DEF RestartGoesOn
<1>24. CASE RestartDone
  BY <1>24 DEF RestartDone
<1>25. CASE CallAbort
  BY <1>25 DEF CallAbort, W!Abort, W!AbortFails
<1>26. CASE Exit
  BY <1>26 DEF Exit
<1>27. CASE Docker
  BY <1>27 DEF Docker, bvars
<1>28. CASE StopAnswerLost
  BY <1>28 DEF StopAnswerLost
<1>29. CASE Signal
  BY <1>29 DEF Signal, bvars
<1>30. CASE KillRun
  BY <1>30 DEF KillRun, W!KillWriter
<1>31. CASE OtherContainerStep
  BY <1>31 DEF OtherContainerStep, bvars
<1>32. CASE OtherFileStep
  BY <1>32 DEF OtherFileStep, bvars, W!OtherPlacesFinal, W!OtherRemovesLeftover
<1>33. ASSUME NEW c \in Containers, ContainerWrites(c) PROVE WriterAt'
  BY <1>33 DEF ContainerWrites
<1>34. CASE UNCHANGED vars
  BY <1>34 DEF vars, bvars
<1>35. QED
  BY <1>1, <1>2, <1>3, <1>4, <1>5, <1>6, <1>7, <1>8, <1>9, <1>10, <1>11, <1>12, <1>13,
     <1>14, <1>15, <1>16, <1>17, <1>18, <1>19, <1>20, <1>21, <1>22, <1>23, <1>24, <1>25,
     <1>26, <1>27, <1>28, <1>29, <1>30, <1>31, <1>32, <1>33, <1>34
     DEF BNext, Run, Preflight, Stopping, Reading, Finishing, Deferred, Environment

\* The archive holds the volumes that are done, and Finish all of them.
LEMMA ArchivedStep ==
  ASSUME CallInv, RunTypes, WriterAt, ArchivedInv, Writes, [BNext]_vars
  PROVE  ArchivedInv'
<1> USE DEF CallInv, RunTypes, WriterAt, ArchivedInv, Early, File, Working,
        HelperStates, wvars, Writes, W!WTypeOK, W!Goto, W!Working, At, GoesOn, Errs,
        Settings, VolumeState
<1>1. CASE List
  BY <1>1 DEF List
<1>2. CASE PreflightFails
  BY <1>2 DEF PreflightFails
<1>3. CASE CheckName
  BY <1>3 DEF CheckName, W!StatFinal
<1>4. CASE NameTaken
  BY <1>4 DEF NameTaken, W!StatFinal
<1>5. CASE CreatePartial
  BY <1>5 DEF CreatePartial, W!OpenPartial
<1>6. CASE CreateFails
  BY <1>6 DEF CreateFails, W!OpenFails
<1>7. CASE CallStop
  BY <1>7 DEF CallStop
<1>8. CASE NoStopCall
  BY <1>8 DEF NoStopCall
<1>9. CASE StopGoesOn
  BY <1>9 DEF StopGoesOn
<1>10. CASE StopFails
  BY <1>10 DEF StopFails
<1>11. CASE StopSucceeds
  BY <1>11 DEF StopSucceeds
<1>12. ASSUME NEW v \in Volumes, StartVolume(v) PROVE ArchivedInv'
  BY <1>12 DEF StartVolume, W!BeginAdd
<1>13. ASSUME NEW h \in {"exit0", "exit1", "exit2", "error"}, HelperEnds(h)
       PROVE  ArchivedInv'
  BY <1>13 DEF HelperEnds
<1>14. CASE VolumeDone
  BY <1>14 DEF VolumeDone, Accepted, W!AppendVolume
<1>15. CASE VolumeRejected
  BY <1>15 DEF VolumeRejected, Accepted, W!AppendVolume
<1>16. CASE AddVolumeFails
  BY <1>16 DEF AddVolumeFails, W!AddFails
<1>17. CASE Drained
  BY <1>17 DEF Drained
<1>18. CASE BeginFinish
  BY <1>18 DEF BeginFinish, W!WriteManifest
<1>19. CASE FinishGoesOn
  BY <1>19 DEF FinishGoesOn, W!WriteReadme, W!CloseTar, W!Sync, W!CloseFile
<1>20. CASE Publish
  BY <1>20 DEF Publish, W!Rename
<1>21. CASE FinishErrs
  BY <1>21 DEF FinishErrs, W!FinishFails
<1>22. CASE CallRestart
  BY <1>22 DEF CallRestart
<1>23. CASE RestartGoesOn
  BY <1>23 DEF RestartGoesOn
<1>24. CASE RestartDone
  BY <1>24 DEF RestartDone
<1>25. CASE CallAbort
  BY <1>25 DEF CallAbort, W!Abort, W!AbortFails
<1>26. CASE Exit
  BY <1>26 DEF Exit
<1>27. CASE Docker
  BY <1>27 DEF Docker, bvars
<1>28. CASE StopAnswerLost
  BY <1>28 DEF StopAnswerLost
<1>29. CASE Signal
  BY <1>29 DEF Signal, bvars
<1>30. CASE KillRun
  BY <1>30 DEF KillRun, W!KillWriter
<1>31. CASE OtherContainerStep
  BY <1>31 DEF OtherContainerStep, bvars
<1>32. CASE OtherFileStep
  BY <1>32 DEF OtherFileStep, bvars, W!OtherPlacesFinal, W!OtherRemovesLeftover
<1>33. ASSUME NEW c \in Containers, ContainerWrites(c) PROVE ArchivedInv'
  BY <1>33 DEF ContainerWrites
<1>34. CASE UNCHANGED vars
  BY <1>34 DEF vars, bvars
<1>35. QED
  BY <1>1, <1>2, <1>3, <1>4, <1>5, <1>6, <1>7, <1>8, <1>9, <1>10, <1>11, <1>12, <1>13,
     <1>14, <1>15, <1>16, <1>17, <1>18, <1>19, <1>20, <1>21, <1>22, <1>23, <1>24, <1>25,
     <1>26, <1>27, <1>28, <1>29, <1>30, <1>31, <1>32, <1>33, <1>34
     DEF BNext, Run, Preflight, Stopping, Reading, Finishing, Deferred, Environment

\* A helper runs between the start of its volume and the end of the wait for it.
LEMMA HoldStep ==
  ASSUME CallInv, StopperAt, HoldInv, [BNext]_vars
  PROVE  HoldInv'
<1> USE DEF CallInv, RunTypes, StopperAt, HoldInv, Early, Stops, S!TypeOK, Working,
        HelperStates, At, GoesOn, Errs, Settings, VolumeState, svars, S!daemonVars,
        S!runVars, S!otherVars, S!historyVars
<1>1. CASE List
  BY <1>1 DEF List, S!ListContainers
<1>2. CASE PreflightFails
  BY <1>2 DEF PreflightFails, S!Leave
<1>3. CASE CheckName
  BY <1>3 DEF CheckName
<1>4. CASE NameTaken
  BY <1>4 DEF NameTaken, S!Leave
<1>5. CASE CreatePartial
  BY <1>5 DEF CreatePartial
<1>6. CASE CreateFails
  BY <1>6 DEF CreateFails, S!Leave
<1>7. CASE CallStop
  BY <1>7 DEF CallStop, S!BeginStop
<1>8. CASE NoStopCall
  BY <1>8 DEF NoStopCall, S!SkipStop
<1>9. CASE StopGoesOn
  BY <1>9 DEF StopGoesOn, S!SendStop, S!StopOk, S!ReadStartedAt
<1>10. CASE StopFails
  BY <1>10 DEF StopFails, S!StartedAtFails, S!StopRefused, S!StopFailed
<1>11. CASE StopSucceeds
  BY <1>11 DEF StopSucceeds, S!StopReturns
<1>12. ASSUME NEW v \in Volumes, StartVolume(v) PROVE HoldInv'
  BY <1>12 DEF StartVolume
<1>13. ASSUME NEW h \in {"exit0", "exit1", "exit2", "error"}, HelperEnds(h)
       PROVE  HoldInv'
  BY <1>13 DEF HelperEnds
<1>14. CASE VolumeDone
  BY <1>14 DEF VolumeDone, Accepted
<1>15. CASE VolumeRejected
  BY <1>15 DEF VolumeRejected, Accepted
<1>16. CASE AddVolumeFails
  BY <1>16 DEF AddVolumeFails
<1>17. CASE Drained
  BY <1>17 DEF Drained
<1>18. CASE BeginFinish
  BY <1>18 DEF BeginFinish
<1>19. CASE FinishGoesOn
  BY <1>19 DEF FinishGoesOn
<1>20. CASE Publish
  BY <1>20 DEF Publish
<1>21. CASE FinishErrs
  BY <1>21 DEF FinishErrs
<1>22. CASE CallRestart
  BY <1>22 DEF CallRestart, S!BeginRestart
<1>23. CASE RestartGoesOn
  BY <1>23 DEF RestartGoesOn, S!StartOk, S!StartFails, S!NextToStart, S!Bring
<1>24. CASE RestartDone
  BY <1>24 DEF RestartDone, S!RestartReturns
<1>25. CASE CallAbort
  BY <1>25 DEF CallAbort
<1>26. CASE Exit
  BY <1>26 DEF Exit
<1>27. CASE Docker
  BY <1>27 DEF Docker, bvars, S!DaemonStep, S!DaemonStops
<1>28. CASE StopAnswerLost
  BY <1>28 DEF StopAnswerLost, S!StopLost, S!StopFailed
<1>29. CASE Signal
  BY <1>29 DEF Signal, bvars, S!Cancel
<1>30. CASE KillRun
  BY <1>30 DEF KillRun, S!Kill
<1>31. CASE OtherContainerStep
  BY <1>31 DEF OtherContainerStep, bvars, S!OtherStep, S!OtherStarts, S!OtherStops,
     S!OtherRemoves, S!OtherActs
<1>32. CASE OtherFileStep
  BY <1>32 DEF OtherFileStep, bvars
<1>33. ASSUME NEW c \in Containers, ContainerWrites(c) PROVE HoldInv'
  BY <1>33 DEF ContainerWrites
<1>34. CASE UNCHANGED vars
  BY <1>34 DEF vars, bvars
<1>35. QED
  BY <1>1, <1>2, <1>3, <1>4, <1>5, <1>6, <1>7, <1>8, <1>9, <1>10, <1>11, <1>12, <1>13,
     <1>14, <1>15, <1>16, <1>17, <1>18, <1>19, <1>20, <1>21, <1>22, <1>23, <1>24, <1>25,
     <1>26, <1>27, <1>28, <1>29, <1>30, <1>31, <1>32, <1>33, <1>34
     DEF BNext, Run, Preflight, Stopping, Reading, Finishing, Deferred, Environment

\* The volumes are at rest when a helper starts; no step of this run starts a
\* container before the helper has ended.
LEMMA HeldWhileReadStep ==
  ASSUME CallInv, StopperAt, RunTypes, HoldInv, HeldWhileRead, Stops, [BNext]_vars
  PROVE  HeldWhileRead'
<1> USE DEF CallInv, RunTypes, StopperAt, HoldInv, HeldWhileRead, Stops, S!TypeOK,
        S!VolumesHeld, S!States, S!InUse, S!UsesVolume, HelperStates, Working, At,
        GoesOn, Errs, Settings, VolumeState, svars, S!daemonVars, S!runVars,
        S!otherVars, S!historyVars
<1>1. CASE List
  BY <1>1 DEF List, S!ListContainers
<1>2. CASE PreflightFails
  BY <1>2 DEF PreflightFails, S!Leave
<1>3. CASE CheckName
  BY <1>3 DEF CheckName
<1>4. CASE NameTaken
  BY <1>4 DEF NameTaken, S!Leave
<1>5. CASE CreatePartial
  BY <1>5 DEF CreatePartial
<1>6. CASE CreateFails
  BY <1>6 DEF CreateFails, S!Leave
<1>7. CASE CallStop
  BY <1>7 DEF CallStop, S!BeginStop
<1>8. CASE NoStopCall
  BY <1>8 DEF NoStopCall, S!SkipStop
<1>9. CASE StopGoesOn
  BY <1>9 DEF StopGoesOn, S!SendStop, S!StopOk, S!ReadStartedAt
<1>10. CASE StopFails
  BY <1>10 DEF StopFails, S!StartedAtFails, S!StopRefused, S!StopFailed
<1>11. CASE StopSucceeds
  BY <1>11 DEF StopSucceeds, S!StopReturns
<1>12. ASSUME NEW v \in Volumes, StartVolume(v) PROVE HeldWhileRead'
  BY <1>12 DEF StartVolume
<1>13. ASSUME NEW h \in {"exit0", "exit1", "exit2", "error"}, HelperEnds(h)
       PROVE  HeldWhileRead'
  BY <1>13 DEF HelperEnds
<1>14. CASE VolumeDone
  BY <1>14 DEF VolumeDone, Accepted
<1>15. CASE VolumeRejected
  BY <1>15 DEF VolumeRejected, Accepted
<1>16. CASE AddVolumeFails
  BY <1>16 DEF AddVolumeFails
<1>17. CASE Drained
  BY <1>17 DEF Drained
<1>18. CASE BeginFinish
  BY <1>18 DEF BeginFinish
<1>19. CASE FinishGoesOn
  BY <1>19 DEF FinishGoesOn
<1>20. CASE Publish
  BY <1>20 DEF Publish
<1>21. CASE FinishErrs
  BY <1>21 DEF FinishErrs
<1>22. CASE CallRestart
  BY <1>22 DEF CallRestart, S!BeginRestart
<1>23. CASE RestartGoesOn
  BY <1>23 DEF RestartGoesOn, S!StartOk, S!StartFails, S!NextToStart, S!Bring
<1>24. CASE RestartDone
  BY <1>24 DEF RestartDone, S!RestartReturns
<1>25. CASE CallAbort
  BY <1>25 DEF CallAbort
<1>26. CASE Exit
  BY <1>26 DEF Exit
<1>27. CASE Docker
  BY <1>27 DEF Docker, bvars, S!DaemonStep, S!DaemonStops
<1>28. CASE StopAnswerLost
  BY <1>28 DEF StopAnswerLost, S!StopLost, S!StopFailed
<1>29. CASE Signal
  BY <1>29 DEF Signal, bvars, S!Cancel
<1>30. CASE KillRun
  BY <1>30 DEF KillRun, S!Kill
<1>31. CASE OtherContainerStep
  BY <1>31 DEF OtherContainerStep, bvars, S!OtherStep, S!OtherStarts, S!OtherStops,
     S!OtherRemoves, S!OtherActs
<1>32. CASE OtherFileStep
  BY <1>32 DEF OtherFileStep, bvars
<1>33. ASSUME NEW c \in Containers, ContainerWrites(c) PROVE HeldWhileRead'
  BY <1>33 DEF ContainerWrites
<1>34. CASE UNCHANGED vars
  BY <1>34 DEF vars, bvars
<1>35. QED
  BY <1>1, <1>2, <1>3, <1>4, <1>5, <1>6, <1>7, <1>8, <1>9, <1>10, <1>11, <1>12, <1>13,
     <1>14, <1>15, <1>16, <1>17, <1>18, <1>19, <1>20, <1>21, <1>22, <1>23, <1>24, <1>25,
     <1>26, <1>27, <1>28, <1>29, <1>30, <1>31, <1>32, <1>33, <1>34
     DEF BNext, Run, Preflight, Stopping, Reading, Finishing, Deferred, Environment

\* A container that writes under a helper is accounted for, and stays so when the
\* volume is judged.
LEMMA TornStep ==
  ASSUME CallInv, StopperAt, RunTypes, ArchivedInv, HoldInv, HeldWhileRead,
         TornInv, Stops, [BNext]_vars
  PROVE  TornInv'
<1> USE DEF CallInv, RunTypes, StopperAt, TornInv, Early, Stops, S!TypeOK, S!States,
        HelperStates, Working, At, GoesOn, Errs, Settings, VolumeState, svars,
        S!daemonVars, S!runVars, S!otherVars, S!historyVars
<1>1. CASE List
  BY <1>1 DEF List, S!ListContainers
<1>2. CASE PreflightFails
  BY <1>2 DEF PreflightFails, S!Leave
<1>3. CASE CheckName
  BY <1>3 DEF CheckName
<1>4. CASE NameTaken
  BY <1>4 DEF NameTaken, S!Leave
<1>5. CASE CreatePartial
  BY <1>5 DEF CreatePartial
<1>6. CASE CreateFails
  BY <1>6 DEF CreateFails, S!Leave
<1>7. CASE CallStop
  BY <1>7 DEF CallStop, S!BeginStop
<1>8. CASE NoStopCall
  BY <1>8 DEF NoStopCall, S!SkipStop
<1>9. CASE StopGoesOn
  BY <1>9 DEF StopGoesOn, S!SendStop, S!StopOk, S!ReadStartedAt
<1>10. CASE StopFails
  BY <1>10 DEF StopFails, S!StartedAtFails, S!StopRefused, S!StopFailed
<1>11. CASE StopSucceeds
  BY <1>11 DEF StopSucceeds, S!StopReturns
<1>12. ASSUME NEW v \in Volumes, StartVolume(v) PROVE TornInv'
  BY <1>12 DEF StartVolume
<1>13. ASSUME NEW h \in {"exit0", "exit1", "exit2", "error"}, HelperEnds(h)
       PROVE  TornInv'
  BY <1>13 DEF HelperEnds
<1>14. CASE VolumeDone
  <2> SUFFICES ASSUME NEW vc \in torn, vc[2] \notin touched \cup Helpers
               PROVE  vc[1] \in left' \cup inconsistent'
    BY <1>14 DEF VolumeDone
  <2>1. CASE vc[1] = adding[Self]
    <3>1. noStop /\ AnyInUse(vc[1])
      BY DEF AnyInUse
    <3>2. QED
      BY <1>14, <2>1, <3>1 DEF VolumeDone
  <2>2. CASE vc[1] # adding[Self]
    BY <1>14, <2>2 DEF VolumeDone
  <2>3. QED
    BY <2>1, <2>2
<1>15. CASE VolumeRejected
  BY <1>15 DEF VolumeRejected, Accepted
<1>16. CASE AddVolumeFails
  BY <1>16 DEF AddVolumeFails
<1>17. CASE Drained
  BY <1>17 DEF Drained
<1>18. CASE BeginFinish
  BY <1>18 DEF BeginFinish
<1>19. CASE FinishGoesOn
  BY <1>19 DEF FinishGoesOn
<1>20. CASE Publish
  BY <1>20 DEF Publish
<1>21. CASE FinishErrs
  BY <1>21 DEF FinishErrs
<1>22. CASE CallRestart
  BY <1>22 DEF CallRestart, S!BeginRestart
<1>23. CASE RestartGoesOn
  BY <1>23 DEF RestartGoesOn, S!StartOk, S!StartFails, S!NextToStart, S!Bring
<1>24. CASE RestartDone
  BY <1>24 DEF RestartDone, S!RestartReturns
<1>25. CASE CallAbort
  BY <1>25 DEF CallAbort
<1>26. CASE Exit
  BY <1>26 DEF Exit
<1>27. CASE Docker
  BY <1>27 DEF Docker, bvars, S!DaemonStep, S!DaemonStops
<1>28. CASE StopAnswerLost
  BY <1>28 DEF StopAnswerLost, S!StopLost, S!StopFailed
<1>29. CASE Signal
  BY <1>29 DEF Signal, bvars, S!Cancel
<1>30. CASE KillRun
  BY <1>30 DEF KillRun, S!Kill
<1>31. CASE OtherContainerStep
  BY <1>31 DEF OtherContainerStep, bvars, S!OtherStep, S!OtherStarts, S!OtherStops,
     S!OtherRemoves, S!OtherActs
<1>32. CASE OtherFileStep
  BY <1>32 DEF OtherFileStep, bvars
<1>33. ASSUME NEW c \in Containers, ContainerWrites(c) PROVE TornInv'
  <2>1. adding[Self] \in left /\ S!UsesVolume(c, adding[Self]) /\ cstate[c] = "running"
    BY <1>33 DEF ContainerWrites, ArchivedInv
  <2>2. CASE c \in touched \cup Helpers
    BY <1>33, <2>1, <2>2 DEF ContainerWrites
  <2>3. CASE c \notin touched \cup Helpers
    <3>1. noStop
      BY <1>33, <2>1, <2>3 DEF ContainerWrites, HeldWhileRead, S!InUse
    <3>2. wanted = {} /\ phase = "held"
      BY <1>33, <3>1 DEF ContainerWrites, HoldInv
    <3>3. c \notin broughtDown
      BY <3>2 DEF S!OnlyUsersStopped
    <3>4. S!InUse(snap[c])
      BY <2>1, <2>3, <3>2, <3>3 DEF AsListed, S!InUse
    <3>5. QED
      BY <1>33, <2>1, <2>3, <3>1, <3>4 DEF ContainerWrites
  <2>4. QED
    BY <2>2, <2>3
<1>34. CASE UNCHANGED vars
  BY <1>34 DEF vars, bvars
<1>35. QED
  BY <1>1, <1>2, <1>3, <1>4, <1>5, <1>6, <1>7, <1>8, <1>9, <1>10, <1>11, <1>12, <1>13,
     <1>14, <1>15, <1>16, <1>17, <1>18, <1>19, <1>20, <1>21, <1>22, <1>23, <1>24, <1>25,
     <1>26, <1>27, <1>28, <1>29, <1>30, <1>31, <1>32, <1>33, <1>34
     DEF BNext, Run, Preflight, Stopping, Reading, Finishing, Deferred, Environment

\* The exit code is the last thing that changes.
LEMMA ExitStep ==
  ASSUME CallInv, StopperAt, RunTypes, ExitInv, Stops, [BNext]_vars
  PROVE  ExitInv'
<1> USE BackupAssumption DEF CallInv, RunTypes, StopperAt, ExitInv, Stops, S!TypeOK,
        HelperStates, Working, At, GoesOn, Errs, Settings, VolumeState, svars,
        S!daemonVars, S!runVars, S!otherVars, S!historyVars
<1>1. CASE List
  BY <1>1 DEF List, S!ListContainers
<1>2. CASE PreflightFails
  BY <1>2 DEF PreflightFails, S!Leave
<1>3. CASE CheckName
  BY <1>3 DEF CheckName
<1>4. CASE NameTaken
  BY <1>4 DEF NameTaken, S!Leave
<1>5. CASE CreatePartial
  BY <1>5 DEF CreatePartial
<1>6. CASE CreateFails
  BY <1>6 DEF CreateFails, S!Leave
<1>7. CASE CallStop
  BY <1>7 DEF CallStop, S!BeginStop
<1>8. CASE NoStopCall
  BY <1>8 DEF NoStopCall, S!SkipStop
<1>9. CASE StopGoesOn
  BY <1>9 DEF StopGoesOn, S!SendStop, S!StopOk, S!ReadStartedAt
<1>10. CASE StopFails
  BY <1>10 DEF StopFails, S!StartedAtFails, S!StopRefused, S!StopFailed
<1>11. CASE StopSucceeds
  BY <1>11 DEF StopSucceeds, S!StopReturns
<1>12. ASSUME NEW v \in Volumes, StartVolume(v) PROVE ExitInv'
  BY <1>12 DEF StartVolume
<1>13. ASSUME NEW h \in {"exit0", "exit1", "exit2", "error"}, HelperEnds(h)
       PROVE  ExitInv'
  BY <1>13 DEF HelperEnds
<1>14. CASE VolumeDone
  BY <1>14 DEF VolumeDone, Accepted
<1>15. CASE VolumeRejected
  BY <1>15 DEF VolumeRejected, Accepted
<1>16. CASE AddVolumeFails
  BY <1>16 DEF AddVolumeFails
<1>17. CASE Drained
  BY <1>17 DEF Drained
<1>18. CASE BeginFinish
  BY <1>18 DEF BeginFinish
<1>19. CASE FinishGoesOn
  BY <1>19 DEF FinishGoesOn
<1>20. CASE Publish
  BY <1>20 DEF Publish
<1>21. CASE FinishErrs
  BY <1>21 DEF FinishErrs
<1>22. CASE CallRestart
  BY <1>22 DEF CallRestart, S!BeginRestart
<1>23. CASE RestartGoesOn
  BY <1>23 DEF RestartGoesOn, S!StartOk, S!StartFails, S!NextToStart, S!Bring
<1>24. CASE RestartDone
  BY <1>24 DEF RestartDone, S!RestartReturns
<1>25. CASE CallAbort
  BY <1>25 DEF CallAbort
<1>26. CASE Exit
  BY <1>26 DEF Exit
<1>27. CASE Docker
  BY <1>27 DEF Docker, bvars, S!DaemonStep, S!DaemonStops
<1>28. CASE StopAnswerLost
  BY <1>28 DEF StopAnswerLost, S!StopLost, S!StopFailed
<1>29. CASE Signal
  BY <1>29 DEF Signal, bvars, S!Cancel
<1>30. CASE KillRun
  BY <1>30 DEF KillRun, S!Kill
<1>31. CASE OtherContainerStep
  BY <1>31 DEF OtherContainerStep, bvars, S!OtherStep, S!OtherStarts, S!OtherStops,
     S!OtherRemoves, S!OtherActs
<1>32. CASE OtherFileStep
  BY <1>32 DEF OtherFileStep, bvars
<1>33. ASSUME NEW c \in Containers, ContainerWrites(c) PROVE ExitInv'
  BY <1>33 DEF ContainerWrites
<1>34. CASE UNCHANGED vars
  BY <1>34 DEF vars, bvars
<1>35. QED
  BY <1>1, <1>2, <1>3, <1>4, <1>5, <1>6, <1>7, <1>8, <1>9, <1>10, <1>11, <1>12, <1>13,
     <1>14, <1>15, <1>16, <1>17, <1>18, <1>19, <1>20, <1>21, <1>22, <1>23, <1>24, <1>25,
     <1>26, <1>27, <1>28, <1>29, <1>30, <1>31, <1>32, <1>33, <1>34
     DEF BNext, Run, Preflight, Stopping, Reading, Finishing, Deferred, Environment

-----------------------------------------------------------------------------
(* The theorems on a backup's own safety.                                  *)

\* The invariant of a backup holds in every reachable state.
THEOREM BInductive == BSpec => []BInv
<1>1. BInv /\ Stops /\ Writes /\ Writes' /\ [BNext]_vars => BInv'
  BY CallStep, RunTypesStep, StopperAtStep, WriterAtStep, ArchivedStep, HoldStep,
     HeldWhileReadStep, TornStep, ExitStep DEF BInv
<1>2. QED
  BY BInvInit, <1>1, StopsAlways, WritesAlways, PTL DEF BSpec

\* Types of Run's state; between two volumes the archive holds those done.
THEOREM BTypeCorrect == BSpec => []BTypeOK
<1>1. BInv => BTypeOK
  BY DEF BInv, RunTypes, ArchivedInv, BTypeOK
<1>2. QED
  BY BInductive, <1>1, PTL

\* No container of the host runs with a selected volume while a helper reads one,
\* but for helpers and what other actors acted on.
THEOREM QuietWhileRead == BSpec => []HeldWhileRead
<1>1. BInv => HeldWhileRead
  BY DEF BInv
<1>2. QED
  BY BInductive, <1>1, PTL

\* In a published archive, a volume marked consistent was written to, while it was
\* read, only by containers other actors acted on or by helpers.
THEOREM OnlyOthersTear == BSpec => []TornOnlyByOthers
<1>1. BInv => TornOnlyByOthers
  <2> SUFFICES ASSUME BInv, Published, NEW v \in selected \ inconsistent,
                      NEW c \in Containers, <<v, c>> \in torn
               PROVE  c \in touched \cup Helpers
    BY DEF TornOnlyByOthers
  <2>1. left = {}
    BY DEF BInv, WriterAt, ArchivedInv, Published
  <2>2. QED
    BY <2>1 DEF BInv, TornInv
<1>2. QED
  BY BInductive, <1>1, PTL

\* The exit code says what became of the archive and of the containers.
THEOREM ExitCodeTrue == BSpec => []ExitTellsTruth
<1>1. BInv /\ Stops => ExitTellsTruth
  <2> SUFFICES ASSUME BInv, Stops PROVE ExitTellsTruth
    OBVIOUS
  <2> USE BackupAssumption DEF BInv, ExitInv
  <2>1. ASSUME code \in {0, 3}
        PROVE  /\ File = "done" /\ listed[Self] = selected /\ failed = {}
               /\ phase = "done"
    BY <2>1 DEF StopperAt, WriterAt, ArchivedInv
  <2>2. code = 1 => ~Published
    BY DEF WriterAt, Published
  <2>3. QED
    BY <2>1, <2>2 DEF ExitTellsTruth, File, Stops, S!RestartedOrReported,
       S!AllBackOrNamed
<1>2. QED
  BY BInductive, StopsAlways, <1>1, PTL

\* Every behaviour of a backup is one of the stopper protocol, and whichever way
\* it ends, Stop's failure included, every container it took down runs again or
\* an error names it, unless other actors acted on it.
THEOREM BackupImplementsStopper == BSpec => ImplementsStopper
<1>1. BInv /\ Stops => (bpc = "done" => S!AllBackOrNamed)
  <2>1. BInv /\ bpc = "done" => phase = "done"
    BY DEF BInv, StopperAt
  <2>2. QED
    BY <2>1 DEF Stops, S!RestartedOrReported
<1>2. QED
  BY BInductive, StopsAlways, BackupIsStopper, <1>1, PTL DEF ImplementsStopper

\* A run that failed, in whatever step, left no archive behind.
THEOREM ErrorLeavesNoArchive == BSpec => []NoArchiveOnError
<1>1. BInv /\ Writes => NoArchiveOnError
  <2> SUFFICES ASSUME BInv, Writes, err PROVE NoArchiveOnError
    BY DEF NoArchiveOnError
  <2>1. ~Published
    BY DEF BInv, WriterAt, Published
  <2>2. ASSUME bpc = "done" PROVE (partial = Self => wpc[Self] = "left")
    BY <2>2 DEF BInv, WriterAt, File, Writes, W!WTypeOK, W!NothingLeftBehind
  <2>3. QED
    BY <2>1, <2>2 DEF NoArchiveOnError
<1>2. QED
  BY BInductive, WritesAlways, <1>1, PTL
=============================================================================
