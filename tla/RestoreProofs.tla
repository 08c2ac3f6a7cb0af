---------------------------- MODULE RestoreProofs ---------------------------
(***************************************************************************)
(* A restore implements the stopper protocol: each of its steps is a step  *)
(* of the stopper or leaves its variables alone.  What StopperProofs shows *)
(* of every behaviour of the protocol therefore holds of every restore, and*)
(* is brought here (Stops).                                                *)
(*                                                                         *)
(* The heart of the restore's own safety is that what observe found does   *)
(* not go stale by itself: until Restart, a volume found absent is mounted *)
(* by nobody, and one found empty without users in use is written to only  *)
(* by what other actors started or created (SeenInv).  The plan inherits   *)
(* this (PlanHolds), and the steps rely on it (VolumeAt).                  *)
(***************************************************************************)
EXTENDS Restore, TLAPS

\* The plan is about volumes of the host: the volumes given to Stop are.
PlanInv == selected \subseteq Volumes /\ DOMAIN plan \subseteq Volumes

\* At first there is no plan.
LEMMA PlanInit == RInit => PlanInv
  BY DEF RInit, PlanInv

\* Only MakePlan sets the plan, for the selected volumes.
LEMMA PlanStep == PlanInv /\ [RNext]_vars => PlanInv'
<1> SUFFICES ASSUME PlanInv, [RNext]_vars PROVE PlanInv'
  OBVIOUS
<1>1. CASE MakePlan
  BY <1>1 DEF MakePlan, PlanInv, Settings, P!BuildPlan
<1>2. CASE Run /\ ~MakePlan
  <2>1. UNCHANGED <<selected, plan>>
    BY <1>2 DEF Run, Preflight, Stopping, Applying, Deferred, Settings, planVars,
       OpenFails,
       Verify, VerifyFails, VerifiedOnly, List, PreflightFails, Inspect, CheckEmpty, Refuse,
       CallStop, StopGoesOn, StopFails, StopErrs, StopSucceeds, BeginVolume, CreateVolume,
       StartClear, Cleared, StartUnpack, Unpacked, Listed, VolumeFails, AllRestored,
       CallRestart, RestartGoesOn, RestartDone, Exit
  <2>2. QED
    BY <2>1 DEF PlanInv
<1>3. CASE Docker \/ Environment
  <2>1. UNCHANGED <<selected, plan>>
    BY <1>3 DEF Docker, Environment, Settings, planVars, rvars, StopAnswerLost,
       StopErrs,
       Signal, KillRun, OtherContainerStep, ContainerWrites, OtherVolumeStep, OtherCreates,
       OtherRemoves
  <2>2. QED
    BY <2>1 DEF PlanInv
<1>4. CASE UNCHANGED vars
  BY <1>4 DEF vars, rvars, planVars, PlanInv
<1>5. QED
  BY <1>1, <1>2, <1>3, <1>4 DEF RNext

-----------------------------------------------------------------------------
\* Every step of a restore is a step of the stopper, or none.
LEMMA StopperStep == PlanInv /\ [RNext]_vars => [S!Next]_(S!vars)
<1> SUFFICES ASSUME PlanInv, [RNext]_vars PROVE [S!Next]_(S!vars)
  OBVIOUS
<1>1. ASSUME OpenFails PROVE S!Next \/ UNCHANGED svars
  BY <1>1 DEF OpenFails, S!Next, S!RunStep
<1>2. ASSUME Verify PROVE S!Next \/ UNCHANGED svars
  BY <1>2 DEF Verify
<1>3. ASSUME VerifyFails PROVE S!Next \/ UNCHANGED svars
  BY <1>3 DEF VerifyFails, S!Next, S!RunStep
<1>4. ASSUME VerifiedOnly PROVE S!Next \/ UNCHANGED svars
  BY <1>4 DEF VerifiedOnly, S!Next, S!RunStep
<1>5. ASSUME List PROVE S!Next \/ UNCHANGED svars
  BY <1>5 DEF List, S!Next, S!RunStep
<1>6. ASSUME PreflightFails PROVE S!Next \/ UNCHANGED svars
  BY <1>6 DEF PreflightFails, S!Next, S!RunStep
<1>7. ASSUME NEW v \in Volumes, Inspect(v) PROVE S!Next \/ UNCHANGED svars
  BY <1>7 DEF Inspect
<1>8. ASSUME CheckEmpty PROVE S!Next \/ UNCHANGED svars
  BY <1>8 DEF CheckEmpty
<1>9. ASSUME MakePlan PROVE S!Next \/ UNCHANGED svars
  BY <1>9 DEF MakePlan
<1>10. ASSUME Refuse PROVE S!Next \/ UNCHANGED svars
  BY <1>10 DEF Refuse, S!Next, S!RunStep
<1>11. ASSUME CallStop PROVE S!Next \/ UNCHANGED svars
  BY <1>11 DEF CallStop, Overwritten, S!Next, S!RunStep, PlanInv
<1>12. ASSUME StopGoesOn PROVE S!Next \/ UNCHANGED svars
  BY <1>12 DEF StopGoesOn, S!Next, S!RunStep
<1>13. ASSUME StopFails PROVE S!Next \/ UNCHANGED svars
  BY <1>13 DEF StopFails, S!Next, S!RunStep
<1>14. ASSUME StopSucceeds PROVE S!Next \/ UNCHANGED svars
  BY <1>14 DEF StopSucceeds, S!Next, S!RunStep
<1>15. ASSUME NEW v \in Volumes, BeginVolume(v) PROVE S!Next \/ UNCHANGED svars
  BY <1>15 DEF BeginVolume
<1>16. ASSUME CreateVolume PROVE S!Next \/ UNCHANGED svars
  BY <1>16 DEF CreateVolume
<1>17. ASSUME StartClear PROVE S!Next \/ UNCHANGED svars
  BY <1>17 DEF StartClear
<1>18. ASSUME Cleared PROVE S!Next \/ UNCHANGED svars
  BY <1>18 DEF Cleared
<1>19. ASSUME StartUnpack PROVE S!Next \/ UNCHANGED svars
  BY <1>19 DEF StartUnpack
<1>20. ASSUME Unpacked PROVE S!Next \/ UNCHANGED svars
  BY <1>20 DEF Unpacked, Listed
<1>21. ASSUME VolumeFails PROVE S!Next \/ UNCHANGED svars
  BY <1>21 DEF VolumeFails
<1>22. ASSUME AllRestored PROVE S!Next \/ UNCHANGED svars
  BY <1>22 DEF AllRestored
<1>23. ASSUME CallRestart PROVE S!Next \/ UNCHANGED svars
  BY <1>23 DEF CallRestart, S!Next, S!RunStep
<1>24. ASSUME RestartGoesOn PROVE S!Next \/ UNCHANGED svars
  BY <1>24 DEF RestartGoesOn, S!Next, S!RunStep
<1>25. ASSUME RestartDone PROVE S!Next \/ UNCHANGED svars
  BY <1>25 DEF RestartDone, S!Next, S!RunStep
<1>26. ASSUME Exit PROVE S!Next \/ UNCHANGED svars
  BY <1>26 DEF Exit
<1>27. ASSUME Docker PROVE S!Next \/ UNCHANGED svars
  BY <1>27 DEF Docker, S!Next
<1>28. ASSUME StopAnswerLost PROVE S!Next \/ UNCHANGED svars
  BY <1>28 DEF StopAnswerLost, S!Next
<1>29. ASSUME Signal PROVE S!Next \/ UNCHANGED svars
  BY <1>29 DEF Signal, S!Next
<1>30. ASSUME KillRun PROVE S!Next \/ UNCHANGED svars
  BY <1>30 DEF KillRun, S!Next
<1>31. ASSUME OtherContainerStep PROVE S!Next \/ UNCHANGED svars
  BY <1>31 DEF OtherContainerStep, S!Next
<1>32. ASSUME NEW c \in Containers, ContainerWrites(c) PROVE S!Next \/ UNCHANGED svars
  BY <1>32 DEF ContainerWrites
<1>33. ASSUME NEW v \in Volumes, OtherCreates(v) PROVE S!Next \/ UNCHANGED svars
  BY <1>33 DEF OtherCreates, OtherVolumeStep
<1>34. ASSUME NEW v \in Volumes, OtherRemoves(v) PROVE S!Next \/ UNCHANGED svars
  BY <1>34 DEF OtherRemoves, OtherVolumeStep
<1>35. ASSUME UNCHANGED vars PROVE UNCHANGED svars
  BY <1>35 DEF vars
<1>36. QED
  BY <1>1, <1>2, <1>3, <1>4, <1>5, <1>6, <1>7, <1>8, <1>9, <1>10,
     <1>11, <1>12, <1>13, <1>14, <1>15, <1>16, <1>17, <1>18, <1>19, <1>20,
     <1>21, <1>22, <1>23, <1>24, <1>25, <1>26, <1>27, <1>28, <1>29, <1>30,
     <1>31, <1>32, <1>33, <1>34, <1>35
     DEF RNext, Run, Preflight, Stopping, Applying, Deferred, Environment, svars,
         S!vars, S!daemonVars, S!runVars, S!otherVars, S!historyVars

\* A restore stops and restarts containers by the stopper's protocol.
LEMMA RestoreIsStopper == RSpec => S!Spec
<1>1. RInit => S!Init
  BY DEF RInit
<1>2. QED
  BY <1>1, PlanInit, PlanStep, StopperStep, PTL DEF RSpec, S!Spec

-----------------------------------------------------------------------------
(* What the stopper is known to keep, of any restore.                      *)

SP == INSTANCE StopperProofs

\* Until Restart, an untouched container is down if it was taken down and as it
\* was listed if not.
AsListed ==
    phase \in {"listed", "stop", "inspected", "sent", "held", "failed"} =>
        \A c \in Containers \ touched :
            IF c \in broughtDown THEN ~S!InUse(cstate[c]) ELSE cstate[c] = snap[c]

Stops == S!TypeOK /\ S!VolumesHeld /\ S!RestartedOrReported /\ AsListed

\* The stopper's theorems hold of a restore.
LEMMA StopsAlways == RSpec => []Stops
<1>1. S!Init => SP!Init
  BY DEF S!Init, SP!Init
<1>2. [S!Next]_(S!vars) => [SP!Next]_(SP!vars)
  BY DEF S!Next, S!vars, S!RunStep, S!DaemonStep, S!OtherStep, S!daemonVars, S!runVars,
     S!otherVars, S!historyVars, S!ListContainers, S!Leave, S!SkipStop, S!BeginStop,
     S!ReadStartedAt, S!StartOk, S!StartFails, S!StartedAtFails, S!SendStop, S!StopOk,
     S!StopRefused, S!StopReturns, S!BeginRestart, S!RestartReturns, S!StopLost,
     S!Cancel, S!Kill, S!DaemonStops, S!OtherStarts, S!OtherStops, S!OtherRemoves,
     S!OtherActs, S!StopFailed, S!Bring, S!NextToStart, S!UsersOf, S!InUse, S!IsHelper,
     S!UsesVolume, SP!Next, SP!vars, SP!RunStep, SP!DaemonStep, SP!OtherStep,
     SP!daemonVars, SP!runVars, SP!otherVars, SP!historyVars, SP!ListContainers,
     SP!Leave, SP!SkipStop, SP!BeginStop, SP!ReadStartedAt, SP!StartOk, SP!StartFails,
     SP!StartedAtFails, SP!SendStop, SP!StopOk, SP!StopRefused, SP!StopReturns,
     SP!BeginRestart, SP!RestartReturns, SP!StopLost, SP!Cancel, SP!Kill,
     SP!DaemonStops, SP!OtherStarts, SP!OtherStops, SP!OtherRemoves, SP!OtherActs,
     SP!StopFailed, SP!Bring, SP!NextToStart, SP!UsersOf, SP!InUse, SP!IsHelper,
     SP!UsesVolume
<1>3. S!Spec => SP!Spec
  BY <1>1, <1>2, PTL DEF S!Spec, SP!Spec
<1>4. SP!ConstantsAssumption
  BY RestoreAssumption DEF S!ConstantsAssumption, SP!ConstantsAssumption, S!States,
     SP!States
<1>5. SP!Spec => []SP!IInv /\ []SP!VolumesHeld
  BY <1>4, SP!Inductive, SP!VolumesAtRest
<1>6. SP!IInv => S!TypeOK
  BY DEF SP!IInv, SP!TypeOK, S!TypeOK, SP!States, S!States, S!Phases, SP!Phases
<1>7. SP!IInv => S!RestartedOrReported
  BY DEF SP!IInv, SP!AccountInv, S!RestartedOrReported, S!AllBackOrNamed, S!InUse,
     SP!InUse, SP!Before
<1>8. SP!IInv => AsListed
  BY DEF SP!IInv, SP!DownInv, AsListed, SP!Before, S!InUse, SP!InUse
<1>9. SP!VolumesHeld => S!VolumesHeld
  BY DEF S!VolumesHeld, SP!VolumesHeld, S!InUse, SP!InUse, S!UsesVolume, SP!UsesVolume
<1>10. QED
  BY <1>3, <1>5, <1>6, <1>7, <1>8, <1>9, RestoreIsStopper, PTL
     DEF Stops

-----------------------------------------------------------------------------
(* The inductive invariant of a restore.                                   *)

\* The stages of Run before Stop, and those in which a step works on a volume.
Early == {"open", "verified", "observing", "planned"}
Working == {"create", "clear", "clearing", "unpack", "unpacking"}

\* What observe finds of a volume.
Observations == [exists : BOOLEAN, empty : BOOLEAN, users : SUBSET Containers]

\* The variables of Run and of the volumes.
RunTypes ==
    /\ exists \subseteq Volumes
    /\ filled \in [Volumes -> {"none", "part", "all"}]
    /\ rpc \in RPhases /\ force \in BOOLEAN
    /\ selected \subseteq Volumes /\ selected # {} /\ corrupt \subseteq selected
    /\ toSee \subseteq selected /\ left \subseteq selected
    /\ vol \in selected \cup {None}
    /\ seen \in [Volumes -> Observations]
    /\ restored \cup failedVols \cup untouched \subseteq selected
    /\ rerr \in BOOLEAN /\ code \in {None, 0, 1, 3}
    /\ vbudget \in 0..VolumeSteps
    /\ vtouched \cup changed \cup mixed \subseteq Volumes

\* Where the stopper is when Run is at rpc, and when there is an error.
StopperAt ==
    /\ rpc \in {"open", "verified"} => phase = "start"
    /\ rpc \in {"observing", "planned"} => phase = "listed"
    /\ rpc = "stopping" => phase \in {"stop", "inspected", "sent"}
    /\ rpc \in Working \cup {"restoring"} => phase = "held"
    /\ rpc = "deferred" => phase \in {"held", "failed"}
    /\ rpc = "restarting" => phase = "restart"
    /\ rpc \in {"exiting", "done"} => phase = "done"
    /\ rpc \in Working \cup {"stopping", "restoring"} => wanted = Overwritten
    /\ failed # {} => rerr
    /\ rerr => rpc \in {"deferred", "restarting", "exiting", "done", "killed"}

\* Data is in volumes that exist, as are those a container mounts.
HostInv ==
    /\ foreign \subseteq exists
    /\ \A c \in Containers : cstate[c] = "gone" \/ Mounts[c] \subseteq exists

\* Another actor put v there, or there is a container of v that another actor
\* acted on or that is a helper: data of v may be anybody's.
Excused(v) == v \in vtouched \/ \E c \in touched \cup Helpers : S!UsesVolume(c, v)

\* No container listed in use mounts v.
Unused(v) == \A c \in Containers \ Helpers : S!UsesVolume(c, v) => ~S!InUse(snap[c])

\* No container mounts v.
Unmounted(v) == \A c \in Containers : S!UsesVolume(c, v) => cstate[c] = "gone"

\* What observe found of a volume still tells something about it, until Restart.
SeenInv ==
    /\ rpc = "observing" /\ vol # None =>
           vol \notin toSee /\ vol \in exists \cup vtouched /\ ~seen[vol].empty
    /\ rpc \in {"observing", "planned"} => \A v \in selected \ toSee :
        /\ seen[v].users = UsersListed(v)
        /\ ~seen[v].exists => Unmounted(v) /\ (v \in foreign => v \in vtouched)
        /\ seen[v].empty /\ Unused(v) /\ v \in foreign => Excused(v)
    /\ rpc \in {"open", "verified"} => toSee = selected

\* What the plan was made from still holds while it is carried out.
PlanHolds ==
    /\ DOMAIN plan = IF rpc \in {"open", "verified", "observing"} THEN {}
                     ELSE IF rpc \in {"exiting", "done", "killed"} THEN DOMAIN plan
                     ELSE selected
    /\ DOMAIN plan \in {{}, selected}
    /\ \A v \in DOMAIN plan : plan[v].action \in P!Actions
    /\ rpc \in Working \cup {"planned", "stopping", "restoring"} => \A v \in DOMAIN plan :
        /\ plan[v].action = "create" => Unmounted(v) /\ (v \in foreign => v \in vtouched)
        /\ plan[v].action = "unpack" => Unused(v) /\ (v \in foreign => Excused(v))
    /\ rpc \notin Early \cup {"exiting", "done", "killed"} => ~P!Blocked(plan)

\* The plan names the containers that Stop will stop.
StopListed == rpc = "planned" => P!ToStop(plan) = S!UsersOf(Overwritten, snap)

\* Which volume a step works on.
VolumeAt ==
    /\ rpc \in {"open", "verified", "planned", "stopping", "restoring"} => vol = None
    /\ rpc \in Working => vol \in selected /\ vol \notin left \cup restored
    /\ rpc = "create" => plan[vol].action = "create"
    /\ rpc \in {"clear", "clearing"} => plan[vol].action = "overwrite"
    /\ rpc \in {"unpack", "unpacking"} /\ vol \in foreign => Excused(vol)

\* Nothing was stopped, nor was a stop requested.
Quiet == inflight = {} /\ broughtDown = {}

\* What a run that has stopped nothing yet may have changed.
QuietInv ==
    /\ rpc \in Early => Quiet /\ changed \subseteq vtouched /\ restartErrs = {}
    /\ rpc \in {"open", "verified"} => changed = {}
    /\ corrupt # {} =>
           rpc \in {"open", "exiting", "done", "killed"} /\ Quiet /\ changed = {}
    /\ P!Blocked(plan) =>
           rpc \in {"planned", "exiting", "done", "killed"} /\ Quiet /\ changed \subseteq vtouched

\* The lists of the result.
ResultInv ==
    /\ rpc \in Early \cup {"stopping"} => left = selected /\ restored = {}
    /\ rpc = "restoring" => restored \cup left = selected
    /\ rpc \in Working => restored \cup left \cup {vol} = selected
    /\ restored \cap left = {}
    /\ ~rerr => failedVols = {} /\ untouched = {}
    /\ \A v \in restored : Complete(v)
    /\ rpc \in Working \cup {"stopping", "restoring"} => left \cap changed \subseteq vtouched
    /\ rpc \in {"deferred", "restarting"} /\ ~rerr => restored = selected
    /\ rpc \in {"exiting", "done"} /\ ~rerr =>
           IF DOMAIN plan = {} THEN changed = {} /\ Quiet /\ restartErrs = {}
           ELSE restored = selected
    /\ rerr => restored # selected

\* What the exit code was computed from.
ExitInv ==
    /\ code # None => rpc = "done"
    /\ code = 0 => ~rerr /\ restartErrs = {}
    /\ code = 1 => rerr
    /\ code = 3 => ~rerr /\ restartErrs # {}

RInv ==
    /\ RunTypes /\ StopperAt /\ HostInv /\ SeenInv /\ PlanHolds /\ StopListed
    /\ VolumeAt /\ QuietInv /\ ResultInv /\ ExitInv
    /\ HeldWhileRestored /\ MixedOnlyByOthers /\ OutcomeIsTrue

\* A new run satisfies the invariant.
LEMMA RInvInit == RInit => RInv
<1> SUFFICES ASSUME RInit PROVE RInv
  OBVIOUS
<1> USE RestoreAssumption DEF RInit, S!Init
<1>1. RunTypes
  <2>1. seen \in [Volumes -> Observations]
    BY DEF Unseen, Observations
  <2>2. /\ rpc \in RPhases /\ force \in BOOLEAN /\ rerr \in BOOLEAN
        /\ filled \in [Volumes -> {"none", "part", "all"}]
    BY DEF RPhases
  <2>3. /\ exists \subseteq Volumes /\ selected \subseteq Volumes /\ selected # {}
        /\ corrupt \subseteq selected /\ toSee \subseteq selected /\ left \subseteq selected
    OBVIOUS
  <2>4. /\ vol \in selected \cup {None} /\ code \in {None, 0, 1, 3}
        /\ restored \cup failedVols \cup untouched \subseteq selected
        /\ vtouched \cup changed \cup mixed \subseteq Volumes
    OBVIOUS
  <2>5. vbudget \in 0..VolumeSteps
    OBVIOUS
  <2>6. QED
    BY <2>1, <2>2, <2>3, <2>4, <2>5 DEF RunTypes
<1>2. StopperAt /\ HostInv /\ SeenInv
  BY DEF StopperAt, HostInv, SeenInv, Working
<1>3. PlanHolds /\ StopListed /\ VolumeAt
  BY DEF PlanHolds, StopListed, VolumeAt, Early, Working, P!Blocked
<1>4. QuietInv /\ ResultInv /\ ExitInv
  BY DEF QuietInv, Quiet, ResultInv, ExitInv, Early, Working, Complete, P!Blocked
<1>5. HeldWhileRestored /\ MixedOnlyByOthers /\ OutcomeIsTrue
  BY DEF HeldWhileRestored, MixedOnlyByOthers, OutcomeIsTrue
<1>6. QED
  BY <1>1, <1>2, <1>3, <1>4, <1>5 DEF RInv

\* An observation that is completed is an observation.
LEMMA EmptyNoted ==
  ASSUME NEW r \in Observations, NEW b \in BOOLEAN
  PROVE  [r EXCEPT !.empty = b] \in Observations
  BY DEF Observations

\* The types of Run's variables and of what it observes.
LEMMA RunTypesStep ==
  ASSUME RunTypes, VolumeAt, Stops, [RNext]_vars
  PROVE  RunTypes'
<1> USE RestoreAssumption DEF RunTypes, VolumeAt, Working, Stops, S!TypeOK, RPhases,
        Observations, UsersListed, At, GoesOn, Errs, Settings, planVars, resultVars,
        hostVars, historyVars
<1>1. CASE OpenFails
  BY <1>1 DEF OpenFails
<1>2. CASE Verify
  BY <1>2 DEF Verify
<1>3. CASE VerifyFails
  BY <1>3 DEF VerifyFails
<1>4. CASE VerifiedOnly
  BY <1>4 DEF VerifiedOnly
<1>5. CASE List
  BY <1>5 DEF List
<1>6. CASE PreflightFails
  BY <1>6 DEF PreflightFails, Provide
<1>7. ASSUME NEW v \in Volumes, Inspect(v) PROVE RunTypes'
  BY <1>7 DEF Inspect
<1>8. CASE CheckEmpty
  <2> DEFINE r == [seen[vol] EXCEPT !.empty = vol \notin foreign]
  <2>1. vol \in Volumes
    BY <1>8 DEF CheckEmpty
  <2>2. seen' = [seen EXCEPT ![vol] = r]
    BY <1>8 DEF CheckEmpty
  <2>3. r \in Observations
    <3>1. seen[vol] \in Observations
      BY <2>1
    <3>2. (vol \notin foreign) \in BOOLEAN
      OBVIOUS
    <3>3. QED
      BY <3>1, <3>2, EmptyNoted
  <2> HIDE DEF r
  <2>4. QED
    BY <1>8, <2>1, <2>2, <2>3 DEF CheckEmpty, Provide
<1>9. CASE MakePlan
  BY <1>9 DEF MakePlan
<1>10. CASE Refuse
  BY <1>10 DEF Refuse
<1>11. CASE CallStop
  BY <1>11 DEF CallStop
<1>12. CASE StopGoesOn
  BY <1>12 DEF StopGoesOn
<1>13. CASE StopFails
  BY <1>13 DEF StopFails, StopErrs
<1>14. CASE StopSucceeds
  BY <1>14 DEF StopSucceeds
<1>15. ASSUME NEW v \in Volumes, BeginVolume(v) PROVE RunTypes'
  BY <1>15 DEF BeginVolume, FirstStage
<1>16. CASE CreateVolume
  BY <1>16 DEF CreateVolume, Provide
<1>17. CASE StartClear
  BY <1>17 DEF StartClear
<1>18. CASE Cleared
  BY <1>18 DEF Cleared
<1>19. CASE StartUnpack
  BY <1>19 DEF StartUnpack
<1>20. CASE Unpacked
  BY <1>20 DEF Unpacked, Listed
<1>21. CASE VolumeFails
  BY <1>21 DEF VolumeFails, Provide
<1>22. CASE AllRestored
  BY <1>22 DEF AllRestored
<1>23. CASE CallRestart
  BY <1>23 DEF CallRestart
<1>24. CASE RestartGoesOn
  BY <1>24 DEF RestartGoesOn
<1>25. CASE RestartDone
  BY <1>25 DEF RestartDone
<1>26. CASE Exit
  BY <1>26 DEF Exit
<1>27. CASE Docker
  BY <1>27 DEF Docker, rvars
<1>28. CASE StopAnswerLost
  BY <1>28 DEF StopAnswerLost, StopErrs
<1>29. CASE Signal
  BY <1>29 DEF Signal, rvars
<1>30. CASE KillRun
  BY <1>30 DEF KillRun
<1>31. CASE OtherContainerStep
  BY <1>31 DEF OtherContainerStep, rvars
<1>32. ASSUME NEW c \in Containers, ContainerWrites(c) PROVE RunTypes'
  BY <1>32 DEF ContainerWrites, rvars
<1>33. ASSUME NEW v \in Volumes, OtherCreates(v) PROVE RunTypes'
  BY <1>33 DEF OtherCreates, OtherVolumeStep, rvars
<1>34. ASSUME NEW v \in Volumes, OtherRemoves(v) PROVE RunTypes'
  BY <1>34 DEF OtherRemoves, OtherVolumeStep, rvars
<1>35. CASE UNCHANGED vars
  BY <1>35 DEF vars, rvars
<1>36. QED
  BY <1>1, <1>2, <1>3, <1>4, <1>5, <1>6, <1>7, <1>8, <1>9, <1>10, <1>11, <1>12, <1>13,
     <1>14, <1>15, <1>16, <1>17, <1>18, <1>19, <1>20, <1>21, <1>22, <1>23, <1>24, <1>25,
     <1>26, <1>27, <1>28, <1>29, <1>30, <1>31, <1>32, <1>33, <1>34, <1>35
     DEF RNext, Run, Preflight, Stopping, Applying, Deferred, Environment

\* Run and the stopper move together, and an error leads to the deferred calls.
LEMMA StopperAtStep ==
  ASSUME RunTypes, StopperAt, Stops, [RNext]_vars
  PROVE  StopperAt'
<1> USE DEF RunTypes, StopperAt, Overwritten, Working, At, GoesOn, Errs, Settings,
        planVars, resultVars, hostVars, historyVars, svars, S!daemonVars, S!runVars,
        S!otherVars, S!historyVars
<1>1. CASE OpenFails
  BY <1>1 DEF OpenFails, S!Leave
<1>2. CASE Verify
  BY <1>2 DEF Verify
<1>3. CASE VerifyFails
  BY <1>3 DEF VerifyFails, S!Leave
<1>4. CASE VerifiedOnly
  BY <1>4 DEF VerifiedOnly, S!Leave
<1>5. CASE List
  BY <1>5 DEF List, S!ListContainers
<1>6. CASE PreflightFails
  BY <1>6 DEF PreflightFails, S!Leave
<1>7. ASSUME NEW v \in Volumes, Inspect(v) PROVE StopperAt'
  BY <1>7 DEF Inspect
<1>8. CASE CheckEmpty
  BY <1>8 DEF CheckEmpty, Provide
<1>9. CASE MakePlan
  BY <1>9 DEF MakePlan
<1>10. CASE Refuse
  BY <1>10 DEF Refuse, S!Leave
<1>11. CASE CallStop
  BY <1>11 DEF CallStop, S!BeginStop
<1>12. CASE StopGoesOn
  BY <1>12 DEF StopGoesOn, S!SendStop, S!StopOk, S!ReadStartedAt
<1>13. CASE StopFails
  BY <1>13 DEF StopFails, StopErrs, S!StartedAtFails, S!StopRefused, S!StopFailed
<1>14. CASE StopSucceeds
  BY <1>14 DEF StopSucceeds, S!StopReturns
<1>15. ASSUME NEW v \in Volumes, BeginVolume(v) PROVE StopperAt'
  BY <1>15 DEF BeginVolume, FirstStage
<1>16. CASE CreateVolume
  BY <1>16 DEF CreateVolume, Provide
<1>17. CASE StartClear
  BY <1>17 DEF StartClear
<1>18. CASE Cleared
  BY <1>18 DEF Cleared
<1>19. CASE StartUnpack
  BY <1>19 DEF StartUnpack
<1>20. CASE Unpacked
  BY <1>20 DEF Unpacked, Listed
<1>21. CASE VolumeFails
  BY <1>21 DEF VolumeFails, Provide
<1>22. CASE AllRestored
  BY <1>22 DEF AllRestored
<1>23. CASE CallRestart
  BY <1>23 DEF CallRestart, S!BeginRestart
<1>24. CASE RestartGoesOn
  BY <1>24 DEF RestartGoesOn, S!StartOk, S!StartFails, S!NextToStart, S!Bring
<1>25. CASE RestartDone
  BY <1>25 DEF RestartDone, S!RestartReturns
<1>26. CASE Exit
  BY <1>26 DEF Exit
<1>27. CASE Docker
  BY <1>27 DEF Docker, rvars, S!DaemonStep, S!DaemonStops
<1>28. CASE StopAnswerLost
  BY <1>28 DEF StopAnswerLost, StopErrs, S!StopLost, S!StopFailed
<1>29. CASE Signal
  BY <1>29 DEF Signal, rvars, S!Cancel
<1>30. CASE KillRun
  BY <1>30 DEF KillRun, S!Kill
<1>31. CASE OtherContainerStep
  BY <1>31 DEF OtherContainerStep, rvars, S!OtherStep, S!OtherStarts, S!OtherStops,
     S!OtherRemoves, S!OtherActs
<1>32. ASSUME NEW c \in Containers, ContainerWrites(c) PROVE StopperAt'
  BY <1>32 DEF ContainerWrites, rvars
<1>33. ASSUME NEW v \in Volumes, OtherCreates(v) PROVE StopperAt'
  BY <1>33 DEF OtherCreates, OtherVolumeStep, rvars
<1>34. ASSUME NEW v \in Volumes, OtherRemoves(v) PROVE StopperAt'
  BY <1>34 DEF OtherRemoves, OtherVolumeStep, rvars
<1>35. CASE UNCHANGED vars
  BY <1>35 DEF vars, rvars
<1>36. QED
  BY <1>1, <1>2, <1>3, <1>4, <1>5, <1>6, <1>7, <1>8, <1>9, <1>10, <1>11, <1>12, <1>13,
     <1>14, <1>15, <1>16, <1>17, <1>18, <1>19, <1>20, <1>21, <1>22, <1>23, <1>24, <1>25,
     <1>26, <1>27, <1>28, <1>29, <1>30, <1>31, <1>32, <1>33, <1>34, <1>35
     DEF RNext, Run, Preflight, Stopping, Applying, Deferred, Environment

\* A container that is gone stays gone, and a volume that a container mounts is not
\* removed: a write goes to a volume that exists.
LEMMA HostStep ==
  ASSUME RunTypes, HostInv, VolumeAt, Stops, [RNext]_vars
  PROVE  HostInv'
<1> USE RestoreAssumption DEF RunTypes, HostInv, VolumeAt, Working, Stops, S!TypeOK,
        S!States, S!InUse, S!UsesVolume, At, GoesOn, Errs, Settings, planVars,
        resultVars, hostVars, historyVars, svars, S!daemonVars, S!runVars, S!otherVars,
        S!historyVars
<1>1. CASE OpenFails
  BY <1>1 DEF OpenFails, S!Leave
<1>2. CASE Verify
  BY <1>2 DEF Verify
<1>3. CASE VerifyFails
  BY <1>3 DEF VerifyFails, S!Leave
<1>4. CASE VerifiedOnly
  BY <1>4 DEF VerifiedOnly, S!Leave
<1>5. CASE List
  BY <1>5 DEF List, S!ListContainers
<1>6. CASE PreflightFails
  BY <1>6 DEF PreflightFails, Provide, S!Leave
<1>7. ASSUME NEW v \in Volumes, Inspect(v) PROVE HostInv'
  BY <1>7 DEF Inspect
<1>8. CASE CheckEmpty
  BY <1>8 DEF CheckEmpty, Provide
<1>9. CASE MakePlan
  BY <1>9 DEF MakePlan
<1>10. CASE Refuse
  BY <1>10 DEF Refuse, S!Leave
<1>11. CASE CallStop
  BY <1>11 DEF CallStop, S!BeginStop
<1>12. CASE StopGoesOn
  BY <1>12 DEF StopGoesOn, S!SendStop, S!StopOk, S!ReadStartedAt
<1>13. CASE StopFails
  BY <1>13 DEF StopFails, StopErrs, S!StartedAtFails, S!StopRefused, S!StopFailed
<1>14. CASE StopSucceeds
  BY <1>14 DEF StopSucceeds, S!StopReturns
<1>15. ASSUME NEW v \in Volumes, BeginVolume(v) PROVE HostInv'
  BY <1>15 DEF BeginVolume, FirstStage
<1>16. CASE CreateVolume
  BY <1>16 DEF CreateVolume, Provide
<1>17. CASE StartClear
  BY <1>17 DEF StartClear
<1>18. CASE Cleared
  BY <1>18 DEF Cleared
<1>19. CASE StartUnpack
  BY <1>19 DEF StartUnpack
<1>20. CASE Unpacked
  BY <1>20 DEF Unpacked, Listed
<1>21. CASE VolumeFails
  BY <1>21 DEF VolumeFails, Provide
<1>22. CASE AllRestored
  BY <1>22 DEF AllRestored
<1>23. CASE CallRestart
  BY <1>23 DEF CallRestart, S!BeginRestart
<1>24. CASE RestartGoesOn
  BY <1>24 DEF RestartGoesOn, S!StartOk, S!StartFails, S!NextToStart, S!Bring
<1>25. CASE RestartDone
  BY <1>25 DEF RestartDone, S!RestartReturns
<1>26. CASE Exit
  BY <1>26 DEF Exit
<1>27. CASE Docker
  BY <1>27 DEF Docker, rvars, S!DaemonStep, S!DaemonStops
<1>28. CASE StopAnswerLost
  BY <1>28 DEF StopAnswerLost, StopErrs, S!StopLost, S!StopFailed
<1>29. CASE Signal
  BY <1>29 DEF Signal, rvars, S!Cancel
<1>30. CASE KillRun
  BY <1>30 DEF KillRun, S!Kill
<1>31. CASE OtherContainerStep
  BY <1>31 DEF OtherContainerStep, rvars, S!OtherStep, S!OtherStarts, S!OtherStops,
     S!OtherRemoves, S!OtherActs
<1>32. ASSUME NEW c \in Containers, ContainerWrites(c) PROVE HostInv'
  BY <1>32 DEF ContainerWrites, rvars
<1>33. ASSUME NEW v \in Volumes, OtherCreates(v) PROVE HostInv'
  BY <1>33 DEF OtherCreates, OtherVolumeStep, rvars
<1>34. ASSUME NEW v \in Volumes, OtherRemoves(v) PROVE HostInv'
  BY <1>34 DEF OtherRemoves, OtherVolumeStep, rvars
<1>35. CASE UNCHANGED vars
  BY <1>35 DEF vars, rvars
<1>36. QED
  BY <1>1, <1>2, <1>3, <1>4, <1>5, <1>6, <1>7, <1>8, <1>9, <1>10, <1>11, <1>12, <1>13,
     <1>14, <1>15, <1>16, <1>17, <1>18, <1>19, <1>20, <1>21, <1>22, <1>23, <1>24, <1>25,
     <1>26, <1>27, <1>28, <1>29, <1>30, <1>31, <1>32, <1>33, <1>34, <1>35
     DEF RNext, Run, Preflight, Stopping, Applying, Deferred, Environment

\* What was found of a volume goes stale only by what other actors or helpers do:
\* nobody else can write to a volume that no container in use mounts.
LEMMA SeenStep ==
  ASSUME RunTypes, StopperAt, HostInv, SeenInv, VolumeAt, Stops, [RNext]_vars
  PROVE  SeenInv'
<1> USE RestoreAssumption DEF RunTypes, StopperAt, HostInv, SeenInv, VolumeAt, Stops,
        AsListed, S!TypeOK, S!States, S!InUse, S!UsesVolume, Excused, Unused, Unmounted,
        UsersListed, At, GoesOn, Errs, Settings, planVars, resultVars, hostVars,
        historyVars, svars, S!daemonVars, S!runVars, S!otherVars, S!historyVars
<1>1. CASE OpenFails
  BY <1>1 DEF OpenFails, S!Leave
<1>2. CASE Verify
  BY <1>2 DEF Verify
<1>3. CASE VerifyFails
  BY <1>3 DEF VerifyFails, S!Leave
<1>4. CASE VerifiedOnly
  BY <1>4 DEF VerifiedOnly, S!Leave
<1>5. CASE List
  BY <1>5 DEF List, S!ListContainers
<1>6. CASE PreflightFails
  BY <1>6 DEF PreflightFails, S!Leave
<1>7. ASSUME NEW v \in Volumes, Inspect(v) PROVE SeenInv'
  <2> DEFINE r == [exists |-> v \in exists, empty |-> FALSE, users |-> UsersListed(v)]
  <2>1. /\ vol' \in {v, None} /\ toSee' = toSee \ {v} /\ rpc' = "observing" /\ v \in selected
        /\ vol' # None => v \in exists
    BY <1>7 DEF Inspect
  <2>2. seen'[v] = r /\ \A u \in Volumes \ {v} : seen'[u] = seen[u]
    BY <1>7 DEF Inspect
  <2>3. /\ seen'[v].users = UsersListed(v) /\ seen'[v].empty = FALSE
        /\ seen'[v].exists = (v \in exists)
    BY <2>2
  <2>4. UsersListed(v)' = UsersListed(v)
    BY <1>7 DEF Inspect
  <2>5. v \notin exists => Unmounted(v)' /\ v \notin foreign'
    BY <1>7 DEF Inspect
  <2>6. ASSUME NEW u \in selected \ toSee, u # v
        PROVE  /\ seen'[u].users = UsersListed(u)'
               /\ ~seen'[u].exists => Unmounted(u)' /\ (u \in foreign' => u \in vtouched')
               /\ seen'[u].empty /\ Unused(u)' /\ u \in foreign' => Excused(u)'
    BY <1>7, <2>2, <2>6 DEF Inspect
  <2>7. /\ seen'[v].users = UsersListed(v)' /\ ~seen'[v].empty
        /\ seen'[v].exists <=> v \in exists
    BY <2>3, <2>4
  <2>8. QED
    BY <1>7, <2>1, <2>5, <2>6, <2>7 DEF Inspect
<1>8. CASE CheckEmpty
  BY <1>8 DEF CheckEmpty, Provide
<1>9. CASE MakePlan
  BY <1>9 DEF MakePlan
<1>10. CASE Refuse
  BY <1>10 DEF Refuse, S!Leave
<1>11. CASE CallStop
  BY <1>11 DEF CallStop, S!BeginStop
<1>12. CASE StopGoesOn
  BY <1>12 DEF StopGoesOn, S!SendStop, S!StopOk, S!ReadStartedAt
<1>13. CASE StopFails
  BY <1>13 DEF StopFails, StopErrs, S!StartedAtFails, S!StopRefused, S!StopFailed
<1>14. CASE StopSucceeds
  BY <1>14 DEF StopSucceeds, S!StopReturns
<1>15. ASSUME NEW v \in Volumes, BeginVolume(v) PROVE SeenInv'
  BY <1>15 DEF BeginVolume, FirstStage
<1>16. CASE CreateVolume
  BY <1>16 DEF CreateVolume, Provide
<1>17. CASE StartClear
  BY <1>17 DEF StartClear
<1>18. CASE Cleared
  BY <1>18 DEF Cleared
<1>19. CASE StartUnpack
  BY <1>19 DEF StartUnpack
<1>20. CASE Unpacked
  BY <1>20 DEF Unpacked, Listed
<1>21. CASE VolumeFails
  BY <1>21 DEF VolumeFails, Provide
<1>22. CASE AllRestored
  BY <1>22 DEF AllRestored
<1>23. CASE CallRestart
  BY <1>23 DEF CallRestart, S!BeginRestart
<1>24. CASE RestartGoesOn
  BY <1>24 DEF RestartGoesOn, S!StartOk, S!StartFails, S!NextToStart, S!Bring
<1>25. CASE RestartDone
  BY <1>25 DEF RestartDone, S!RestartReturns
<1>26. CASE Exit
  BY <1>26 DEF Exit
<1>27. CASE Docker
  BY <1>27 DEF Docker, rvars, S!DaemonStep, S!DaemonStops
<1>28. CASE StopAnswerLost
  BY <1>28 DEF StopAnswerLost, StopErrs, S!StopLost, S!StopFailed
<1>29. CASE Signal
  BY <1>29 DEF Signal, rvars, S!Cancel
<1>30. CASE KillRun
  BY <1>30 DEF KillRun, S!Kill
<1>31. CASE OtherContainerStep
  BY <1>31 DEF OtherContainerStep, rvars, S!OtherStep, S!OtherStarts, S!OtherStops,
     S!OtherRemoves, S!OtherActs
<1>32. ASSUME NEW c \in Containers, ContainerWrites(c) PROVE SeenInv'
  BY <1>32 DEF ContainerWrites, rvars
<1>33. ASSUME NEW v \in Volumes, OtherCreates(v) PROVE SeenInv'
  BY <1>33 DEF OtherCreates, OtherVolumeStep, rvars
<1>34. ASSUME NEW v \in Volumes, OtherRemoves(v) PROVE SeenInv'
  BY <1>34 DEF OtherRemoves, OtherVolumeStep, rvars
<1>35. CASE UNCHANGED vars
  BY <1>35 DEF vars, rvars
<1>36. QED
  BY <1>1, <1>2, <1>3, <1>4, <1>5, <1>6, <1>7, <1>8, <1>9, <1>10, <1>11, <1>12, <1>13,
     <1>14, <1>15, <1>16, <1>17, <1>18, <1>19, <1>20, <1>21, <1>22, <1>23, <1>24, <1>25,
     <1>26, <1>27, <1>28, <1>29, <1>30, <1>31, <1>32, <1>33, <1>34, <1>35
     DEF RNext, Run, Preflight, Stopping, Applying, Deferred, Environment

\* What MakePlan decides for each volume.
LEMMA PlanMade ==
  ASSUME RunTypes, SeenInv, MakePlan, NEW v \in selected
  PROVE  /\ DOMAIN plan' = selected
         /\ plan'[v].action \in P!Actions
         /\ plan'[v].action = "create" => ~seen[v].exists
         /\ plan'[v].action = "unpack" => seen[v].empty /\ Unused(v)
         /\ plan'[v].stop = {c \in Containers \ Helpers :
                plan'[v].action = "overwrite" /\ S!UsesVolume(c, v) /\ S!InUse(snap[c])}
<1> DEFINE inUse == seen[v].users \cap {c \in Containers : S!InUse(snap[c])}
           step == P!StepFor(seen[v], inUse, force)
<1>1. DOMAIN plan' = selected /\ plan'[v] = step
  BY DEF MakePlan, P!BuildPlan
<1>2. inUse = {c \in Containers \ Helpers : S!UsesVolume(c, v) /\ S!InUse(snap[c])}
  BY DEF MakePlan, At, SeenInv, UsersListed, S!IsHelper, S!InUse
<1>3. inUse = {} => Unused(v)
  BY <1>2 DEF Unused
<1> HIDE DEF inUse
<1>4. /\ step.action = P!ActionFor(seen[v], inUse, force)
      /\ step.stop = IF step.action = "overwrite" THEN inUse ELSE {}
  BY DEF P!StepFor
<1> HIDE DEF step
<1>5. /\ step.action \in P!Actions
      /\ step.action = "create" => ~seen[v].exists
      /\ step.action = "unpack" => seen[v].empty /\ inUse = {}
  BY <1>4 DEF P!ActionFor, P!Actions
<1>6. QED
  BY <1>1, <1>2, <1>3, <1>4, <1>5

\* The plan goes stale no more than what it was made from, until Restart.
LEMMA PlanHoldsStep ==
  ASSUME RunTypes, StopperAt, HostInv, SeenInv, PlanHolds, VolumeAt, Stops, [RNext]_vars
  PROVE  PlanHolds'
<1> USE RestoreAssumption DEF RunTypes, StopperAt, HostInv, PlanHolds, VolumeAt, Early,
        Working, Stops, AsListed, S!TypeOK, S!States, S!InUse, S!UsesVolume, Excused,
        Unused, Unmounted, P!Blocked, P!Actions, At, GoesOn, Errs, Settings, planVars,
        resultVars, hostVars, historyVars, svars, S!daemonVars, S!runVars, S!otherVars,
        S!historyVars
<1>1. CASE OpenFails
  BY <1>1 DEF OpenFails, S!Leave
<1>2. CASE Verify
  BY <1>2 DEF Verify
<1>3. CASE VerifyFails
  BY <1>3 DEF VerifyFails, S!Leave
<1>4. CASE VerifiedOnly
  BY <1>4 DEF VerifiedOnly, S!Leave
<1>5. CASE List
  BY <1>5 DEF List, S!ListContainers
<1>6. CASE PreflightFails
  BY <1>6 DEF PreflightFails, S!Leave
<1>7. ASSUME NEW v \in Volumes, Inspect(v) PROVE PlanHolds'
  BY <1>7 DEF Inspect
<1>8. CASE CheckEmpty
  BY <1>8 DEF CheckEmpty, Provide
<1>9. CASE MakePlan
  <2>1. DOMAIN plan' = selected
    BY <1>9, PlanMade
  <2>2. ASSUME NEW v \in selected
        PROVE  /\ plan'[v].action \in P!Actions
               /\ plan'[v].action = "create" =>
                      Unmounted(v)' /\ (v \in foreign' => v \in vtouched')
               /\ plan'[v].action = "unpack" =>
                      Unused(v)' /\ (v \in foreign' => Excused(v)')
    <3>1. /\ plan'[v].action \in P!Actions
          /\ plan'[v].action = "create" => ~seen[v].exists
          /\ plan'[v].action = "unpack" => seen[v].empty /\ Unused(v)
      BY <1>9, <2>2, PlanMade
    <3>2. /\ rpc = "observing" /\ v \notin toSee
          /\ UNCHANGED <<svars, hostVars, historyVars>>
      BY <1>9 DEF MakePlan
    <3>3. /\ ~seen[v].exists => Unmounted(v) /\ (v \in foreign => v \in vtouched)
          /\ seen[v].empty /\ Unused(v) /\ v \in foreign => Excused(v)
      BY <2>2, <3>2 DEF SeenInv
    <3>4. /\ Unmounted(v)' <=> Unmounted(v)
          /\ Unused(v)' <=> Unused(v)
          /\ Excused(v)' <=> Excused(v)
          /\ foreign' = foreign /\ vtouched' = vtouched
      BY <3>2
    <3>5. QED
      BY <3>1, <3>3, <3>4
  <2>3. QED
    BY <1>9, <2>1, <2>2 DEF MakePlan
<1>10. CASE Refuse
  BY <1>10 DEF Refuse, S!Leave
<1>11. CASE CallStop
  BY <1>11 DEF CallStop, S!BeginStop
<1>12. CASE StopGoesOn
  BY <1>12 DEF StopGoesOn, S!SendStop, S!StopOk, S!ReadStartedAt
<1>13. CASE StopFails
  BY <1>13 DEF StopFails, StopErrs, S!StartedAtFails, S!StopRefused, S!StopFailed
<1>14. CASE StopSucceeds
  BY <1>14 DEF StopSucceeds, S!StopReturns
<1>15. ASSUME NEW v \in Volumes, BeginVolume(v) PROVE PlanHolds'
  BY <1>15 DEF BeginVolume, FirstStage
<1>16. CASE CreateVolume
  BY <1>16 DEF CreateVolume, Provide
<1>17. CASE StartClear
  BY <1>17 DEF StartClear
<1>18. CASE Cleared
  BY <1>18 DEF Cleared
<1>19. CASE StartUnpack
  BY <1>19 DEF StartUnpack
<1>20. CASE Unpacked
  BY <1>20 DEF Unpacked, Listed
<1>21. CASE VolumeFails
  BY <1>21 DEF VolumeFails, Provide
<1>22. CASE AllRestored
  BY <1>22 DEF AllRestored
<1>23. CASE CallRestart
  BY <1>23 DEF CallRestart, S!BeginRestart
<1>24. CASE RestartGoesOn
  BY <1>24 DEF RestartGoesOn, S!StartOk, S!StartFails, S!NextToStart, S!Bring
<1>25. CASE RestartDone
  BY <1>25 DEF RestartDone, S!RestartReturns
<1>26. CASE Exit
  BY <1>26 DEF Exit
<1>27. CASE Docker
  BY <1>27 DEF Docker, rvars, S!DaemonStep, S!DaemonStops
<1>28. CASE StopAnswerLost
  BY <1>28 DEF StopAnswerLost, StopErrs, S!StopLost, S!StopFailed
<1>29. CASE Signal
  BY <1>29 DEF Signal, rvars, S!Cancel
<1>30. CASE KillRun
  BY <1>30 DEF KillRun, S!Kill
<1>31. CASE OtherContainerStep
  BY <1>31 DEF OtherContainerStep, rvars, S!OtherStep, S!OtherStarts, S!OtherStops,
     S!OtherRemoves, S!OtherActs
<1>32. ASSUME NEW c \in Containers, ContainerWrites(c) PROVE PlanHolds'
  BY <1>32 DEF ContainerWrites, rvars
<1>33. ASSUME NEW v \in Volumes, OtherCreates(v) PROVE PlanHolds'
  BY <1>33 DEF OtherCreates, OtherVolumeStep, rvars
<1>34. ASSUME NEW v \in Volumes, OtherRemoves(v) PROVE PlanHolds'
  BY <1>34 DEF OtherRemoves, OtherVolumeStep, rvars
<1>35. CASE UNCHANGED vars
  BY <1>35 DEF vars, rvars
<1>36. QED
  BY <1>1, <1>2, <1>3, <1>4, <1>5, <1>6, <1>7, <1>8, <1>9, <1>10, <1>11, <1>12, <1>13,
     <1>14, <1>15, <1>16, <1>17, <1>18, <1>19, <1>20, <1>21, <1>22, <1>23, <1>24, <1>25,
     <1>26, <1>27, <1>28, <1>29, <1>30, <1>31, <1>32, <1>33, <1>34, <1>35
     DEF RNext, Run, Preflight, Stopping, Applying, Deferred, Environment

\* MakePlan names the listed users of what it overwrites.
LEMMA StopListedStep ==
  ASSUME RunTypes, SeenInv, StopListed, [RNext]_vars
  PROVE  StopListed'
<1> USE DEF RunTypes, StopListed, Overwritten, At, GoesOn, Errs, Settings, planVars,
        resultVars, hostVars, historyVars, svars, S!daemonVars, S!runVars, S!otherVars,
        S!historyVars
<1>1. CASE OpenFails
  BY <1>1 DEF OpenFails, S!Leave
<1>2. CASE Verify
  BY <1>2 DEF Verify
<1>3. CASE VerifyFails
  BY <1>3 DEF VerifyFails, S!Leave
<1>4. CASE VerifiedOnly
  BY <1>4 DEF VerifiedOnly, S!Leave
<1>5. CASE List
  BY <1>5 DEF List, S!ListContainers
<1>6. CASE PreflightFails
  BY <1>6 DEF PreflightFails, S!Leave
<1>7. ASSUME NEW v \in Volumes, Inspect(v) PROVE StopListed'
  BY <1>7 DEF Inspect
<1>8. CASE CheckEmpty
  BY <1>8 DEF CheckEmpty, Provide
<1>9. CASE MakePlan
  <2>1. DOMAIN plan' = selected
    BY <1>9, PlanMade
  <2>2. ASSUME NEW c, NEW v \in selected
        PROVE  c \in plan'[v].stop <=>
                   /\ c \in Containers \ Helpers /\ v \in Overwritten'
                   /\ S!UsesVolume(c, v) /\ S!InUse(snap[c])
    BY <1>9, <2>1, PlanMade
  <2>3. P!ToStop(plan') = UNION {plan'[v].stop : v \in selected}
    BY <2>1 DEF P!ToStop
  <2>4. Overwritten' \subseteq selected
    BY <2>1
  <2>5. S!UsersOf(Overwritten', snap) =
            {c \in Containers \ Helpers :
                 \E v \in Overwritten' : S!UsesVolume(c, v) /\ S!InUse(snap[c])}
    BY DEF S!UsersOf, S!IsHelper
  <2> HIDE DEF Overwritten
  <2>6. P!ToStop(plan') = S!UsersOf(Overwritten', snap)
    BY <2>2, <2>3, <2>4, <2>5
  <2>7. UNCHANGED snap
    BY <1>9 DEF MakePlan
  <2>8. QED
    BY <2>6, <2>7
<1>10. CASE Refuse
  BY <1>10 DEF Refuse, S!Leave
<1>11. CASE CallStop
  BY <1>11 DEF CallStop, S!BeginStop
<1>12. CASE StopGoesOn
  BY <1>12 DEF StopGoesOn, S!SendStop, S!StopOk, S!ReadStartedAt
<1>13. CASE StopFails
  BY <1>13 DEF StopFails, StopErrs, S!StartedAtFails, S!StopRefused, S!StopFailed
<1>14. CASE StopSucceeds
  BY <1>14 DEF StopSucceeds, S!StopReturns
<1>15. ASSUME NEW v \in Volumes, BeginVolume(v) PROVE StopListed'
  BY <1>15 DEF BeginVolume, FirstStage
<1>16. CASE CreateVolume
  BY <1>16 DEF CreateVolume, Provide
<1>17. CASE StartClear
  BY <1>17 DEF StartClear
<1>18. CASE Cleared
  BY <1>18 DEF Cleared
<1>19. CASE StartUnpack
  BY <1>19 DEF StartUnpack
<1>20. CASE Unpacked
  BY <1>20 DEF Unpacked, Listed
<1>21. CASE VolumeFails
  BY <1>21 DEF VolumeFails, Provide
<1>22. CASE AllRestored
  BY <1>22 DEF AllRestored
<1>23. CASE CallRestart
  BY <1>23 DEF CallRestart, S!BeginRestart
<1>24. CASE RestartGoesOn
  BY <1>24 DEF RestartGoesOn, S!StartOk, S!StartFails, S!NextToStart, S!Bring
<1>25. CASE RestartDone
  BY <1>25 DEF RestartDone, S!RestartReturns
<1>26. CASE Exit
  BY <1>26 DEF Exit
<1>27. CASE Docker
  BY <1>27 DEF Docker, rvars, S!DaemonStep, S!DaemonStops
<1>28. CASE StopAnswerLost
  BY <1>28 DEF StopAnswerLost, StopErrs, S!StopLost, S!StopFailed
<1>29. CASE Signal
  BY <1>29 DEF Signal, rvars, S!Cancel
<1>30. CASE KillRun
  BY <1>30 DEF KillRun, S!Kill
<1>31. CASE OtherContainerStep
  BY <1>31 DEF OtherContainerStep, rvars, S!OtherStep, S!OtherStarts, S!OtherStops,
     S!OtherRemoves, S!OtherActs
<1>32. ASSUME NEW c \in Containers, ContainerWrites(c) PROVE StopListed'
  BY <1>32 DEF ContainerWrites, rvars
<1>33. ASSUME NEW v \in Volumes, OtherCreates(v) PROVE StopListed'
  BY <1>33 DEF OtherCreates, OtherVolumeStep, rvars
<1>34. ASSUME NEW v \in Volumes, OtherRemoves(v) PROVE StopListed'
  BY <1>34 DEF OtherRemoves, OtherVolumeStep, rvars
<1>35. CASE UNCHANGED vars
  BY <1>35 DEF vars, rvars
<1>36. QED
  BY <1>1, <1>2, <1>3, <1>4, <1>5, <1>6, <1>7, <1>8, <1>9, <1>10, <1>11, <1>12, <1>13,
     <1>14, <1>15, <1>16, <1>17, <1>18, <1>19, <1>20, <1>21, <1>22, <1>23, <1>24, <1>25,
     <1>26, <1>27, <1>28, <1>29, <1>30, <1>31, <1>32, <1>33, <1>34, <1>35
     DEF RNext, Run, Preflight, Stopping, Applying, Deferred, Environment

\* The volume at hand is one of the plan, taken once; when it is unpacked into, data
\* that is not the archive's is somebody else's.
LEMMA VolumeAtStep ==
  ASSUME RunTypes, StopperAt, HostInv, PlanHolds, VolumeAt, HeldWhileRestored,
         ResultInv, Stops, [RNext]_vars
  PROVE  VolumeAt'
<1> USE RestoreAssumption DEF RunTypes, StopperAt, PlanHolds, VolumeAt,
        HeldWhileRestored, ResultInv, Early, Working, Stops, AsListed, S!TypeOK,
        S!States, S!InUse, S!UsesVolume, Excused, Unused, Unmounted, P!Blocked,
        P!Actions, At, GoesOn, Errs, Settings, planVars, resultVars, hostVars,
        historyVars, svars, S!daemonVars, S!runVars, S!otherVars, S!historyVars
<1>1. CASE OpenFails
  BY <1>1 DEF OpenFails, S!Leave
<1>2. CASE Verify
  BY <1>2 DEF Verify
<1>3. CASE VerifyFails
  BY <1>3 DEF VerifyFails, S!Leave
<1>4. CASE VerifiedOnly
  BY <1>4 DEF VerifiedOnly, S!Leave
<1>5. CASE List
  BY <1>5 DEF List, S!ListContainers
<1>6. CASE PreflightFails
  BY <1>6 DEF PreflightFails, S!Leave
<1>7. ASSUME NEW v \in Volumes, Inspect(v) PROVE VolumeAt'
  BY <1>7 DEF Inspect
<1>8. CASE CheckEmpty
  BY <1>8 DEF CheckEmpty, Provide
<1>9. CASE MakePlan
  BY <1>9 DEF MakePlan
<1>10. CASE Refuse
  BY <1>10 DEF Refuse, S!Leave
<1>11. CASE CallStop
  BY <1>11 DEF CallStop, S!BeginStop
<1>12. CASE StopGoesOn
  BY <1>12 DEF StopGoesOn, S!SendStop, S!StopOk, S!ReadStartedAt
<1>13. CASE StopFails
  BY <1>13 DEF StopFails, StopErrs, S!StartedAtFails, S!StopRefused, S!StopFailed
<1>14. CASE StopSucceeds
  BY <1>14 DEF StopSucceeds, S!StopReturns
<1>15. ASSUME NEW v \in Volumes, BeginVolume(v) PROVE VolumeAt'
  BY <1>15 DEF BeginVolume, FirstStage
<1>16. CASE CreateVolume
  BY <1>16 DEF CreateVolume, Provide
<1>17. CASE StartClear
  BY <1>17 DEF StartClear
<1>18. CASE Cleared
  BY <1>18 DEF Cleared
<1>19. CASE StartUnpack
  BY <1>19 DEF StartUnpack
<1>20. CASE Unpacked
  BY <1>20 DEF Unpacked, Listed
<1>21. CASE VolumeFails
  BY <1>21 DEF VolumeFails, Provide
<1>22. CASE AllRestored
  BY <1>22 DEF AllRestored
<1>23. CASE CallRestart
  BY <1>23 DEF CallRestart, S!BeginRestart
<1>24. CASE RestartGoesOn
  BY <1>24 DEF RestartGoesOn, S!StartOk, S!StartFails, S!NextToStart, S!Bring
<1>25. CASE RestartDone
  BY <1>25 DEF RestartDone, S!RestartReturns
<1>26. CASE Exit
  BY <1>26 DEF Exit
<1>27. CASE Docker
  BY <1>27 DEF Docker, rvars, S!DaemonStep, S!DaemonStops
<1>28. CASE StopAnswerLost
  BY <1>28 DEF StopAnswerLost, StopErrs, S!StopLost, S!StopFailed
<1>29. CASE Signal
  BY <1>29 DEF Signal, rvars, S!Cancel
<1>30. CASE KillRun
  BY <1>30 DEF KillRun, S!Kill
<1>31. CASE OtherContainerStep
  BY <1>31 DEF OtherContainerStep, rvars, S!OtherStep, S!OtherStarts, S!OtherStops,
     S!OtherRemoves, S!OtherActs
<1>32. ASSUME NEW c \in Containers, ContainerWrites(c) PROVE VolumeAt'
  BY <1>32 DEF ContainerWrites, rvars
<1>33. ASSUME NEW v \in Volumes, OtherCreates(v) PROVE VolumeAt'
  BY <1>33 DEF OtherCreates, OtherVolumeStep, rvars
<1>34. ASSUME NEW v \in Volumes, OtherRemoves(v) PROVE VolumeAt'
  BY <1>34 DEF OtherRemoves, OtherVolumeStep, rvars
<1>35. CASE UNCHANGED vars
  BY <1>35 DEF vars, rvars
<1>36. QED
  BY <1>1, <1>2, <1>3, <1>4, <1>5, <1>6, <1>7, <1>8, <1>9, <1>10, <1>11, <1>12, <1>13,
     <1>14, <1>15, <1>16, <1>17, <1>18, <1>19, <1>20, <1>21, <1>22, <1>23, <1>24, <1>25,
     <1>26, <1>27, <1>28, <1>29, <1>30, <1>31, <1>32, <1>33, <1>34, <1>35
     DEF RNext, Run, Preflight, Stopping, Applying, Deferred, Environment

\* A volume is cleared when Stop has stopped its users, and unpacked into without a
\* stop only if it had none in use.
LEMMA HeldStep ==
  ASSUME RunTypes, StopperAt, PlanHolds, VolumeAt, HeldWhileRestored, Stops,
         [RNext]_vars
  PROVE  HeldWhileRestored'
<1> USE RestoreAssumption DEF RunTypes, StopperAt, PlanHolds, VolumeAt,
        HeldWhileRestored, Early, Working, Overwritten, Stops, AsListed, S!VolumesHeld,
        S!TypeOK, S!States, S!InUse, S!UsesVolume, Unused, Unmounted, At, GoesOn, Errs,
        Settings, planVars, resultVars, hostVars, historyVars, svars, S!daemonVars,
        S!runVars, S!otherVars, S!historyVars
<1>1. CASE OpenFails
  BY <1>1 DEF OpenFails, S!Leave
<1>2. CASE Verify
  BY <1>2 DEF Verify
<1>3. CASE VerifyFails
  BY <1>3 DEF VerifyFails, S!Leave
<1>4. CASE VerifiedOnly
  BY <1>4 DEF VerifiedOnly, S!Leave
<1>5. CASE List
  BY <1>5 DEF List, S!ListContainers
<1>6. CASE PreflightFails
  BY <1>6 DEF PreflightFails, S!Leave
<1>7. ASSUME NEW v \in Volumes, Inspect(v) PROVE HeldWhileRestored'
  BY <1>7 DEF Inspect
<1>8. CASE CheckEmpty
  BY <1>8 DEF CheckEmpty, Provide
<1>9. CASE MakePlan
  BY <1>9 DEF MakePlan
<1>10. CASE Refuse
  BY <1>10 DEF Refuse, S!Leave
<1>11. CASE CallStop
  BY <1>11 DEF CallStop, S!BeginStop
<1>12. CASE StopGoesOn
  BY <1>12 DEF StopGoesOn, S!SendStop, S!StopOk, S!ReadStartedAt
<1>13. CASE StopFails
  BY <1>13 DEF StopFails, StopErrs, S!StartedAtFails, S!StopRefused, S!StopFailed
<1>14. CASE StopSucceeds
  BY <1>14 DEF StopSucceeds, S!StopReturns
<1>15. ASSUME NEW v \in Volumes, BeginVolume(v) PROVE HeldWhileRestored'
  <2> SUFFICES ASSUME rpc' \in {"clear", "clearing", "unpack", "unpacking"},
                      NEW c \in Containers \ (Helpers \cup touched), v \in Mounts[c]
               PROVE  ~S!InUse(cstate[c])
    BY <1>15 DEF BeginVolume
  <2>1. v \in DOMAIN plan /\ phase = "held" /\ plan[v].action \in P!Actions \ {"blocked"}
    BY <1>15 DEF BeginVolume, P!Blocked
  <2>2. CASE plan[v].action = "overwrite"
    BY <1>15, <2>1, <2>2 DEF BeginVolume
  <2>3. CASE plan[v].action = "unpack"
    <3>1. ~S!InUse(snap[c])
      BY <1>15, <2>1, <2>3 DEF BeginVolume
    <3>2. QED
      BY <2>1, <3>1
  <2>4. CASE plan[v].action = "create"
    BY <1>15, <2>4 DEF BeginVolume, FirstStage
  <2>5. QED
    BY <2>1, <2>2, <2>3, <2>4 DEF P!Actions
<1>16. CASE CreateVolume
  BY <1>16 DEF CreateVolume, Provide
<1>17. CASE StartClear
  BY <1>17 DEF StartClear
<1>18. CASE Cleared
  BY <1>18 DEF Cleared
<1>19. CASE StartUnpack
  BY <1>19 DEF StartUnpack
<1>20. CASE Unpacked
  BY <1>20 DEF Unpacked, Listed
<1>21. CASE VolumeFails
  BY <1>21 DEF VolumeFails, Provide
<1>22. CASE AllRestored
  BY <1>22 DEF AllRestored
<1>23. CASE CallRestart
  BY <1>23 DEF CallRestart, S!BeginRestart
<1>24. CASE RestartGoesOn
  BY <1>24 DEF RestartGoesOn, S!StartOk, S!StartFails, S!NextToStart, S!Bring
<1>25. CASE RestartDone
  BY <1>25 DEF RestartDone, S!RestartReturns
<1>26. CASE Exit
  BY <1>26 DEF Exit
<1>27. CASE Docker
  BY <1>27 DEF Docker, rvars, S!DaemonStep, S!DaemonStops
<1>28. CASE StopAnswerLost
  BY <1>28 DEF StopAnswerLost, StopErrs, S!StopLost, S!StopFailed
<1>29. CASE Signal
  BY <1>29 DEF Signal, rvars, S!Cancel
<1>30. CASE KillRun
  BY <1>30 DEF KillRun, S!Kill
<1>31. CASE OtherContainerStep
  BY <1>31 DEF OtherContainerStep, rvars, S!OtherStep, S!OtherStarts, S!OtherStops,
     S!OtherRemoves, S!OtherActs
<1>32. ASSUME NEW c \in Containers, ContainerWrites(c) PROVE HeldWhileRestored'
  BY <1>32 DEF ContainerWrites, rvars
<1>33. ASSUME NEW v \in Volumes, OtherCreates(v) PROVE HeldWhileRestored'
  BY <1>33 DEF OtherCreates, OtherVolumeStep, rvars
<1>34. ASSUME NEW v \in Volumes, OtherRemoves(v) PROVE HeldWhileRestored'
  BY <1>34 DEF OtherRemoves, OtherVolumeStep, rvars
<1>35. CASE UNCHANGED vars
  BY <1>35 DEF vars, rvars
<1>36. QED
  BY <1>1, <1>2, <1>3, <1>4, <1>5, <1>6, <1>7, <1>8, <1>9, <1>10, <1>11, <1>12, <1>13,
     <1>14, <1>15, <1>16, <1>17, <1>18, <1>19, <1>20, <1>21, <1>22, <1>23, <1>24, <1>25,
     <1>26, <1>27, <1>28, <1>29, <1>30, <1>31, <1>32, <1>33, <1>34, <1>35
     DEF RNext, Run, Preflight, Stopping, Applying, Deferred, Environment

\* A restored volume that holds other data got it from others.
LEMMA MixedStep ==
  ASSUME RunTypes, VolumeAt, MixedOnlyByOthers, [RNext]_vars
  PROVE  MixedOnlyByOthers'
<1> USE DEF RunTypes, VolumeAt, MixedOnlyByOthers, Excused, S!UsesVolume, At, GoesOn,
        Errs, Settings, planVars, resultVars, hostVars, historyVars, svars,
        S!daemonVars, S!runVars, S!otherVars, S!historyVars
<1>1. CASE OpenFails
  BY <1>1 DEF OpenFails, S!Leave
<1>2. CASE Verify
  BY <1>2 DEF Verify
<1>3. CASE VerifyFails
  BY <1>3 DEF VerifyFails, S!Leave
<1>4. CASE VerifiedOnly
  BY <1>4 DEF VerifiedOnly, S!Leave
<1>5. CASE List
  BY <1>5 DEF List, S!ListContainers
<1>6. CASE PreflightFails
  BY <1>6 DEF PreflightFails, S!Leave
<1>7. ASSUME NEW v \in Volumes, Inspect(v) PROVE MixedOnlyByOthers'
  BY <1>7 DEF Inspect
<1>8. CASE CheckEmpty
  BY <1>8 DEF CheckEmpty, Provide
<1>9. CASE MakePlan
  BY <1>9 DEF MakePlan
<1>10. CASE Refuse
  BY <1>10 DEF Refuse, S!Leave
<1>11. CASE CallStop
  BY <1>11 DEF CallStop, S!BeginStop
<1>12. CASE StopGoesOn
  BY <1>12 DEF StopGoesOn, S!SendStop, S!StopOk, S!ReadStartedAt
<1>13. CASE StopFails
  BY <1>13 DEF StopFails, StopErrs, S!StartedAtFails, S!StopRefused, S!StopFailed
<1>14. CASE StopSucceeds
  BY <1>14 DEF StopSucceeds, S!StopReturns
<1>15. ASSUME NEW v \in Volumes, BeginVolume(v) PROVE MixedOnlyByOthers'
  BY <1>15 DEF BeginVolume, FirstStage
<1>16. CASE CreateVolume
  BY <1>16 DEF CreateVolume, Provide
<1>17. CASE StartClear
  BY <1>17 DEF StartClear
<1>18. CASE Cleared
  BY <1>18 DEF Cleared
<1>19. CASE StartUnpack
  BY <1>19 DEF StartUnpack
<1>20. CASE Unpacked
  BY <1>20 DEF Unpacked, Listed
<1>21. CASE VolumeFails
  BY <1>21 DEF VolumeFails, Provide
<1>22. CASE AllRestored
  BY <1>22 DEF AllRestored
<1>23. CASE CallRestart
  BY <1>23 DEF CallRestart, S!BeginRestart
<1>24. CASE RestartGoesOn
  BY <1>24 DEF RestartGoesOn, S!StartOk, S!StartFails, S!NextToStart, S!Bring
<1>25. CASE RestartDone
  BY <1>25 DEF RestartDone, S!RestartReturns
<1>26. CASE Exit
  BY <1>26 DEF Exit
<1>27. CASE Docker
  BY <1>27 DEF Docker, rvars, S!DaemonStep, S!DaemonStops
<1>28. CASE StopAnswerLost
  BY <1>28 DEF StopAnswerLost, StopErrs, S!StopLost, S!StopFailed
<1>29. CASE Signal
  BY <1>29 DEF Signal, rvars, S!Cancel
<1>30. CASE KillRun
  BY <1>30 DEF KillRun, S!Kill
<1>31. CASE OtherContainerStep
  BY <1>31 DEF OtherContainerStep, rvars, S!OtherStep, S!OtherStarts, S!OtherStops,
     S!OtherRemoves, S!OtherActs
<1>32. ASSUME NEW c \in Containers, ContainerWrites(c) PROVE MixedOnlyByOthers'
  BY <1>32 DEF ContainerWrites, rvars
<1>33. ASSUME NEW v \in Volumes, OtherCreates(v) PROVE MixedOnlyByOthers'
  BY <1>33 DEF OtherCreates, OtherVolumeStep, rvars
<1>34. ASSUME NEW v \in Volumes, OtherRemoves(v) PROVE MixedOnlyByOthers'
  BY <1>34 DEF OtherRemoves, OtherVolumeStep, rvars
<1>35. CASE UNCHANGED vars
  BY <1>35 DEF vars, rvars
<1>36. QED
  BY <1>1, <1>2, <1>3, <1>4, <1>5, <1>6, <1>7, <1>8, <1>9, <1>10, <1>11, <1>12, <1>13,
     <1>14, <1>15, <1>16, <1>17, <1>18, <1>19, <1>20, <1>21, <1>22, <1>23, <1>24, <1>25,
     <1>26, <1>27, <1>28, <1>29, <1>30, <1>31, <1>32, <1>33, <1>34, <1>35
     DEF RNext, Run, Preflight, Stopping, Applying, Deferred, Environment

\* A run that refuses has stopped nothing, and changed nothing but a volume another
\* actor removed while it looked.
LEMMA QuietStep ==
  ASSUME RunTypes, StopperAt, SeenInv, PlanHolds, QuietInv, [RNext]_vars
  PROVE  QuietInv'
<1> USE DEF RunTypes, StopperAt, SeenInv, PlanHolds, QuietInv, Quiet, Early, Working,
        P!Blocked, At, GoesOn, Errs, Settings, planVars, resultVars, hostVars,
        historyVars, svars, S!daemonVars, S!runVars, S!otherVars, S!historyVars
<1>1. CASE OpenFails
  BY <1>1 DEF OpenFails, S!Leave
<1>2. CASE Verify
  BY <1>2 DEF Verify
<1>3. CASE VerifyFails
  BY <1>3 DEF VerifyFails, S!Leave
<1>4. CASE VerifiedOnly
  BY <1>4 DEF VerifiedOnly, S!Leave
<1>5. CASE List
  BY <1>5 DEF List, S!ListContainers
<1>6. CASE PreflightFails
  BY <1>6 DEF PreflightFails, S!Leave
<1>7. ASSUME NEW v \in Volumes, Inspect(v) PROVE QuietInv'
  BY <1>7 DEF Inspect
<1>8. CASE CheckEmpty
  BY <1>8 DEF CheckEmpty, Provide
<1>9. CASE MakePlan
  BY <1>9 DEF MakePlan
<1>10. CASE Refuse
  BY <1>10 DEF Refuse, S!Leave
<1>11. CASE CallStop
  BY <1>11 DEF CallStop, S!BeginStop
<1>12. CASE StopGoesOn
  BY <1>12 DEF StopGoesOn, S!SendStop, S!StopOk, S!ReadStartedAt
<1>13. CASE StopFails
  BY <1>13 DEF StopFails, StopErrs, S!StartedAtFails, S!StopRefused, S!StopFailed
<1>14. CASE StopSucceeds
  BY <1>14 DEF StopSucceeds, S!StopReturns
<1>15. ASSUME NEW v \in Volumes, BeginVolume(v) PROVE QuietInv'
  BY <1>15 DEF BeginVolume, FirstStage
<1>16. CASE CreateVolume
  BY <1>16 DEF CreateVolume, Provide
<1>17. CASE StartClear
  BY <1>17 DEF StartClear
<1>18. CASE Cleared
  BY <1>18 DEF Cleared
<1>19. CASE StartUnpack
  BY <1>19 DEF StartUnpack
<1>20. CASE Unpacked
  BY <1>20 DEF Unpacked, Listed
<1>21. CASE VolumeFails
  BY <1>21 DEF VolumeFails, Provide
<1>22. CASE AllRestored
  BY <1>22 DEF AllRestored
<1>23. CASE CallRestart
  BY <1>23 DEF CallRestart, S!BeginRestart
<1>24. CASE RestartGoesOn
  BY <1>24 DEF RestartGoesOn, S!StartOk, S!StartFails, S!NextToStart, S!Bring
<1>25. CASE RestartDone
  BY <1>25 DEF RestartDone, S!RestartReturns
<1>26. CASE Exit
  BY <1>26 DEF Exit
<1>27. CASE Docker
  BY <1>27 DEF Docker, rvars, S!DaemonStep, S!DaemonStops
<1>28. CASE StopAnswerLost
  BY <1>28 DEF StopAnswerLost, StopErrs, S!StopLost, S!StopFailed
<1>29. CASE Signal
  BY <1>29 DEF Signal, rvars, S!Cancel
<1>30. CASE KillRun
  BY <1>30 DEF KillRun, S!Kill
<1>31. CASE OtherContainerStep
  BY <1>31 DEF OtherContainerStep, rvars, S!OtherStep, S!OtherStarts, S!OtherStops,
     S!OtherRemoves, S!OtherActs
<1>32. ASSUME NEW c \in Containers, ContainerWrites(c) PROVE QuietInv'
  BY <1>32 DEF ContainerWrites, rvars
<1>33. ASSUME NEW v \in Volumes, OtherCreates(v) PROVE QuietInv'
  BY <1>33 DEF OtherCreates, OtherVolumeStep, rvars
<1>34. ASSUME NEW v \in Volumes, OtherRemoves(v) PROVE QuietInv'
  BY <1>34 DEF OtherRemoves, OtherVolumeStep, rvars
<1>35. CASE UNCHANGED vars
  BY <1>35 DEF vars, rvars
<1>36. QED
  BY <1>1, <1>2, <1>3, <1>4, <1>5, <1>6, <1>7, <1>8, <1>9, <1>10, <1>11, <1>12, <1>13,
     <1>14, <1>15, <1>16, <1>17, <1>18, <1>19, <1>20, <1>21, <1>22, <1>23, <1>24, <1>25,
     <1>26, <1>27, <1>28, <1>29, <1>30, <1>31, <1>32, <1>33, <1>34, <1>35
     DEF RNext, Run, Preflight, Stopping, Applying, Deferred, Environment

\* The lists of the result cover the selection, whatever step fails.
LEMMA ResultStep ==
  ASSUME RunTypes, StopperAt, VolumeAt, PlanHolds, QuietInv, ResultInv, [RNext]_vars
  PROVE  ResultInv'
<1> USE DEF RunTypes, StopperAt, VolumeAt, PlanHolds, QuietInv, ResultInv, Complete,
        Quiet, Early, Working, At, GoesOn, Errs, Settings, planVars, resultVars,
        hostVars, historyVars, svars, S!daemonVars, S!runVars, S!otherVars,
        S!historyVars
<1>1. CASE OpenFails
  BY <1>1 DEF OpenFails, S!Leave
<1>2. CASE Verify
  BY <1>2 DEF Verify
<1>3. CASE VerifyFails
  BY <1>3 DEF VerifyFails, S!Leave
<1>4. CASE VerifiedOnly
  BY <1>4 DEF VerifiedOnly, S!Leave
<1>5. CASE List
  BY <1>5 DEF List, S!ListContainers
<1>6. CASE PreflightFails
  BY <1>6 DEF PreflightFails, S!Leave
<1>7. ASSUME NEW v \in Volumes, Inspect(v) PROVE ResultInv'
  BY <1>7 DEF Inspect
<1>8. CASE CheckEmpty
  BY <1>8 DEF CheckEmpty, Provide
<1>9. CASE MakePlan
  BY <1>9 DEF MakePlan
<1>10. CASE Refuse
  BY <1>10 DEF Refuse, S!Leave
<1>11. CASE CallStop
  BY <1>11 DEF CallStop, S!BeginStop
<1>12. CASE StopGoesOn
  BY <1>12 DEF StopGoesOn, S!SendStop, S!StopOk, S!ReadStartedAt
<1>13. CASE StopFails
  BY <1>13 DEF StopFails, StopErrs, S!StartedAtFails, S!StopRefused, S!StopFailed
<1>14. CASE StopSucceeds
  BY <1>14 DEF StopSucceeds, S!StopReturns
<1>15. ASSUME NEW v \in Volumes, BeginVolume(v) PROVE ResultInv'
  BY <1>15 DEF BeginVolume, FirstStage
<1>16. CASE CreateVolume
  BY <1>16 DEF CreateVolume, Provide
<1>17. CASE StartClear
  BY <1>17 DEF StartClear
<1>18. CASE Cleared
  BY <1>18 DEF Cleared
<1>19. CASE StartUnpack
  BY <1>19 DEF StartUnpack
<1>20. CASE Unpacked
  BY <1>20 DEF Unpacked, Listed
<1>21. CASE VolumeFails
  BY <1>21 DEF VolumeFails, Provide
<1>22. CASE AllRestored
  BY <1>22 DEF AllRestored
<1>23. CASE CallRestart
  BY <1>23 DEF CallRestart, S!BeginRestart
<1>24. CASE RestartGoesOn
  BY <1>24 DEF RestartGoesOn, S!StartOk, S!StartFails, S!NextToStart, S!Bring
<1>25. CASE RestartDone
  BY <1>25 DEF RestartDone, S!RestartReturns
<1>26. CASE Exit
  BY <1>26 DEF Exit
<1>27. CASE Docker
  BY <1>27 DEF Docker, rvars, S!DaemonStep, S!DaemonStops
<1>28. CASE StopAnswerLost
  BY <1>28 DEF StopAnswerLost, StopErrs, S!StopLost, S!StopFailed
<1>29. CASE Signal
  BY <1>29 DEF Signal, rvars, S!Cancel
<1>30. CASE KillRun
  BY <1>30 DEF KillRun, S!Kill
<1>31. CASE OtherContainerStep
  BY <1>31 DEF OtherContainerStep, rvars, S!OtherStep, S!OtherStarts, S!OtherStops,
     S!OtherRemoves, S!OtherActs
<1>32. ASSUME NEW c \in Containers, ContainerWrites(c) PROVE ResultInv'
  BY <1>32 DEF ContainerWrites, rvars
<1>33. ASSUME NEW v \in Volumes, OtherCreates(v) PROVE ResultInv'
  BY <1>33 DEF OtherCreates, OtherVolumeStep, rvars
<1>34. ASSUME NEW v \in Volumes, OtherRemoves(v) PROVE ResultInv'
  BY <1>34 DEF OtherRemoves, OtherVolumeStep, rvars
<1>35. CASE UNCHANGED vars
  BY <1>35 DEF vars, rvars
<1>36. QED
  BY <1>1, <1>2, <1>3, <1>4, <1>5, <1>6, <1>7, <1>8, <1>9, <1>10, <1>11, <1>12, <1>13,
     <1>14, <1>15, <1>16, <1>17, <1>18, <1>19, <1>20, <1>21, <1>22, <1>23, <1>24, <1>25,
     <1>26, <1>27, <1>28, <1>29, <1>30, <1>31, <1>32, <1>33, <1>34, <1>35
     DEF RNext, Run, Preflight, Stopping, Applying, Deferred, Environment

\* What is printed of a run that stopped early is true.
LEMMA OutcomeStep ==
  ASSUME RunTypes, StopperAt, VolumeAt, PlanHolds, QuietInv, ResultInv, OutcomeIsTrue,
         [RNext]_vars
  PROVE  OutcomeIsTrue'
<1> USE DEF RunTypes, StopperAt, VolumeAt, PlanHolds, QuietInv, ResultInv,
        OutcomeIsTrue, Complete, Quiet, Early, Working, P!Blocked, At, GoesOn, Errs,
        Settings, planVars, resultVars, hostVars, historyVars
<1>1. CASE OpenFails
  BY <1>1 DEF OpenFails
<1>2. CASE Verify
  BY <1>2 DEF Verify
<1>3. CASE VerifyFails
  BY <1>3 DEF VerifyFails
<1>4. CASE VerifiedOnly
  BY <1>4 DEF VerifiedOnly
<1>5. CASE List
  BY <1>5 DEF List
<1>6. CASE PreflightFails
  BY <1>6 DEF PreflightFails
<1>7. ASSUME NEW v \in Volumes, Inspect(v) PROVE OutcomeIsTrue'
  BY <1>7 DEF Inspect
<1>8. CASE CheckEmpty
  BY <1>8 DEF CheckEmpty, Provide
<1>9. CASE MakePlan
  BY <1>9 DEF MakePlan
<1>10. CASE Refuse
  BY <1>10 DEF Refuse
<1>11. CASE CallStop
  BY <1>11 DEF CallStop
<1>12. CASE StopGoesOn
  BY <1>12 DEF StopGoesOn
<1>13. CASE StopFails
  BY <1>13 DEF StopFails, StopErrs
<1>14. CASE StopSucceeds
  BY <1>14 DEF StopSucceeds
<1>15. ASSUME NEW v \in Volumes, BeginVolume(v) PROVE OutcomeIsTrue'
  BY <1>15 DEF BeginVolume, FirstStage
<1>16. CASE CreateVolume
  BY <1>16 DEF CreateVolume, Provide
<1>17. CASE StartClear
  BY <1>17 DEF StartClear
<1>18. CASE Cleared
  BY <1>18 DEF Cleared
<1>19. CASE StartUnpack
  BY <1>19 DEF StartUnpack
<1>20. CASE Unpacked
  BY <1>20 DEF Unpacked, Listed
<1>21. CASE VolumeFails
  BY <1>21 DEF VolumeFails, Provide
<1>22. CASE AllRestored
  BY <1>22 DEF AllRestored
<1>23. CASE CallRestart
  BY <1>23 DEF CallRestart
<1>24. CASE RestartGoesOn
  BY <1>24 DEF RestartGoesOn
<1>25. CASE RestartDone
  BY <1>25 DEF RestartDone
<1>26. CASE Exit
  BY <1>26 DEF Exit
<1>27. CASE Docker
  BY <1>27 DEF Docker, rvars
<1>28. CASE StopAnswerLost
  BY <1>28 DEF StopAnswerLost, StopErrs
<1>29. CASE Signal
  BY <1>29 DEF Signal, rvars
<1>30. CASE KillRun
  BY <1>30 DEF KillRun
<1>31. CASE OtherContainerStep
  BY <1>31 DEF OtherContainerStep, rvars
<1>32. ASSUME NEW c \in Containers, ContainerWrites(c) PROVE OutcomeIsTrue'
  BY <1>32 DEF ContainerWrites, rvars
<1>33. ASSUME NEW v \in Volumes, OtherCreates(v) PROVE OutcomeIsTrue'
  BY <1>33 DEF OtherCreates, OtherVolumeStep, rvars
<1>34. ASSUME NEW v \in Volumes, OtherRemoves(v) PROVE OutcomeIsTrue'
  BY <1>34 DEF OtherRemoves, OtherVolumeStep, rvars
<1>35. CASE UNCHANGED vars
  BY <1>35 DEF vars, rvars
<1>36. QED
  BY <1>1, <1>2, <1>3, <1>4, <1>5, <1>6, <1>7, <1>8, <1>9, <1>10, <1>11, <1>12, <1>13,
     <1>14, <1>15, <1>16, <1>17, <1>18, <1>19, <1>20, <1>21, <1>22, <1>23, <1>24, <1>25,
     <1>26, <1>27, <1>28, <1>29, <1>30, <1>31, <1>32, <1>33, <1>34, <1>35
     DEF RNext, Run, Preflight, Stopping, Applying, Deferred, Environment

\* The exit code is the last thing that changes.
LEMMA ExitStep ==
  ASSUME RunTypes, StopperAt, ExitInv, Stops, [RNext]_vars
  PROVE  ExitInv'
<1> USE RestoreAssumption DEF RunTypes, StopperAt, ExitInv, Stops, S!TypeOK, Working,
        At, GoesOn, Errs, Settings, planVars, resultVars, hostVars, historyVars, svars,
        S!daemonVars, S!runVars, S!otherVars, S!historyVars
<1>1. CASE OpenFails
  BY <1>1 DEF OpenFails, S!Leave
<1>2. CASE Verify
  BY <1>2 DEF Verify
<1>3. CASE VerifyFails
  BY <1>3 DEF VerifyFails, S!Leave
<1>4. CASE VerifiedOnly
  BY <1>4 DEF VerifiedOnly, S!Leave
<1>5. CASE List
  BY <1>5 DEF List, S!ListContainers
<1>6. CASE PreflightFails
  BY <1>6 DEF PreflightFails, S!Leave
<1>7. ASSUME NEW v \in Volumes, Inspect(v) PROVE ExitInv'
  BY <1>7 DEF Inspect
<1>8. CASE CheckEmpty
  BY <1>8 DEF CheckEmpty, Provide
<1>9. CASE MakePlan
  BY <1>9 DEF MakePlan
<1>10. CASE Refuse
  BY <1>10 DEF Refuse, S!Leave
<1>11. CASE CallStop
  BY <1>11 DEF CallStop, S!BeginStop
<1>12. CASE StopGoesOn
  BY <1>12 DEF StopGoesOn, S!SendStop, S!StopOk, S!ReadStartedAt
<1>13. CASE StopFails
  BY <1>13 DEF StopFails, StopErrs, S!StartedAtFails, S!StopRefused, S!StopFailed
<1>14. CASE StopSucceeds
  BY <1>14 DEF StopSucceeds, S!StopReturns
<1>15. ASSUME NEW v \in Volumes, BeginVolume(v) PROVE ExitInv'
  BY <1>15 DEF BeginVolume, FirstStage
<1>16. CASE CreateVolume
  BY <1>16 DEF CreateVolume, Provide
<1>17. CASE StartClear
  BY <1>17 DEF StartClear
<1>18. CASE Cleared
  BY <1>18 DEF Cleared
<1>19. CASE StartUnpack
  BY <1>19 DEF StartUnpack
<1>20. CASE Unpacked
  BY <1>20 DEF Unpacked, Listed
<1>21. CASE VolumeFails
  BY <1>21 DEF VolumeFails, Provide
<1>22. CASE AllRestored
  BY <1>22 DEF AllRestored
<1>23. CASE CallRestart
  BY <1>23 DEF CallRestart, S!BeginRestart
<1>24. CASE RestartGoesOn
  BY <1>24 DEF RestartGoesOn, S!StartOk, S!StartFails, S!NextToStart, S!Bring
<1>25. CASE RestartDone
  BY <1>25 DEF RestartDone, S!RestartReturns
<1>26. CASE Exit
  BY <1>26 DEF Exit
<1>27. CASE Docker
  BY <1>27 DEF Docker, rvars, S!DaemonStep, S!DaemonStops
<1>28. CASE StopAnswerLost
  BY <1>28 DEF StopAnswerLost, StopErrs, S!StopLost, S!StopFailed
<1>29. CASE Signal
  BY <1>29 DEF Signal, rvars, S!Cancel
<1>30. CASE KillRun
  BY <1>30 DEF KillRun, S!Kill
<1>31. CASE OtherContainerStep
  BY <1>31 DEF OtherContainerStep, rvars, S!OtherStep, S!OtherStarts, S!OtherStops,
     S!OtherRemoves, S!OtherActs
<1>32. ASSUME NEW c \in Containers, ContainerWrites(c) PROVE ExitInv'
  BY <1>32 DEF ContainerWrites, rvars
<1>33. ASSUME NEW v \in Volumes, OtherCreates(v) PROVE ExitInv'
  BY <1>33 DEF OtherCreates, OtherVolumeStep, rvars
<1>34. ASSUME NEW v \in Volumes, OtherRemoves(v) PROVE ExitInv'
  BY <1>34 DEF OtherRemoves, OtherVolumeStep, rvars
<1>35. CASE UNCHANGED vars
  BY <1>35 DEF vars, rvars
<1>36. QED
  BY <1>1, <1>2, <1>3, <1>4, <1>5, <1>6, <1>7, <1>8, <1>9, <1>10, <1>11, <1>12, <1>13,
     <1>14, <1>15, <1>16, <1>17, <1>18, <1>19, <1>20, <1>21, <1>22, <1>23, <1>24, <1>25,
     <1>26, <1>27, <1>28, <1>29, <1>30, <1>31, <1>32, <1>33, <1>34, <1>35
     DEF RNext, Run, Preflight, Stopping, Applying, Deferred, Environment

-----------------------------------------------------------------------------
(* The theorems on a restore's own safety.                                 *)

\* The invariant of a restore holds in every reachable state.
THEOREM RInductive == RSpec => []RInv
<1>1. RInv /\ Stops /\ [RNext]_vars => RInv'
  BY RunTypesStep, StopperAtStep, HostStep, SeenStep, PlanHoldsStep, StopListedStep,
     VolumeAtStep, QuietStep, ResultStep, ExitStep, HeldStep, MixedStep, OutcomeStep
     DEF RInv
<1>2. QED
  BY RInvInit, <1>1, StopsAlways, PTL DEF RSpec

\* Types of Run's state; the plan stops the listed users of what it overwrites.
THEOREM RTypeCorrect == RSpec => []RTypeOK
<1>1. RInv => RTypeOK
  BY DEF RInv, RunTypes, Observations, HostInv, PlanHolds, StopListed, ResultInv,
     RTypeOK
<1>2. QED
  BY RInductive, <1>1, PTL

\* A run that refuses, for a corrupt entry or a blocked volume, refuses as a whole.
THEOREM RefusesAsAWhole == RSpec => []RefusalChangesNothing
<1>1. RInv => RefusalChangesNothing
  BY DEF RInv, QuietInv, Quiet, P!Blocked, RefusalChangesNothing
<1>2. QED
  BY RInductive, <1>1, PTL

\* No container runs with the volume a step works on, but for helpers and what
\* other actors acted on, also for the volumes whose users Stop was not given.
THEOREM QuietWhileRestored == RSpec => []HeldWhileRestored
<1>1. RInv => HeldWhileRestored
  BY DEF RInv
<1>2. QED
  BY RInductive, <1>1, PTL

\* A restored volume holds the archive's data only, unless others interfered.
THEOREM OnlyOthersMix == RSpec => []MixedOnlyByOthers
<1>1. RInv => MixedOnlyByOthers
  BY DEF RInv
<1>2. QED
  BY RInductive, <1>1, PTL

\* The exit code says what became of the volumes and of the containers.
THEOREM RestoreExitTrue == RSpec => []RestoreExitTruth
<1>1. RInv /\ Stops => RestoreExitTruth
  <2> SUFFICES ASSUME RInv, Stops PROVE RestoreExitTruth
    OBVIOUS
  <2> USE RestoreAssumption DEF RInv, ExitInv, ResultInv
  <2>1. ASSUME code \in {0, 3}
        PROVE  rpc = "done" /\ ~rerr /\ failed = {} /\ phase = "done"
    BY <2>1 DEF StopperAt
  <2>2. ASSUME code \in {0, 3}, DOMAIN plan = {}
        PROVE  code = 0 /\ changed = {} /\ broughtDown = {}
    BY <2>1, <2>2 DEF Quiet
  <2>3. ASSUME code \in {0, 3}, DOMAIN plan # {}
        PROVE  restored = selected /\ (\A v \in selected : Complete(v)) /\ Back
    BY <2>1, <2>3 DEF Stops, S!RestartedOrReported, S!AllBackOrNamed, Back
  <2>4. QED
    BY <2>2, <2>3 DEF RestoreExitTruth
<1>2. QED
  BY RInductive, StopsAlways, <1>1, PTL

\* Every behaviour of a restore is one of the stopper protocol, and whichever way
\* it ends, Stop's failure included, every container it took down runs again or
\* an error names it, unless other actors acted on it.
THEOREM RestoreImplementsStopper == RSpec => ImplementsStopper
<1>1. RInv /\ Stops => (rpc = "done" => S!AllBackOrNamed)
  <2>1. RInv /\ rpc = "done" => phase = "done"
    BY DEF RInv, StopperAt
  <2>2. QED
    BY <2>1 DEF Stops, S!RestartedOrReported
<1>2. QED
  BY RInductive, StopsAlways, RestoreIsStopper, <1>1, PTL DEF ImplementsStopper

\* The outcome that is printed when a restore stops early is true and complete.
THEOREM OutcomeTrue == RSpec => []OutcomeIsTrue
<1>1. RInv => OutcomeIsTrue
  BY DEF RInv
<1>2. QED
  BY RInductive, <1>1, PTL

-----------------------------------------------------------------------------
(* The plan, whatever was observed.                                        *)

\* A restore is refused exactly if --force is missing and one of its volumes
\* exists and has data or is in use (main.go:44); one such volume is enough.
THEOREM RefusedExactlyWhen ==
  ASSUME NEW vs, NEW obs \in [vs -> Observations], NEW busy, NEW forced \in BOOLEAN
  PROVE  P!Blocked(P!BuildPlan(vs, obs, busy, forced)) <=>
             /\ ~forced
             /\ \E v \in vs :
                    obs[v].exists /\ (~obs[v].empty \/ obs[v].users \cap busy # {})
<1> DEFINE made == P!BuildPlan(vs, obs, busy, forced)
<1>1. DOMAIN made = vs
  BY DEF P!BuildPlan
<1>2. ASSUME NEW v \in vs
      PROVE  made[v].action = "blocked" <=>
                 ~forced /\ obs[v].exists /\ (~obs[v].empty \/ obs[v].users \cap busy # {})
  <2>1. made[v].action = P!ActionFor(obs[v], obs[v].users \cap busy, forced)
    BY DEF P!BuildPlan, P!StepFor
  <2>2. obs[v].exists \in BOOLEAN /\ obs[v].empty \in BOOLEAN
    BY DEF Observations
  <2>3. QED
    BY <2>1, <2>2 DEF P!ActionFor
<1> HIDE DEF made
<1>3. QED
  BY <1>1, <1>2 DEF P!Blocked, made

\* A plan that is not blocked stops whoever is in use and mounts a volume that
\* exists, and nobody else: no volume is worked on under a user the plan forgot.
THEOREM StopsAllInUse ==
  ASSUME NEW vs, NEW obs \in [vs -> Observations], NEW busy, NEW forced \in BOOLEAN,
         ~P!Blocked(P!BuildPlan(vs, obs, busy, forced))
  PROVE  P!ToStop(P!BuildPlan(vs, obs, busy, forced)) =
             {c \in busy : \E v \in vs : obs[v].exists /\ c \in obs[v].users}
<1> DEFINE made == P!BuildPlan(vs, obs, busy, forced)
<1>1. DOMAIN made = vs
  BY DEF P!BuildPlan
<1>2. ASSUME NEW v \in vs
      PROVE  made[v].stop = IF obs[v].exists THEN obs[v].users \cap busy ELSE {}
  <2> DEFINE action == P!ActionFor(obs[v], obs[v].users \cap busy, forced)
  <2>1. /\ made[v].action = action
        /\ made[v].stop = IF action = "overwrite" THEN obs[v].users \cap busy ELSE {}
    BY DEF P!BuildPlan, P!StepFor
  <2>2. action # "blocked"
    BY <1>1, <2>1 DEF P!Blocked
  <2>3. obs[v].exists \in BOOLEAN /\ obs[v].empty \in BOOLEAN
    BY DEF Observations
  <2>4. QED
    BY <2>1, <2>2, <2>3 DEF P!ActionFor
<1> HIDE DEF made
<1>3. \A c : c \in P!ToStop(made) <=> \E v \in vs : c \in made[v].stop
  BY <1>1 DEF P!ToStop
<1>4. QED
  BY <1>2, <1>3 DEF made
=============================================================================
