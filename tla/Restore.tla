------------------------------ MODULE Restore -------------------------------
(***************************************************************************)
(* restore.Run: verify the archive, observe the host, plan (RestorePlan),  *)
(* stop the users of the volumes to overwrite (Stopper), apply the plan    *)
(* volume by volume, restart from a deferred call, and the exit code of    *)
(* cmd/dv-backup.                                                          *)
(*                                                                         *)
(* Of a volume's content only its origin is kept: data that is not the     *)
(* archive's (foreign), and how much of the archive was unpacked (filled). *)
(* Between any two steps a running container may write to a volume it      *)
(* mounts, and other actors may create or remove volumes; VolumeSteps      *)
(* bounds how often they do.  The order of the volumes is left open.       *)
(***************************************************************************)
EXTENDS Naturals, FiniteSets

CONSTANTS
    Containers, Volumes, Helpers, Mounts,             \* see Stopper
    FirstStates, FirstTimes, Now, OtherSteps, None,
    VolumeSteps                                       \* bound: see above


VARIABLES
    cstate, started, clock, inflight,
    phase, snap, wanted, todo, cur, at, stopped, toStart, failed, restartErrs,
    cancelled, budget, touched, broughtDown, revived,
    \* the volumes of the host
    exists,      \* the volumes there are
    foreign,     \* those that hold data that is not the archive's
    filled,      \* how much of the archive's data each holds
    \* the run
    rpc,         \* where Run is
    force,       \* --force
    selected,    \* the volumes to restore
    corrupt,     \* those whose entry fails Verify
    toSee,       \* those not observed yet
    vol,         \* the volume that observe or apply is at
    seen,        \* what observe found
    plan,        \* what BuildPlan decided
    left,        \* the volumes not applied yet
    restored, failedVols, untouched,   \* Result
    rerr,        \* Run's error is set
    code,        \* the exit code
    \* other actors and history
    vbudget,     \* steps other actors may still take on volumes
    vtouched,    \* volumes another actor created or removed
    changed,     \* volumes this run created, cleared or unpacked into
    mixed        \* volumes that held other data when their unpacking was done

S == INSTANCE Stopper
P == INSTANCE RestorePlan

\* None also stands for the exit code of a run that has not ended.
ASSUME RestoreAssumption ==
    S!ConstantsAssumption /\ VolumeSteps \in Nat /\ None \notin Volumes \cup {0, 1, 3}

svars == <<cstate, started, clock, inflight,
           phase, snap, wanted, todo, cur, at, stopped, toStart, failed, restartErrs,
           cancelled, budget, touched, broughtDown, revived>>
hostVars == <<exists, foreign, filled>>
planVars == <<toSee, seen, plan>>
resultVars == <<left, restored, failedVols, untouched>>
historyVars == <<vbudget, vtouched, changed, mixed>>
rvars == <<rpc, force, selected, corrupt, vol, planVars, resultVars, rerr, code>>
vars == <<svars, hostVars, rvars, historyVars>>

RPhases == {"open", "verified", "observing", "planned", "stopping", "restoring",
            "create", "clear", "clearing", "unpack", "unpacking", "deferred", "restarting", "exiting",
            "done", "killed"}

Unseen == [exists |-> FALSE, empty |-> FALSE, users |-> {}]

\* A volume that a container mounts exists.
RInit ==
    /\ S!Init
    /\ exists \in SUBSET Volumes /\ \A c \in Containers : Mounts[c] \subseteq exists
    /\ foreign \in SUBSET exists
    /\ filled = [v \in Volumes |-> "none"]
    /\ rpc = "open" /\ force \in BOOLEAN
    /\ selected \in (SUBSET Volumes) \ {{}} /\ corrupt \in SUBSET selected
    /\ toSee = selected /\ vol = None
    /\ seen = [v \in Volumes |-> Unseen] /\ plan = [v \in {} |-> Unseen]
    /\ left = selected /\ restored = {} /\ failedVols = {} /\ untouched = {}
    /\ rerr = FALSE /\ code = None
    /\ vbudget = VolumeSteps /\ vtouched = {} /\ changed = {} /\ mixed = {}

At(from, to) == rpc = from /\ rpc' = to
Settings == UNCHANGED <<force, selected, corrupt>>
GoesOn == UNCHANGED <<rerr, code>>
Errs == rerr' = TRUE /\ UNCHANGED code

----------------------------------------------------------------------------
(* Verify, observe, plan: nothing is changed yet.                          *)

\* The archive cannot be opened or the selection is empty.
OpenFails ==
    /\ At("open", "exiting") /\ S!Leave
    /\ UNCHANGED <<hostVars, vol, planVars, resultVars, historyVars>> /\ Settings /\ Errs

Verify ==
    /\ At("open", "verified") /\ corrupt = {}
    /\ UNCHANGED <<svars, hostVars, vol, planVars, resultVars, historyVars>>
    /\ Settings /\ GoesOn

VerifyFails ==
    /\ corrupt # {} /\ At("open", "exiting") /\ S!Leave
    /\ UNCHANGED <<hostVars, vol, planVars, resultVars, historyVars>> /\ Settings /\ Errs

\* --verify-only.
VerifiedOnly ==
    /\ At("verified", "exiting") /\ S!Leave
    /\ UNCHANGED <<hostVars, vol, planVars, resultVars, historyVars>> /\ Settings /\ GoesOn

List ==
    /\ At("verified", "observing") /\ S!ListContainers
    /\ UNCHANGED <<hostVars, vol, planVars, resultVars, historyVars>> /\ Settings /\ GoesOn

\* A volume that is not there is created: by request, or by a helper's mount.
Provide(v) ==
    /\ exists' = exists \cup {v}
    /\ changed' = IF v \in exists THEN changed ELSE changed \cup {v}

\* EnsureImage, ListContainers, InspectVolume or the check of a volume fails; the
\* helper that was to check it may have been created.
PreflightFails ==
    /\ rpc \in {"verified", "observing"} /\ rpc' = "exiting" /\ S!Leave
    /\ UNCHANGED <<exists, changed>> \/ (vol # None /\ Provide(vol))
    /\ UNCHANGED <<foreign, filled, vol, planVars, resultVars, vbudget, vtouched, mixed>>
    /\ Settings /\ Errs

\* observe: the users, by the listing, and whether the volume exists.
UsersListed(v) ==
    {c \in Containers : snap[c] # "gone" /\ ~S!IsHelper(c) /\ S!UsesVolume(c, v)}

Inspect(v) ==
    /\ vol = None /\ v \in toSee /\ ~cancelled /\ At("observing", "observing")
    /\ toSee' = toSee \ {v}
    /\ seen' = [seen EXCEPT ![v] = [exists |-> v \in exists, empty |-> FALSE,
                                    users |-> UsersListed(v)]]
    /\ vol' = IF v \in exists THEN v ELSE None
    /\ UNCHANGED <<svars, hostVars, plan, resultVars, historyVars>> /\ Settings /\ GoesOn

\* observe: a helper looks whether the volume is empty.
CheckEmpty ==
    /\ vol # None /\ ~cancelled /\ At("observing", "observing")
    /\ Provide(vol)
    /\ seen' = [seen EXCEPT ![vol].empty = vol \notin foreign]
    /\ vol' = None
    /\ UNCHANGED <<svars, foreign, filled, toSee, plan, resultVars, vbudget, vtouched, mixed>>
    /\ Settings /\ GoesOn

MakePlan ==
    /\ toSee = {} /\ vol = None /\ At("observing", "planned")
    /\ plan' = P!BuildPlan(selected, seen, {c \in Containers : S!InUse(snap[c])}, force)
    /\ UNCHANGED <<svars, hostVars, vol, toSee, seen, resultVars, historyVars>>
    /\ Settings /\ GoesOn

\* ErrBlocked.
Refuse ==
    /\ P!Blocked(plan) /\ At("planned", "exiting") /\ S!Leave
    /\ UNCHANGED <<hostVars, vol, planVars, resultVars, historyVars>> /\ Settings /\ Errs

----------------------------------------------------------------------------
(* Stop, then apply the steps.                                             *)

\* The volumes whose users the plan stops.
Overwritten == {v \in DOMAIN plan : plan[v].action = "overwrite"}

CallStop ==
    /\ ~P!Blocked(plan) /\ At("planned", "stopping") /\ S!BeginStop(Overwritten)
    /\ UNCHANGED <<hostVars, vol, planVars, resultVars, historyVars>> /\ Settings /\ GoesOn

StopGoesOn ==
    /\ At("stopping", "stopping")
    /\ S!SendStop \/ S!StopOk \/ \E c \in Containers : S!ReadStartedAt(c)
    /\ UNCHANGED <<hostVars, vol, planVars, resultVars, historyVars>> /\ Settings /\ GoesOn

\* Every step of the plan is reported untouched.
StopErrs ==
    /\ untouched' = left
    /\ UNCHANGED <<hostVars, vol, planVars, left, restored, failedVols, historyVars>>
    /\ Settings /\ Errs

\* Mutant: Restart is deferred only once Stop has succeeded.
StopFailsAtOnce ==
    /\ At("stopping", "exiting") /\ (S!StartedAtFails \/ S!StopRefused) /\ StopErrs

StopFails ==
    /\ At("stopping", "deferred") /\ (S!StartedAtFails \/ S!StopRefused) /\ StopErrs

StopAnswerLost == At("stopping", "deferred") /\ S!StopLost /\ StopErrs

StopSucceeds ==
    /\ At("stopping", "restoring") /\ S!StopReturns
    /\ UNCHANGED <<hostVars, vol, planVars, resultVars, historyVars>> /\ Settings /\ GoesOn

FirstStage(a) == IF a = "create" THEN "create" ELSE IF a = "overwrite" THEN "clear" ELSE "unpack"

BeginVolume(v) ==
    /\ v \in left /\ At("restoring", FirstStage(plan[v].action))
    /\ vol' = v /\ left' = left \ {v}
    /\ UNCHANGED <<svars, hostVars, planVars, restored, failedVols, untouched, historyVars>>
    /\ Settings /\ GoesOn

\* The daemon takes the creation of an existing volume for done.
CreateVolume ==
    /\ ~cancelled /\ At("create", "unpack")
    /\ Provide(vol)
    /\ UNCHANGED <<svars, foreign, filled, vol, planVars, resultVars, vbudget, vtouched, mixed>>
    /\ Settings /\ GoesOn

\* ClearHelper: from here on the volume may have lost some of its data.
StartClear ==
    /\ ~cancelled /\ At("clear", "clearing")
    /\ exists' = exists \cup {vol} /\ changed' = changed \cup {vol}
    /\ UNCHANGED <<svars, foreign, filled, vol, planVars, resultVars, vbudget, vtouched, mixed>>
    /\ Settings /\ GoesOn

\* Mutant: the exit status of the clear helper is not looked at.
ClearedUnchecked ==
    /\ At("clearing", "unpack")
    /\ foreign' \in {foreign, foreign \ {vol}}
    /\ UNCHANGED <<svars, exists, filled, vol, planVars, resultVars, historyVars>>
    /\ Settings /\ GoesOn

Cleared ==
    /\ At("clearing", "unpack")
    /\ foreign' = foreign \ {vol}
    /\ UNCHANGED <<svars, exists, filled, vol, planVars, resultVars, historyVars>>
    /\ Settings /\ GoesOn

\* OpenVolume and RestoreHelper: from here on some of the archive is there.
StartUnpack ==
    /\ ~cancelled /\ At("unpack", "unpacking")
    /\ exists' = exists \cup {vol} /\ changed' = changed \cup {vol}
    /\ filled' = [filled EXCEPT ![vol] = "part"]
    /\ UNCHANGED <<svars, foreign, vol, planVars, resultVars, vbudget, vtouched, mixed>>
    /\ Settings /\ GoesOn

\* apply has succeeded: the volume is listed as restored.
Listed ==
    /\ mixed' = IF vol \in foreign THEN mixed \cup {vol} ELSE mixed
    /\ restored' = restored \cup {vol} /\ vol' = None
    /\ UNCHANGED <<svars, exists, foreign, planVars, left, failedVols, untouched,
                   vbudget, vtouched, changed>>
    /\ Settings /\ GoesOn

\* Mutant: the exit status of tar is not looked at.
UnpackedUnchecked ==
    /\ At("unpacking", "restoring")
    /\ filled' \in {filled, [filled EXCEPT ![vol] = "all"]}
    /\ Listed

\* Mutant: a volume that is done is not listed.
UnpackedUnlisted ==
    /\ At("unpacking", "restoring")
    /\ filled' = [filled EXCEPT ![vol] = "all"] /\ vol' = None
    /\ UNCHANGED <<svars, exists, foreign, planVars, resultVars, historyVars>>
    /\ Settings /\ GoesOn

Unpacked ==
    /\ At("unpacking", "restoring")
    /\ filled' = [filled EXCEPT ![vol] = "all"]
    /\ Listed

\* Mutant: the list of untouched volumes starts one step early.
VolumeFailsOffByOne ==
    /\ rpc \in {"create", "clear", "clearing", "unpack", "unpacking"} /\ rpc' = "deferred"
    /\ UNCHANGED <<exists, changed>> \/ Provide(vol)
    /\ UNCHANGED filled
    /\ foreign' = foreign \/ (rpc = "clearing" /\ foreign' = foreign \ {vol})
    /\ failedVols' = {vol} /\ untouched' = left \cup {vol}
    /\ UNCHANGED <<svars, vol, planVars, left, restored, vbudget, vtouched, mixed>>
    /\ Settings /\ Errs

\* apply returns an error; the volume may have been created, by request or by
\* the mount of a helper, and cleared.
VolumeFails ==
    /\ rpc \in {"create", "clear", "clearing", "unpack", "unpacking"} /\ rpc' = "deferred"
    /\ UNCHANGED <<exists, changed>> \/ Provide(vol)
    /\ UNCHANGED filled
    /\ foreign' = foreign \/ (rpc = "clearing" /\ foreign' = foreign \ {vol})
    /\ failedVols' = {vol} /\ untouched' = left
    /\ UNCHANGED <<svars, vol, planVars, left, restored, vbudget, vtouched, mixed>>
    /\ Settings /\ Errs

AllRestored ==
    /\ left = {} /\ At("restoring", "deferred")
    /\ UNCHANGED <<svars, hostVars, vol, planVars, resultVars, historyVars>>
    /\ Settings /\ GoesOn

----------------------------------------------------------------------------
(* The deferred Restart and the exit code.                                 *)

CallRestart ==
    /\ At("deferred", "restarting") /\ S!BeginRestart
    /\ UNCHANGED <<hostVars, vol, planVars, resultVars, historyVars>> /\ Settings /\ GoesOn

RestartGoesOn ==
    /\ At("restarting", "restarting")
    /\ \E c \in Containers : S!StartOk(c) \/ S!StartFails(c)
    /\ UNCHANGED <<hostVars, vol, planVars, resultVars, historyVars>> /\ Settings /\ GoesOn

RestartDone ==
    /\ At("restarting", "exiting") /\ S!RestartReturns
    /\ UNCHANGED <<hostVars, vol, planVars, resultVars, historyVars>> /\ Settings /\ GoesOn

Exit ==
    /\ At("exiting", "done")
    /\ code' = IF rerr THEN 1 ELSE IF restartErrs # {} THEN 3 ELSE 0
    /\ UNCHANGED <<svars, hostVars, vol, planVars, resultVars, rerr, historyVars>> /\ Settings

----------------------------------------------------------------------------
(* Signals, the daemon, the containers and other actors.                   *)

Signal ==
    /\ S!Cancel
    /\ UNCHANGED <<hostVars, rvars, historyVars>>

KillRun ==
    /\ rpc \notin {"done", "killed"} /\ rpc' = "killed"
    /\ S!Kill \/ (phase = "done" /\ UNCHANGED svars)
    /\ UNCHANGED <<hostVars, vol, planVars, resultVars, historyVars>> /\ Settings /\ GoesOn

Docker ==
    /\ S!DaemonStep
    /\ UNCHANGED <<hostVars, rvars, historyVars>>

OtherContainerStep ==
    /\ S!OtherStep
    /\ UNCHANGED <<hostVars, rvars, historyVars>>

ContainerWrites(c) ==
    /\ cstate[c] = "running" /\ Mounts[c] # {}
    /\ \E v \in Mounts[c] : foreign' = foreign \cup {v}
    /\ UNCHANGED <<svars, exists, filled, rvars, historyVars>>

OtherVolumeStep(v) ==
    /\ vbudget > 0 /\ vbudget' = vbudget - 1
    /\ vtouched' = vtouched \cup {v}
    /\ UNCHANGED <<svars, rvars, changed, mixed>>

\* A volume is created and, perhaps, data copied into it.
OtherCreates(v) ==
    /\ v \notin exists /\ exists' = exists \cup {v}
    /\ foreign' \in {foreign, foreign \cup {v}}
    /\ UNCHANGED filled /\ OtherVolumeStep(v)

\* The daemon removes no volume that a container mounts, a helper included.
OtherRemoves(v) ==
    /\ v \in exists /\ exists' = exists \ {v}
    /\ \A c \in Containers : cstate[c] = "gone" \/ ~S!UsesVolume(c, v)
    /\ ~(vol = v /\ rpc \in {"clearing", "unpacking"})
    /\ foreign' = foreign \ {v} /\ filled' = [filled EXCEPT ![v] = "none"]
    /\ OtherVolumeStep(v)

----------------------------------------------------------------------------
Preflight ==
    \/ OpenFails \/ Verify \/ VerifyFails \/ VerifiedOnly \/ List \/ PreflightFails
    \/ \E v \in Volumes : Inspect(v)
    \/ CheckEmpty \/ MakePlan \/ Refuse
Stopping == CallStop \/ StopGoesOn \/ StopFails \/ StopSucceeds
Applying ==
    \/ \E v \in Volumes : BeginVolume(v)
    \/ CreateVolume \/ StartClear \/ Cleared \/ StartUnpack \/ Unpacked
    \/ VolumeFails \/ AllRestored
Deferred == CallRestart \/ RestartGoesOn \/ RestartDone \/ Exit

Run == Preflight \/ Stopping \/ Applying \/ Deferred

Environment ==
    \/ StopAnswerLost \/ Signal \/ KillRun \/ OtherContainerStep
    \/ \E c \in Containers : ContainerWrites(c)
    \/ \E v \in Volumes : OtherCreates(v) \/ OtherRemoves(v)

RNext == Run \/ Docker \/ Environment

RSpec == RInit /\ [][RNext]_vars

----------------------------------------------------------------------------
(* Properties.                                                             *)

\* Every variable has its type; the plan stops the listed users of what it
\* overwrites; between two volumes every volume is either restored or left.
RTypeOK ==
    /\ exists \subseteq Volumes /\ foreign \subseteq exists
    /\ filled \in [Volumes -> {"none", "part", "all"}]
    /\ rpc \in RPhases /\ force \in BOOLEAN
    /\ selected \subseteq Volumes /\ corrupt \subseteq selected
    /\ toSee \subseteq selected /\ left \subseteq selected
    /\ vol \in selected \cup {None}
    /\ seen \in [Volumes -> [exists : BOOLEAN, empty : BOOLEAN, users : SUBSET Containers]]
    /\ DOMAIN plan \in {{}, selected}
    /\ \A v \in DOMAIN plan : plan[v].action \in P!Actions
    /\ restored \cup failedVols \cup untouched \subseteq selected
    /\ rerr \in BOOLEAN /\ code \in {None, 0, 1, 3}
    /\ vbudget \in 0..VolumeSteps
    /\ vtouched \cup changed \cup mixed \subseteq Volumes
    /\ rpc = "planned" => P!ToStop(plan) = S!UsersOf(Overwritten, snap)
    /\ rpc = "restoring" => restored \cup left = selected

\* Until every selected volume of the archive has passed Verify and no volume of
\* the plan is blocked, nothing on the host is changed and no container stopped
\* (cmd/dv-backup: "changes nothing at all"): a run that refuses refuses as a
\* whole.  A volume that another actor removed may come back empty, through the
\* mount of the helper that looks into it.
RefusalChangesNothing ==
    corrupt # {} \/ (\E v \in DOMAIN plan : plan[v].action = "blocked") =>
        /\ inflight = {} /\ broughtDown = {}
        /\ changed \subseteq (IF corrupt # {} THEN {} ELSE vtouched)

\* While a step works on a volume no container runs with it mounted, but a
\* helper or one that another actor acted on: whatever the plan does not stop
\* was not in use ("Containers are already stopped", restore.apply).
HeldWhileRestored ==
    rpc \in {"clear", "clearing", "unpack", "unpacking"} =>
        \A c \in Containers \ (Helpers \cup touched) :
            S!UsesVolume(c, vol) => ~S!InUse(cstate[c])

\* A restored volume holds the archive's data and nothing else when its step is
\* done, unless another actor put the volume there or started a container that
\* mounts it: data is cleared before, and its writers are stopped.
MixedOnlyByOthers ==
    \A v \in mixed :
        v \in vtouched \/ \E c \in touched \cup Helpers : S!UsesVolume(c, v)

Complete(v) == filled[v] = "all" \/ v \in vtouched
Back == \A c \in broughtDown \ touched : S!InUse(cstate[c]) \/ c \in restartErrs

\* Exit code 0 means that every selected volume was restored and every container
\* is back, or that only a verification was asked for; 3 that the volumes are
\* restored but a container named in the output may be down; 1 that at least one
\* volume was not restored (app.finish).
RestoreExitTruth ==
    /\ code \in {0, 3} =>
        IF DOMAIN plan = {}
        THEN code = 0 /\ changed = {} /\ broughtDown = {}
        ELSE restored = selected /\ (\A v \in selected : Complete(v)) /\ Back
    /\ code = 0 => restartErrs = {}
    /\ code = 1 => restored # selected

\* The outcome printed when a restore stops early is true and complete: each
\* selected volume is in exactly one of the three lists, the restored ones are
\* whole and the untouched ones unchanged, so that the printed command to retry
\* the failed and untouched ones is all that is left to do (printOutcome).
OutcomeIsTrue ==
    rerr /\ DOMAIN plan # {} /\ ~P!Blocked(plan) =>
        /\ restored \cup failedVols \cup untouched = selected
        /\ restored \cap failedVols = {}
        /\ untouched \cap (restored \cup failedVols) = {}
        /\ \A v \in restored : Complete(v)
        /\ untouched \cap changed \subseteq vtouched

\* Every behaviour of a restore is a behaviour of the stopper protocol, whose
\* theorems so hold of it, and goes through the protocol to its end, which the
\* protocol alone does not demand: however the run ends, every container it took
\* down is back or named in the output, or another actor interfered.  No return
\* of Run misses the deferred Restart, whether Stop, a volume or nothing failed.
ImplementsStopper == S!Spec /\ [](rpc = "done" => S!AllBackOrNamed)

\* main.go:44: "Without --force, restore refuses to touch a volume that contains
\* data or is in use".  Refuted: that is judged before the plan is made, and a
\* container started, or a volume created, since then is not seen.
UnforcedOnlyEmpty == ~force => mixed = {}

=============================================================================
