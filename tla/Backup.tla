------------------------------- MODULE Backup -------------------------------
(***************************************************************************)
(* backup.Run, composed of the stopper (Stopper) and the archive writer    *)
(* (ArchiveWriter), with backupVolume, the two deferred calls and the exit *)
(* code of cmd/dv-backup.  Every action of the run takes a step of the     *)
(* stopper, a step of the writer, both or neither, so that a behaviour of  *)
(* this module is also one of each of those.                               *)
(*                                                                         *)
(* While a helper reads a volume, any container that is running with the   *)
(* volume mounted may write to it: the archived data is then torn.         *)
(***************************************************************************)
EXTENDS Naturals, Sequences, FiniteSets

CONSTANTS
    Containers, Volumes, Helpers, Mounts,     \* see Stopper
    FirstStates, FirstTimes, Now, OtherSteps,
    Self, Foreign, None                       \* see ArchiveWriter

VARIABLES
    cstate, started, clock, inflight,
    phase, snap, wanted, todo, cur, at, stopped, toStart, failed, restartErrs,
    cancelled, budget, touched, broughtDown, revived,
    partial, final, data, synced, wpc, adding, listed,
    bpc,           \* where Run is
    noStop,        \* --no-stop
    selected,      \* the volumes to back up
    left,          \* those not archived yet
    helper,        \* the helper of the volume at hand, or how it ended
    inconsistent,  \* the volumes the manifest marks consistent: false
    torn,          \* <<volume, container>>: it wrote while the volume was read
    err,           \* Run's error is set
    code           \* the exit code

S == INSTANCE Stopper
W == INSTANCE ArchiveWriter WITH Writers <- {Self}

\* None also stands for the exit code of a run that has not ended.
ASSUME BackupAssumption ==
    S!ConstantsAssumption /\ W!WriterAssumption /\ None \notin {0, 1, 3}

svars == <<cstate, started, clock, inflight,
           phase, snap, wanted, todo, cur, at, stopped, toStart, failed, restartErrs,
           cancelled, budget, touched, broughtDown, revived>>
wvars == <<partial, final, data, synced, wpc, adding, listed>>
bvars == <<bpc, noStop, selected, left, helper, inconsistent, torn, err, code>>
vars == <<svars, wvars, bvars>>

BPhases == {"preflight", "listed", "checked", "open", "stopping", "volumes", "reading",
            "draining", "finishing", "deferred", "restarting", "aborting", "exiting",
            "done", "killed"}

\* A helper that is not there, that runs, or that ended: tar's exit status, or
\* an error of RunHelper.
HelperStates == {"none", "running", "exit0", "exit1", "exit2", "error"}

BInit ==
    /\ S!Init /\ W!WInit
    /\ bpc = "preflight"
    /\ noStop \in BOOLEAN
    /\ selected \in (SUBSET Volumes) \ {{}} /\ left = selected
    /\ helper = "none"
    /\ inconsistent = {} /\ torn = {}
    /\ err = FALSE /\ code = None

At(from, to) == bpc = from /\ bpc' = to

\* What an action leaves alone: the settings of the run and, of its results,
\* all but the ones given.
Settings == UNCHANGED <<noStop, selected>>
VolumeState == <<left, helper, inconsistent, torn>>

\* The run goes on, or returns an error to the deferred calls or the caller.
GoesOn == UNCHANGED <<err, code>>
Errs == err' = TRUE /\ UNCHANGED code

----------------------------------------------------------------------------
(* Preflight: everything that can fail before any state changes.           *)

List ==
    /\ At("preflight", "listed") /\ S!ListContainers
    /\ UNCHANGED <<wvars, VolumeState>> /\ Settings /\ GoesOn

\* Info, EnsureImage, ListVolumes, the selection or ListContainers fails.
PreflightFails ==
    /\ At("preflight", "exiting") /\ S!Leave
    /\ UNCHANGED <<wvars, VolumeState>> /\ Settings /\ Errs

CheckName ==
    /\ final = None /\ At("listed", "checked") /\ W!StatFinal(Self)
    /\ UNCHANGED <<svars, VolumeState>> /\ Settings /\ GoesOn

NameTaken ==
    /\ final # None /\ At("listed", "exiting") /\ W!StatFinal(Self) /\ S!Leave
    /\ UNCHANGED VolumeState /\ Settings /\ Errs

CreatePartial ==
    /\ At("checked", "open") /\ W!OpenPartial(Self)
    /\ UNCHANGED <<svars, VolumeState>> /\ Settings /\ GoesOn

CreateFails ==
    /\ At("checked", "exiting") /\ W!OpenFails(Self) /\ S!Leave
    /\ UNCHANGED VolumeState /\ Settings /\ Errs

(* Stopping the users of the selected volumes.                             *)

CallStop ==
    /\ ~noStop /\ At("open", "stopping") /\ S!BeginStop(selected)
    /\ UNCHANGED <<wvars, VolumeState>> /\ Settings /\ GoesOn

NoStopCall ==
    /\ noStop /\ At("open", "volumes") /\ S!SkipStop
    /\ UNCHANGED <<wvars, VolumeState>> /\ Settings /\ GoesOn

StopGoesOn ==
    /\ At("stopping", "stopping")
    /\ S!SendStop \/ S!StopOk \/ \E c \in Containers : S!ReadStartedAt(c)
    /\ UNCHANGED <<wvars, VolumeState>> /\ Settings /\ GoesOn

\* Mutant: Restart is deferred only once Stop has succeeded.
StopFailsAtOnce ==
    /\ At("stopping", "aborting")
    /\ S!StartedAtFails \/ S!StopRefused
    /\ UNCHANGED <<wvars, VolumeState>> /\ Settings /\ Errs

StopFails ==
    /\ At("stopping", "deferred")
    /\ S!StartedAtFails \/ S!StopRefused
    /\ UNCHANGED <<wvars, VolumeState>> /\ Settings /\ Errs

\* StopContainer's answer is lost or the context is cancelled while it waits.
StopAnswerLost ==
    /\ At("stopping", "deferred") /\ S!StopLost
    /\ UNCHANGED <<wvars, VolumeState>> /\ Settings /\ Errs

StopSucceeds ==
    /\ At("stopping", "volumes") /\ S!StopReturns
    /\ UNCHANGED <<wvars, VolumeState>> /\ Settings /\ GoesOn

----------------------------------------------------------------------------
(* backupVolume: a goroutine runs the helper, AddVolume reads its output.  *)

\* Under a cancelled context the helper is never created.
StartVolume(v) ==
    /\ v \in left /\ At("volumes", "reading") /\ W!BeginAdd(Self, v)
    /\ helper' = IF cancelled THEN "error" ELSE "running"
    /\ UNCHANGED <<svars, left, inconsistent, torn>> /\ Settings /\ GoesOn

\* A container writes to the volume while tar reads it.
ContainerWrites(c) ==
    /\ At("reading", "reading") /\ helper = "running"
    /\ cstate[c] = "running" /\ S!UsesVolume(c, adding[Self])
    /\ torn' = torn \cup {<<adding[Self], c>>}
    /\ UNCHANGED <<svars, wvars, left, helper, inconsistent>> /\ Settings /\ GoesOn

\* tar ends, with status 1 if it noticed that files changed (it may not); or
\* RunHelper fails: cancelled, connection lost, image gone.
HelperEnds(h) ==
    /\ bpc \in {"reading", "draining"} /\ bpc' = bpc /\ helper = "running"
    /\ helper' = h
    /\ UNCHANGED <<svars, wvars, left, inconsistent, torn>> /\ Settings /\ GoesOn

\* A container that the listing found in use with the volume (anyInUse).
AnyInUse(v) == \E c \in Containers \ Helpers : S!UsesVolume(c, v) /\ S!InUse(snap[c])

Accepted == helper = "exit0" \/ (helper = "exit1" /\ noStop)

\* Mutant: the containers in use do not count.
VolumeDoneUnmarked ==
    /\ Accepted /\ At("reading", "volumes") /\ W!AppendVolume(Self)
    /\ left' = left \ {adding[Self]}
    /\ inconsistent' = inconsistent \cup {v \in {adding[Self]} : helper = "exit1"}
    /\ helper' = "none"
    /\ UNCHANGED <<svars, torn>> /\ Settings /\ GoesOn

\* Mutant: tar's exit status 2 is accepted, but the volume is not kept.
VolumeRejectedSilently ==
    /\ helper \in {"exit1", "exit2"} /\ ~Accepted
    /\ At("reading", "volumes") /\ W!AddFails(Self)
    /\ left' = left \ {adding[Self]} /\ helper' = "none"
    /\ UNCHANGED <<svars, inconsistent, torn>> /\ Settings /\ GoesOn

\* AddVolume read to the end of the stream and the exit status is accepted.
VolumeDone ==
    /\ Accepted /\ At("reading", "volumes") /\ W!AppendVolume(Self)
    /\ left' = left \ {adding[Self]}
    /\ inconsistent' = inconsistent \cup
           {v \in {adding[Self]} : helper = "exit1" \/ (noStop /\ AnyInUse(v))}
    /\ helper' = "none"
    /\ UNCHANGED <<svars, torn>> /\ Settings /\ GoesOn

\* The entry is in the archive, but tar failed.
VolumeRejected ==
    /\ helper \in {"exit1", "exit2"} /\ ~Accepted
    /\ At("reading", "deferred") /\ W!AppendVolume(Self)
    /\ helper' = "none"
    /\ UNCHANGED <<svars, left, inconsistent, torn>> /\ Settings /\ Errs

\* AddVolume fails, of itself or because the pipe was closed with RunHelper's
\* error; it could also fail before it created its temporary file.
AddVolumeFails ==
    /\ At("reading", "draining") /\ W!AddFails(Self)
    /\ UNCHANGED <<svars, VolumeState>> /\ Settings /\ GoesOn

\* Mutant: backupVolume returns without waiting for the goroutine.
DrainedAtOnce ==
    /\ At("draining", "deferred")
    /\ UNCHANGED <<svars, wvars, VolumeState>> /\ Settings /\ Errs

\* backupVolume waits for the goroutine before it returns the error.
Drained ==
    /\ helper # "running" /\ At("draining", "deferred")
    /\ helper' = "none"
    /\ UNCHANGED <<svars, wvars, left, inconsistent, torn>> /\ Settings /\ Errs

----------------------------------------------------------------------------
(* Finish.                                                                 *)

BeginFinish ==
    /\ left = {} /\ At("volumes", "finishing") /\ W!WriteManifest(Self)
    /\ UNCHANGED <<svars, VolumeState>> /\ Settings /\ GoesOn

FinishGoesOn ==
    /\ At("finishing", "finishing")
    /\ W!WriteReadme(Self) \/ W!CloseTar(Self) \/ W!Sync(Self) \/ W!CloseFile(Self)
    /\ UNCHANGED <<svars, VolumeState>> /\ Settings /\ GoesOn

Publish ==
    /\ At("finishing", "deferred") /\ W!Rename(Self)
    /\ UNCHANGED <<svars, VolumeState>> /\ Settings /\ GoesOn

\* Mutant: Finish is tried again with the same writer.
FinishRetried ==
    /\ At("finishing", "volumes")
    /\ wpc' = [wpc EXCEPT ![Self] = "open"]
    /\ UNCHANGED <<partial, final, data, synced, adding, listed>>
    /\ UNCHANGED <<svars, VolumeState>> /\ Settings /\ GoesOn

FinishErrs ==
    /\ bpc = "finishing" \/ (bpc = "volumes" /\ left = {})
    /\ bpc' = "deferred" /\ W!FinishFails(Self)
    /\ UNCHANGED <<svars, VolumeState>> /\ Settings /\ Errs

(* The deferred calls, last in first out: Restart, then Abort on an error. *)

CallRestart ==
    /\ At("deferred", "restarting") /\ S!BeginRestart
    /\ UNCHANGED <<wvars, VolumeState>> /\ Settings /\ GoesOn

RestartGoesOn ==
    /\ At("restarting", "restarting")
    /\ \E c \in Containers : S!StartOk(c) \/ S!StartFails(c)
    /\ UNCHANGED <<wvars, VolumeState>> /\ Settings /\ GoesOn

\* Mutant: an interrupted run does not abort the archive.
RestartDoneNoAbort ==
    /\ bpc = "restarting"
    /\ bpc' = IF err /\ ~cancelled THEN "aborting" ELSE "exiting"
    /\ S!RestartReturns
    /\ UNCHANGED <<wvars, VolumeState>> /\ Settings /\ GoesOn

RestartDone ==
    /\ bpc = "restarting" /\ bpc' = IF err THEN "aborting" ELSE "exiting"
    /\ S!RestartReturns
    /\ UNCHANGED <<wvars, VolumeState>> /\ Settings /\ GoesOn

CallAbort ==
    /\ At("aborting", "exiting")
    /\ W!Abort(Self) \/ W!AbortFails(Self)
    /\ UNCHANGED <<svars, VolumeState>> /\ Settings /\ GoesOn

\* Mutant: containers that did not restart are only printed.
ExitIgnoresRestart ==
    /\ At("exiting", "done")
    /\ code' = IF err THEN 1 ELSE 0
    /\ UNCHANGED <<svars, wvars, VolumeState, err>> /\ Settings

\* app.finish: an error wins over containers that did not restart.
Exit ==
    /\ At("exiting", "done")
    /\ code' = IF err THEN 1 ELSE IF restartErrs # {} THEN 3 ELSE 0
    /\ UNCHANGED <<svars, wvars, VolumeState, err>> /\ Settings

----------------------------------------------------------------------------
(* Signals, the daemon and other actors.                                   *)

Signal ==
    /\ S!Cancel
    /\ UNCHANGED <<wvars, bvars>>

KillRun ==
    /\ bpc \notin {"done", "killed"} /\ bpc' = "killed"
    /\ S!Kill \/ (phase = "done" /\ UNCHANGED svars)
    /\ W!KillWriter(Self) \/ (wpc[Self] \in {"done", "refused", "aborted", "left"} /\ UNCHANGED wvars)
    /\ UNCHANGED VolumeState /\ Settings /\ GoesOn

Docker ==
    /\ S!DaemonStep
    /\ UNCHANGED <<wvars, bvars>>

OtherContainerStep ==
    /\ S!OtherStep
    /\ UNCHANGED <<wvars, bvars>>

OtherFileStep ==
    /\ W!OtherPlacesFinal \/ W!OtherRemovesLeftover(Self)
    /\ UNCHANGED <<svars, bvars>>

----------------------------------------------------------------------------
Preflight == List \/ PreflightFails \/ CheckName \/ NameTaken \/ CreatePartial \/ CreateFails
Stopping == CallStop \/ NoStopCall \/ StopGoesOn \/ StopFails \/ StopSucceeds
Reading ==
    \/ \E v \in Volumes : StartVolume(v)
    \/ \E h \in {"exit0", "exit1", "exit2", "error"} : HelperEnds(h)
    \/ VolumeDone \/ VolumeRejected \/ AddVolumeFails \/ Drained
Finishing == BeginFinish \/ FinishGoesOn \/ Publish \/ FinishErrs
Deferred == CallRestart \/ RestartGoesOn \/ RestartDone \/ CallAbort \/ Exit

Run == Preflight \/ Stopping \/ Reading \/ Finishing \/ Deferred

Environment ==
    \/ StopAnswerLost \/ Signal \/ KillRun \/ OtherContainerStep \/ OtherFileStep
    \/ \E c \in Containers : ContainerWrites(c)

BNext == Run \/ Docker \/ Environment

BSpec == BInit /\ [][BNext]_vars

----------------------------------------------------------------------------
(* Properties.                                                             *)

\* Every variable of this module has its type; between two volumes the archive
\* holds the volumes that are done and no others.
BTypeOK ==
    /\ bpc \in BPhases /\ noStop \in BOOLEAN
    /\ selected \subseteq Volumes /\ left \subseteq selected
    /\ helper \in HelperStates
    /\ inconsistent \subseteq Volumes
    /\ torn \subseteq Volumes \X Containers
    /\ err \in BOOLEAN /\ code \in {None, 0, 1, 3}
    /\ bpc = "volumes" => listed[Self] = selected \ left

Published == final = Self

\* A container that wrote to a volume while it was archived, in an archive that
\* was published with the volume marked consistent, is one that another actor
\* started, stopped or removed during the run, or the helper of another run:
\* stopping the users, or the inconsistent mark of --no-stop, covers all the
\* others (backup.Run, backupVolume).
TornOnlyByOthers ==
    Published =>
        \A v \in selected \ inconsistent : \A c \in Containers :
            <<v, c>> \in torn => c \in touched \cup Helpers

\* Exit code 0 means that the archive was published with every selected volume
\* in it and every container this run took down was brought back; 3 that the
\* archive is there but a container named in the output is not running; 1 that
\* nothing was published (cmd/dv-backup: app.finish, "Exit codes").
ExitTellsTruth ==
    /\ code = 0 =>
        /\ wpc[Self] = "done" /\ listed[Self] = selected
        /\ \A c \in broughtDown \ touched : S!InUse(cstate[c])
    /\ code = 3 =>
        /\ wpc[Self] = "done" /\ listed[Self] = selected
        /\ restartErrs # {}
        /\ \A c \in broughtDown \ touched : S!InUse(cstate[c]) \/ c \in restartErrs
    /\ code = 1 => ~Published

\* "The archive is removed on error" (backup.go:36): whatever failed, and in
\* whatever order the deferred calls ran, no archive of this run is left under
\* its final name, nor under .partial unless removing it failed.
NoArchiveOnError ==
    err =>
        /\ ~Published
        /\ bpc = "done" => (partial = Self => wpc[Self] = "left")

\* While RunHelper has not returned for a helper of this run, no container but a
\* helper or one another actor acted on runs with a selected volume: Run waits
\* (<-done) before the deferred Restart, on every path out of backupVolume, and
\* stops the users before the first helper starts.  (That the container itself is
\* gone depends on its removal, whose error RunHelper discards.)
HeldWhileRead ==
    helper = "running" /\ ~noStop =>
        \A c \in Containers \ (Helpers \cup touched) : \A v \in selected :
            S!UsesVolume(c, v) => ~S!InUse(cstate[c])

\* Every behaviour of a backup is a behaviour of the stopper protocol, whose
\* theorems so hold of it, and goes through the protocol to its end, which the
\* protocol alone does not demand: however the run ends, every container it took
\* down is back or named in the output, or another actor interfered.  No return
\* of Run misses the deferred Restart, whether Stop, a volume or nothing failed.
ImplementsStopper == S!Spec /\ [](bpc = "done" => S!AllBackOrNamed)

\* ... and of the archive writer's.
ImplementsWriter == W!WSpec

V == INSTANCE VolumeCall WITH
    stage <- IF bpc \in {"reading", "draining", "killed"} THEN bpc
             ELSE IF err THEN "over" ELSE "idle",
    helper <- IF helper = "exit0" THEN "ok"
              ELSE IF helper \in {"exit1", "exit2"} THEN "failed" ELSE helper

\* ... and it uses backupVolume by its contract alone, which BackupVolume is
\* shown to keep: what holds here holds of the run with the pipe, the goroutine
\* and RunHelper in place of the helper's one step.
ImplementsVolumeCall == V!CSpec

\* README.md:118: "consistent: true # false if --no-stop and a using container
\* was running".  Refuted: whether a container uses the volume is read from a
\* listing made before anything is archived, and a container started since is
\* not in it; tar need not notice the change.
TornIsMarked ==
    Published /\ noStop =>
        \A v \in selected \ inconsistent : \A c \in Containers \ Helpers : <<v, c>> \notin torn

=============================================================================
