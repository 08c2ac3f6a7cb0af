----------------------------- MODULE VolumeCall ------------------------------
(***************************************************************************)
(* What backup.backupVolume promises backup.Run: the volume at hand counts *)
(* as done only when its helper has ended and the exit status is accepted, *)
(* and no call returns while its helper is at work, which means: while     *)
(* RunHelper has not returned.  Backup uses the call as it is here;        *)
(* BackupVolume, with the pipe, the goroutine and RunHelper, implements it.*)
(***************************************************************************)

VARIABLES
    stage,    \* where the call is
    helper,   \* its helper, or how that ended
    noStop    \* --no-stop

cvars == <<stage, helper, noStop>>

\* Between two calls; AddVolume reads; it has failed; no further call is made;
\* the process is dead.
Stages == {"idle", "reading", "draining", "over", "killed"}

\* "failed" is an exit status of 1 or 2, "error" an error of RunHelper.
Ended == {"ok", "failed", "error"}

CInit == stage = "idle" /\ helper = "none" /\ noStop \in BOOLEAN

Goto(from, to) == stage = from /\ stage' = to

\* Under a cancelled context RunHelper fails before there is a helper.
Call ==
    /\ Goto("idle", "reading") /\ helper' \in {"running", "error"}
    /\ UNCHANGED noStop

HelperEnds ==
    /\ stage \in {"reading", "draining"} /\ helper = "running"
    /\ helper' \in Ended
    /\ UNCHANGED <<stage, noStop>>

Accept ==
    /\ helper = "ok" \/ (helper = "failed" /\ noStop)
    /\ Goto("reading", "idle") /\ helper' = "none"
    /\ UNCHANGED noStop

Reject ==
    /\ helper = "failed"
    /\ Goto("reading", "over") /\ helper' = "none"
    /\ UNCHANGED noStop

AddVolumeFails == Goto("reading", "draining") /\ UNCHANGED <<helper, noStop>>

Drained ==
    /\ helper \in Ended
    /\ Goto("draining", "over") /\ helper' = "none"
    /\ UNCHANGED noStop

NoMoreCalls == Goto("idle", "over") /\ UNCHANGED <<helper, noStop>>

Die == stage # "killed" /\ stage' = "killed" /\ UNCHANGED <<helper, noStop>>

CNext ==
    \/ Call \/ HelperEnds \/ Accept \/ Reject \/ AddVolumeFails \/ Drained
    \/ NoMoreCalls \/ Die

CSpec == CInit /\ [][CNext]_cvars
=============================================================================
