---------------------------- MODULE BackupVolume -----------------------------
(***************************************************************************)
(* One call of backup.backupVolume in full: a goroutine runs RunHelper     *)
(* (module RunHelper, all of it), whose output goes through an io.Pipe to  *)
(* AddVolume on the calling goroutine; each end of the pipe is closed by   *)
(* its own side, and the call waits for the goroutine on a channel.        *)
(*                                                                         *)
(* The pipe has no buffer: a write of StdCopy and the read of AddVolume    *)
(* that takes it are one step.  What AddVolume does to the archive is in   *)
(* ArchiveWriter; here it reads to the end of the stream and then appends. *)
(***************************************************************************)
EXTENDS Naturals

CONSTANTS Outputs, Buffer   \* see RunHelper; a backup's helper has no stdin

VARIABLES
    hasStdin, pc, cancelled, conn, container, exit, outClosed, inEOF, produced, inHand,
    delivered, sent, out, outErr, send, sendErr, wait, result, fault, graceOver,
    apc,       \* the goroutine that called backupVolume
    gpc,       \* the goroutine that calls RunHelper
    writeEnd,  \* pw: open, closed, or closed with an error
    readEnd,   \* pr: open, or closed with AddVolume's error
    addErr,    \* AddVolume failed
    noStop,    \* opts.NoStop
    verdict    \* what backupVolume returns

hvars == <<hasStdin, pc, cancelled, conn, container, exit, outClosed, inEOF, produced,
           inHand, delivered, sent, out, outErr, send, sendErr, wait, result, fault,
           graceOver>>
vars == <<hvars, apc, gpc, writeEnd, readEnd, addErr, noStop, verdict>>

H == INSTANCE RunHelper WITH Inputs <- 0

ASSUME VolumeAssumption == H!RunHelperAssumption

CallPoints == {"start", "adding", "sealing", "giveup", "waiting", "returned"}

VInit ==
    /\ H!Init /\ hasStdin = FALSE
    /\ apc = "start" /\ gpc = "off"
    /\ writeEnd = "open" /\ readEnd = "open"
    /\ addErr = FALSE /\ noStop \in BOOLEAN /\ verdict = "none"

Goto(from, to) == apc = from /\ apc' = to

----------------------------------------------------------------------------
(* The goroutine that runs the helper.                                     *)

Calling == gpc = "helper"

RunHelper ==
    /\ Calling
    /\ H!Main \/ H!AfterFunc \/ H!ReadOutput \/ H!OutputEOF \/ H!OutputFails
    /\ UNCHANGED <<apc, gpc, writeEnd, readEnd, addErr, noStop, verdict>>

\* AddVolume takes what StdCopy writes.
Transfer ==
    /\ apc = "adding" /\ readEnd = "open" /\ H!WriteOutput
    /\ UNCHANGED <<apc, gpc, writeEnd, readEnd, addErr, noStop, verdict>>

\* The other end is closed: the write fails.
PipeRefuses ==
    /\ readEnd = "closed" /\ H!StdoutFails
    /\ UNCHANGED <<apc, gpc, writeEnd, readEnd, addErr, noStop, verdict>>

\* Mutant: the stream ends with the helper's output, before RunHelper returns.
CloseWriteEndEarly ==
    /\ Calling /\ outClosed /\ delivered = produced /\ gpc' = "closed"
    /\ writeEnd' = "eof"
    /\ UNCHANGED <<hvars, apc, readEnd, addErr, noStop, verdict>>

\* Mutant: the stream ends normally whether or not RunHelper failed.
CloseWriteEndAlways ==
    /\ Calling /\ pc = "returned" /\ gpc' = "closed"
    /\ writeEnd' = "eof"
    /\ UNCHANGED <<hvars, apc, readEnd, addErr, noStop, verdict>>

\* pw.CloseWithError or pw.Close, by what RunHelper returned.
CloseWriteEnd ==
    /\ Calling /\ pc = "returned" /\ gpc' = "closed"
    /\ writeEnd' = IF result = "error" THEN "error" ELSE "eof"
    /\ UNCHANGED <<hvars, apc, readEnd, addErr, noStop, verdict>>

SendOutcome ==
    /\ gpc = "closed" /\ gpc' = "done"
    /\ UNCHANGED <<hvars, apc, writeEnd, readEnd, addErr, noStop, verdict>>

----------------------------------------------------------------------------
(* The goroutine that called backupVolume.                                 *)

Call ==
    /\ Goto("start", "adding") /\ gpc' = "helper"
    /\ UNCHANGED <<hvars, writeEnd, readEnd, addErr, noStop, verdict>>

\* AddVolume's copy sees the end of the stream.
StreamEnds ==
    /\ writeEnd = "eof" /\ Goto("adding", "sealing")
    /\ UNCHANGED <<hvars, gpc, writeEnd, readEnd, addErr, noStop, verdict>>

\* The entry is compressed and in the archive: AddVolume returns nil.
Sealed ==
    /\ Goto("sealing", "waiting")
    /\ UNCHANGED <<hvars, gpc, writeEnd, readEnd, addErr, noStop, verdict>>

\* The other end was closed with RunHelper's error.
StreamBreaks ==
    /\ writeEnd = "error" /\ Goto("adding", "giveup") /\ addErr' = TRUE
    /\ UNCHANGED <<hvars, gpc, writeEnd, readEnd, noStop, verdict>>

\* AddVolume fails of itself: before, during or after the copy.
AddFails ==
    /\ Goto("adding", "giveup") \/ Goto("sealing", "giveup")
    /\ addErr' = TRUE
    /\ UNCHANGED <<hvars, gpc, writeEnd, readEnd, noStop, verdict>>

\* Mutant: the helper's writes are not unblocked.
GiveUpSilently ==
    /\ Goto("giveup", "waiting")
    /\ UNCHANGED <<hvars, gpc, writeEnd, readEnd, addErr, noStop, verdict>>

\* pr.CloseWithError.
GiveUp ==
    /\ Goto("giveup", "waiting") /\ readEnd' = "closed"
    /\ UNCHANGED <<hvars, gpc, writeEnd, addErr, noStop, verdict>>

\* RunHelper's error comes first, then AddVolume's, then tar's exit status, where
\* "failed" is 1, which --no-stop accepts, or more.
Judge ==
    \/ ~addErr /\ (result = "ok" \/ (result = "failed" /\ noStop)) /\ verdict' = "entry"
    \/ (addErr \/ result \in {"error", "failed"}) /\ verdict' = "error"

\* Mutant: an early return for AddVolume's error.
ReturnsEarly ==
    /\ gpc = "done" \/ addErr
    /\ Goto("waiting", "returned") /\ Judge
    /\ UNCHANGED <<hvars, gpc, writeEnd, readEnd, addErr, noStop>>

\* o := <-done, then the outcome.
Returns ==
    /\ gpc = "done" /\ Goto("waiting", "returned")
    /\ Judge
    /\ UNCHANGED <<hvars, gpc, writeEnd, readEnd, addErr, noStop>>

----------------------------------------------------------------------------
(* The container, the daemon, a signal, a broken connection.               *)

Container ==
    /\ H!Container
    /\ UNCHANGED <<apc, gpc, writeEnd, readEnd, addErr, noStop, verdict>>

Daemon ==
    /\ H!ReportExit \/ H!AbortWait
    /\ UNCHANGED <<apc, gpc, writeEnd, readEnd, addErr, noStop, verdict>>

Trouble ==
    /\ H!Cancel \/ H!Break
    /\ UNCHANGED <<apc, gpc, writeEnd, readEnd, addErr, noStop, verdict>>

----------------------------------------------------------------------------
Helper == RunHelper \/ Transfer \/ PipeRefuses \/ CloseWriteEnd \/ SendOutcome
Caller == Call \/ StreamEnds \/ StreamBreaks \/ Sealed \/ GiveUp \/ Returns

VNext == Helper \/ Caller \/ AddFails \/ Container \/ Daemon \/ Trouble

VSpec == VInit /\ [][VNext]_vars

\* Both goroutines are scheduled, the daemon answers, and a container whose
\* output is being read ends; one that cannot write need not, and nothing makes
\* AddVolume fail.
VFairSpec ==
    /\ VSpec
    /\ WF_vars(Helper) /\ WF_vars(Caller) /\ WF_vars(Daemon)
    /\ WF_vars(~H!Blocked /\ Container)

----------------------------------------------------------------------------
(* Properties.                                                             *)

\* Every variable has its type; the pipe's ends are closed by their own side,
\* and only once that side is done with it.
VTypeOK ==
    /\ H!HTypeOK /\ ~hasStdin
    /\ apc \in CallPoints /\ gpc \in {"off", "helper", "closed", "done"}
    /\ writeEnd \in {"open", "eof", "error"} /\ readEnd \in {"open", "closed"}
    /\ {addErr, noStop} \subseteq BOOLEAN /\ verdict \in {"none", "entry", "error"}
    /\ writeEnd # "open" => pc = "returned"
    /\ readEnd = "closed" => addErr

\* An entry is appended to the archive only from a stream that is whole: the
\* normal end of the pipe reaches AddVolume only after RunHelper has returned
\* without an error and all the container wrote has been taken, however exit,
\* output, cancellation and a broken connection race.
StreamIsWhole ==
    apc \in {"sealing", "waiting", "returned"} /\ ~addErr =>
        delivered = produced /\ outClosed

\* The call returns, whichever side of the pipe fails first: neither waits for
\* ever on the other, on the helper or on a full connection.
VolumeReturns == apc = "adding" ~> apc = "returned"

Draining == apc = "giveup" \/ (apc = "waiting" /\ addErr)

V == INSTANCE VolumeCall WITH
    stage <- IF apc = "start" \/ verdict = "entry" THEN "idle"
             ELSE IF verdict = "error" THEN "over"
             ELSE IF Draining THEN "draining" ELSE "reading",
    helper <- IF apc \in {"start", "returned"} THEN "none"
              ELSE IF pc = "returned" THEN result ELSE "running"

\* Every behaviour of this module is one of the call that Backup uses: with the
\* pipe and the goroutines in between, an entry still counts only after the
\* helper ended well, and the call still returns only after it ended, so that
\* the deferred Restart cannot start containers under a running tar (<-done).
ImplementsVolumeCall == V!CSpec

=============================================================================
