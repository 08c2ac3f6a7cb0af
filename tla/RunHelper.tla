----------------------------- MODULE RunHelper ------------------------------
(***************************************************************************)
(* dockerx.Client.RunHelper: one helper container, run to completion.      *)
(*                                                                         *)
(* Five parties act concurrently: the calling goroutine (pc), the goroutine*)
(* that copies the container's output (out), the one that copies stdin to  *)
(* it (send), the function context.AfterFunc runs on cancellation, and the *)
(* daemon with the container.  They share the attach connection, which any *)
(* of them may close, and two channels of capacity one (outDone, sendDone):*)
(* a goroutine in state "done" is one that has sent its result.            *)
(*                                                                         *)
(* Output and input are counted in pieces; output that the container has   *)
(* produced and the caller has not seen is in the daemon's or the socket's *)
(* buffer, which is bounded: a container whose output nobody reads blocks, *)
(* until the connection is closed and the daemon throws its output away.   *)
(* Every failure the environment may inject sets fault.                    *)
(***************************************************************************)
EXTENDS Naturals

CONSTANTS
    Outputs,   \* bound on the pieces of output a helper writes
    Inputs,    \* the pieces of input a helper is given
    Buffer     \* the pieces of output that may be under way

ASSUME RunHelperAssumption ==
    Outputs \in Nat /\ Inputs \in Nat /\ Buffer \in Nat \ {0}

VARIABLES
    hasStdin,    \* h.Stdin # nil
    pc,          \* the calling goroutine
    cancelled,   \* ctx is cancelled
    conn,        \* the attach connection
    container,   \* the helper container
    exit,        \* its exit status is 0
    outClosed,   \* it has closed its output (or exited)
    inEOF,       \* CloseWrite was called: the container's stdin ends
    produced,    \* pieces of output written by the container
    inHand,      \* StdCopy has read a piece and is writing it to h.Stdout
    delivered,   \* pieces of output written to h.Stdout
    sent,        \* pieces of input written to the connection
    out, outErr,     \* the output goroutine and its result
    send, sendErr,   \* the input goroutine and its result
    wait,        \* the channels of ContainerWait
    result,      \* what RunHelper returns
    fault,       \* the environment made something fail
    graceOver    \* outputGrace expired

vars == <<hasStdin, pc, cancelled, conn, container, exit, outClosed, inEOF, produced,
          inHand, delivered, sent, out, outErr, send, sendErr, wait, result, fault,
          graceOver>>

Points == {"create", "attach", "start", "send", "abandon", "await", "drain", "closing",
           "failing", "result", "finish", "remove", "returned"}

Init ==
    /\ hasStdin \in BOOLEAN
    /\ pc = "create" /\ cancelled = FALSE /\ conn = "none" /\ container = "none"
    /\ exit = FALSE /\ outClosed = FALSE /\ inEOF = FALSE
    /\ produced = 0 /\ inHand = FALSE /\ delivered = 0 /\ sent = 0
    /\ out = "off" /\ outErr = FALSE /\ send = "off" /\ sendErr = FALSE
    /\ wait = "pending" /\ result = "none" /\ fault = FALSE /\ graceOver = FALSE

streamVars == <<produced, inHand, delivered, sent>>
connVars == <<conn, container, exit, outClosed, inEOF, streamVars>>
copyVars == <<out, outErr, send, sendErr, wait>>

Goto(from, to) == pc = from /\ pc' = to

\* RunHelper is to return an error.
Errs == result' = "error"

----------------------------------------------------------------------------
(* The calling goroutine.                                                  *)

Create ==
    /\ Goto("create", "attach") /\ ~cancelled
    /\ container' = "created"
    /\ UNCHANGED <<hasStdin, cancelled, conn, exit, outClosed, inEOF, streamVars,
                   copyVars, result, fault, graceOver>>

\* The request fails, or its answer is lost: nothing was deferred yet.
CreateFails ==
    /\ Goto("create", "returned") /\ Errs /\ fault' = TRUE
    /\ container' \in {"none", "created"}
    /\ UNCHANGED <<hasStdin, cancelled, conn, exit, outClosed, inEOF, streamVars,
                   copyVars, graceOver>>

Attach ==
    /\ Goto("attach", "start") /\ ~cancelled
    /\ conn' = "open"
    /\ UNCHANGED <<hasStdin, cancelled, container, exit, outClosed, inEOF, streamVars,
                   copyVars, result, fault, graceOver>>

AttachFails ==
    /\ Goto("attach", "remove") /\ Errs /\ fault' = TRUE
    /\ UNCHANGED <<hasStdin, cancelled, connVars, copyVars, graceOver>>

\* Wait is registered before the start; then the goroutines are started.
Start ==
    /\ Goto("start", IF hasStdin THEN "send" ELSE "await") /\ ~cancelled
    /\ container' = "running"
    /\ out' = "copy" /\ send' = IF hasStdin THEN "copy" ELSE "off"
    /\ UNCHANGED <<hasStdin, cancelled, conn, exit, outClosed, inEOF, streamVars,
                   outErr, sendErr, wait, result, fault, graceOver>>

\* The start fails, or its answer is lost and the container runs.
StartFails ==
    /\ Goto("start", "remove") /\ Errs /\ fault' = TRUE
    /\ container' \in {"created", "running"}
    /\ UNCHANGED <<hasStdin, cancelled, conn, exit, outClosed, inEOF, streamVars,
                   copyVars, graceOver>>

\* The first select: the input was sent, or the context is cancelled.
SendReturns ==
    /\ Goto("send", "await") /\ send = "done"
    /\ UNCHANGED <<hasStdin, cancelled, connVars, copyVars, result, fault, graceOver>>

SendCancelled ==
    /\ Goto("send", "abandon") /\ cancelled
    /\ conn' = "closed"
    /\ UNCHANGED <<hasStdin, cancelled, container, exit, outClosed, inEOF, streamVars,
                   copyVars, result, fault, graceOver>>

\* Mutant: the input goroutine is not waited for.
SendAbandonedAtOnce ==
    /\ Goto("abandon", "await")
    /\ sendErr' = TRUE
    /\ UNCHANGED <<hasStdin, cancelled, connVars, out, outErr, send, wait, result,
                   fault, graceOver>>

SendAbandoned ==
    /\ Goto("abandon", "await") /\ send = "done"
    /\ sendErr' = TRUE
    /\ UNCHANGED <<hasStdin, cancelled, connVars, out, outErr, send, wait, result,
                   fault, graceOver>>

\* The second select: the output ends first, the wait does, or the wait fails.
OutputEnds ==
    /\ out = "done"
    /\ IF outErr THEN Goto("await", "remove") /\ Errs
                 ELSE Goto("await", "result") /\ UNCHANGED result
    /\ UNCHANGED <<hasStdin, cancelled, connVars, copyVars, fault, graceOver>>

\* Mutant: the connection is closed as soon as the container has exited.
ContainerEndsAtOnce ==
    /\ Goto("await", "closing") /\ wait = "result"
    /\ conn' = "closed"
    /\ UNCHANGED <<hasStdin, cancelled, container, exit, outClosed, inEOF, streamVars,
                   copyVars, result, fault, graceOver>>

ContainerEnds ==
    /\ Goto("await", "drain") /\ wait = "result"
    /\ UNCHANGED <<hasStdin, cancelled, connVars, copyVars, result, fault, graceOver>>

\* awaitOutput: close the connection, then wait for the output goroutine.
WaitFails ==
    /\ Goto("await", "failing") /\ wait = "error"
    /\ conn' = "closed"
    /\ UNCHANGED <<hasStdin, cancelled, container, exit, outClosed, inEOF, streamVars,
                   copyVars, result, fault, graceOver>>

WaitFailed ==
    /\ Goto("failing", "remove") /\ out = "done" /\ Errs
    /\ UNCHANGED <<hasStdin, cancelled, connVars, copyVars, fault, graceOver>>

\* drainOutput: the output ends by itself, or is cut after a grace period.
Drained ==
    /\ Goto("drain", "finish") /\ out = "done"
    /\ UNCHANGED <<hasStdin, cancelled, connVars, copyVars, result, fault, graceOver>>

DrainGivesUp ==
    /\ Goto("drain", "closing")
    /\ graceOver' \in {graceOver \/ ~cancelled, TRUE}
    /\ conn' = "closed"
    /\ UNCHANGED <<hasStdin, cancelled, container, exit, outClosed, inEOF, streamVars,
                   copyVars, result, fault>>

DrainClosed ==
    /\ Goto("closing", "finish") /\ out = "done"
    /\ UNCHANGED <<hasStdin, cancelled, connVars, copyVars, result, fault, graceOver>>

\* The last select: the output has ended, the wait is still to come.
ResultArrives ==
    /\ Goto("result", "finish") /\ wait = "result"
    /\ UNCHANGED <<hasStdin, cancelled, connVars, copyVars, result, fault, graceOver>>

ResultFails ==
    /\ Goto("result", "remove") /\ wait = "error" /\ Errs
    /\ UNCHANGED <<hasStdin, cancelled, connVars, copyVars, fault, graceOver>>

\* Mutant: an error of the output copy is not looked at.
OutcomeUnchecked == IF sendErr /\ exit THEN "error" ELSE IF exit THEN "ok" ELSE "failed"

\* An error of the output copy, an error of the input copy when the container
\* claims success, or the exit status.
Outcome ==
    IF outErr \/ (sendErr /\ exit) THEN "error" ELSE IF exit THEN "ok" ELSE "failed"

\* The response of the wait may itself carry an error of the daemon.
Finish ==
    /\ Goto("finish", "remove")
    /\ \/ result' = Outcome /\ UNCHANGED fault
       \/ Errs /\ fault' = TRUE
    /\ UNCHANGED <<hasStdin, cancelled, connVars, copyVars, graceOver>>

\* Mutant: the connection is not closed on the way out.
RemoveLeavesOpen ==
    /\ Goto("remove", "returned")
    /\ container' = "removed"
    /\ UNCHANGED <<hasStdin, cancelled, conn, exit, outClosed, inEOF, streamVars,
                   copyVars, result, fault, graceOver>>

\* The deferred calls: close the connection and remove the container, with a
\* context of their own; a failure of the removal is ignored.
Remove ==
    /\ Goto("remove", "returned")
    /\ conn' = IF conn = "none" THEN "none" ELSE "closed"
    /\ \/ container' = "removed" /\ UNCHANGED fault
       \/ UNCHANGED container /\ fault' = TRUE
    /\ UNCHANGED <<hasStdin, cancelled, exit, outClosed, inEOF, streamVars, copyVars,
                   result, graceOver>>

----------------------------------------------------------------------------
(* The goroutines.                                                         *)

\* context.AfterFunc(ctx, attach.Close), registered once attached.
AfterFunc ==
    /\ cancelled /\ conn = "open" /\ conn' = "closed"
    /\ UNCHANGED <<hasStdin, pc, cancelled, container, exit, outClosed, inEOF,
                   streamVars, copyVars, result, fault, graceOver>>

\* StdCopy: read a piece, then write it, which waits for whoever reads h.Stdout.
ReadOutput ==
    /\ out = "copy" /\ conn = "open" /\ ~inHand /\ delivered < produced
    /\ inHand' = TRUE
    /\ UNCHANGED <<hasStdin, pc, cancelled, conn, container, exit, outClosed, inEOF,
                   produced, delivered, sent, copyVars, result, fault, graceOver>>

WriteOutput ==
    /\ out = "copy" /\ inHand
    /\ inHand' = FALSE /\ delivered' = delivered + 1
    /\ UNCHANGED <<hasStdin, pc, cancelled, conn, container, exit, outClosed, inEOF,
                   produced, sent, copyVars, result, fault, graceOver>>

\* StdCopy sees the end of the stream, or a closed connection.
OutputEOF ==
    /\ out = "copy" /\ conn = "open" /\ ~inHand /\ outClosed /\ delivered = produced
    /\ out' = "done"
    /\ UNCHANGED <<hasStdin, pc, cancelled, connVars, outErr, send, sendErr, wait,
                   result, fault, graceOver>>

OutputFails ==
    /\ out = "copy" /\ conn = "closed" /\ ~inHand
    /\ out' = "done" /\ outErr' = TRUE
    /\ UNCHANGED <<hasStdin, pc, cancelled, connVars, send, sendErr, wait, result,
                   fault, graceOver>>

CopyInput ==
    /\ send = "copy" /\ conn = "open" /\ sent < Inputs
    /\ sent' = sent + 1
    /\ UNCHANGED <<hasStdin, pc, cancelled, conn, container, exit, outClosed, inEOF,
                   produced, inHand, delivered, copyVars, result, fault, graceOver>>

InputEOF ==
    /\ send = "copy" /\ conn = "open" /\ sent = Inputs
    /\ send' = "done" /\ inEOF' = TRUE
    /\ UNCHANGED <<hasStdin, pc, cancelled, conn, container, exit, outClosed,
                   streamVars, out, outErr, sendErr, wait, result, fault, graceOver>>

\* The write fails: the connection is closed, or the container has exited.
InputFails ==
    /\ send = "copy" /\ (conn = "closed" \/ container \notin {"created", "running"})
    /\ send' = "done" /\ sendErr' = TRUE
    /\ UNCHANGED <<hasStdin, pc, cancelled, connVars, out, outErr, wait, result, fault,
                   graceOver>>

----------------------------------------------------------------------------
(* The container, the daemon and what may fail.                            *)

\* The buffers between the container and the caller are full.
Blocked == conn = "open" /\ produced - delivered >= Buffer

Produce ==
    /\ container = "running" /\ ~outClosed /\ produced < Outputs /\ ~Blocked
    /\ produced' = produced + 1
    /\ UNCHANGED <<hasStdin, pc, cancelled, conn, container, exit, outClosed, inEOF,
                   inHand, delivered, sent, copyVars, result, fault, graceOver>>

CloseOutput ==
    /\ container = "running" /\ ~outClosed /\ outClosed' = TRUE
    /\ UNCHANGED <<hasStdin, pc, cancelled, conn, container, exit, inEOF, streamVars,
                   copyVars, result, fault, graceOver>>

\* It may exit before it has read its input, with any status.
ContainerExits ==
    /\ container = "running" /\ container' = "exited"
    /\ outClosed' = TRUE /\ exit' \in BOOLEAN
    /\ UNCHANGED <<hasStdin, pc, cancelled, conn, inEOF, streamVars, copyVars, result,
                   fault, graceOver>>

ReportExit ==
    /\ container = "exited" /\ wait = "pending" /\ wait' = "result"
    /\ UNCHANGED <<hasStdin, pc, cancelled, connVars, out, outErr, send, sendErr,
                   result, fault, graceOver>>

\* Mutant: the wait request is made without ctx and fails only with the daemon.
AbortWaitNever == FALSE /\ UNCHANGED vars

\* The request of ContainerWait is made under ctx.
AbortWait ==
    /\ cancelled /\ wait = "pending" /\ pc \notin {"create", "attach"}
    /\ wait' = "error"
    /\ UNCHANGED <<hasStdin, pc, cancelled, connVars, out, outErr, send, sendErr,
                   result, fault, graceOver>>

Cancel ==
    /\ pc # "returned" /\ ~cancelled /\ cancelled' = TRUE
    /\ UNCHANGED <<hasStdin, pc, connVars, copyVars, result, fault, graceOver>>

\* The attach connection or the wait request breaks.
Break ==
    /\ fault' = TRUE
    /\ \/ conn = "open" /\ conn' = "closed" /\ UNCHANGED wait
       \/ wait = "pending" /\ pc \notin {"create", "attach"} /\ wait' = "error"
          /\ UNCHANGED conn
    /\ UNCHANGED <<hasStdin, pc, cancelled, container, exit, outClosed, inEOF,
                   streamVars, out, outErr, send, sendErr, result, graceOver>>

\* h.Stdout refuses a write.
StdoutFails ==
    /\ out = "copy" /\ inHand
    /\ out' = "done" /\ outErr' = TRUE /\ inHand' = FALSE /\ fault' = TRUE
    /\ UNCHANGED <<hasStdin, pc, cancelled, conn, container, exit, outClosed, inEOF,
                   produced, delivered, sent, send, sendErr, wait, result, graceOver>>

\* h.Stdin cannot be read to its end; CloseWrite is called all the same.
StdinFails ==
    /\ send = "copy" /\ sent < Inputs
    /\ send' = "done" /\ sendErr' = TRUE /\ inEOF' = TRUE /\ fault' = TRUE
    /\ UNCHANGED <<hasStdin, pc, cancelled, conn, container, exit, outClosed,
                   streamVars, out, outErr, wait, result, graceOver>>

----------------------------------------------------------------------------
Main ==
    \/ Create \/ CreateFails \/ Attach \/ AttachFails \/ Start \/ StartFails
    \/ SendReturns \/ SendCancelled \/ SendAbandoned
    \/ OutputEnds \/ ContainerEnds \/ WaitFails \/ WaitFailed
    \/ Drained \/ DrainGivesUp \/ DrainClosed \/ ResultArrives \/ ResultFails
    \/ Finish \/ Remove

Output == ReadOutput \/ WriteOutput \/ OutputEOF \/ OutputFails
Input == CopyInput \/ InputEOF \/ InputFails
Container == Produce \/ CloseOutput \/ ContainerExits
Environment == Cancel \/ Break \/ StdoutFails \/ StdinFails

Next ==
    \/ Main \/ Output \/ Input \/ AfterFunc
    \/ Container \/ ReportExit \/ AbortWait \/ Environment

Spec == Init /\ [][Next]_vars

\* The goroutines run, the reader of h.Stdout and h.Stdin keep their contract
\* (a call returns) and the daemon answers; a helper need not end by itself.
FairSpec ==
    /\ Spec
    /\ WF_vars(Main) /\ WF_vars(Output) /\ WF_vars(Input) /\ WF_vars(AfterFunc)
    /\ WF_vars(ReportExit) /\ WF_vars(AbortWait)

----------------------------------------------------------------------------
(* Properties.                                                             *)

\* Every variable has its type, no more is delivered than was produced, and a
\* call that returned has a result and left no attach connection open.
HTypeOK ==
    /\ {hasStdin, cancelled, exit, outClosed, inEOF, inHand, outErr, sendErr, fault,
        graceOver} \subseteq BOOLEAN
    /\ pc \in Points
    /\ conn \in {"none", "open", "closed"}
    /\ container \in {"none", "created", "running", "exited", "removed"}
    /\ produced \in 0..Outputs /\ delivered \in 0..produced /\ sent \in 0..Inputs
    /\ out \in {"off", "copy", "done"} /\ send \in {"off", "copy", "done"}
    /\ wait \in {"pending", "result", "error"}
    /\ result \in {"none", "ok", "failed", "error"}
    /\ pc = "returned" => conn # "open" /\ result # "none"
    /\ inHand => out = "copy" /\ delivered < produced

\* When RunHelper returns without an error, whatever the exit status, the caller
\* has all the output; when the status is 0 too, the helper was given all the
\* input and saw its end: neither a truncated archive nor a truncated restore is
\* taken for a whole one, however exit, end of output and cancellation race.
OkMeansComplete ==
    /\ result \in {"ok", "failed"} => delivered = produced /\ outClosed
    /\ result = "ok" /\ hasStdin => sent = Inputs /\ inEOF

\* A helper that ran and exited with status 0, was given its input and whose
\* output is read in time is not reported as failed: closing the connection
\* after the exit loses none of the output still in a buffer (drainOutput).
SuccessIsReported ==
    result = "error" /\ container \in {"exited", "removed"} /\ exit =>
        cancelled \/ fault \/ graceOver \/ (hasStdin /\ ~inEOF)

\* No goroutine that uses h.Stdin or h.Stdout outlives the call: the caller may
\* close them at once.
NoneOutlives == pc = "returned" => out # "copy" /\ send # "copy"

\* Once the context is cancelled RunHelper returns, whether or not the container
\* ever exits or ends its output.
CancelReturns == cancelled ~> pc = "returned"

=============================================================================
