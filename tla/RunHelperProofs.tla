--------------------------- MODULE RunHelperProofs --------------------------
(***************************************************************************)
(* Proofs of the safety properties of RunHelper, for any amount of input   *)
(* and output and any buffer between the container and the caller.         *)
(*                                                                         *)
(* Where the caller is fixes what the two goroutines may be doing          *)
(* (StageInv): this is what its selects wait for.  A goroutine that ended  *)
(* without an error has moved all there was (EndInv).  And nothing goes    *)
(* wrong on the way without a cause from outside (TroubleInv).             *)
(***************************************************************************)
EXTENDS RunHelper, TLAPS

\* The caller is past the start and waits for the goroutines it started.
Served == {"await", "drain", "closing", "failing", "result", "finish"}

\* Which goroutines run, by the place of the caller.
StageInv ==
    /\ pc \in {"create", "attach", "start"} => out = "off" /\ send = "off"
    /\ pc \in {"send", "abandon"} \cup Served => out # "off"
    /\ pc \in {"send", "abandon"} => send # "off"
    /\ pc \notin {"send", "abandon"} => send # "copy"
    /\ pc \in {"result", "finish"} => out = "done"
    /\ pc \in {"remove", "returned"} => out # "copy"
    /\ pc \in Served /\ hasStdin => send = "done"
    /\ pc \in {"remove", "returned"} <=> result # "none"
    /\ send # "off" => hasStdin
    /\ pc \in {"create", "attach"} => conn = "none"

\* A goroutine that ended well moved everything, and the result says so.
EndInv ==
    /\ out = "done" /\ ~outErr => outClosed /\ delivered = produced
    /\ send = "done" /\ ~sendErr => sent = Inputs /\ inEOF
    /\ result \in {"ok", "failed"} => out = "done" /\ ~outErr
    /\ result = "ok" /\ hasStdin => send = "done" /\ ~sendErr

\* Something outside RunHelper went wrong or was too slow.
Trouble == cancelled \/ fault \/ graceOver

\* Every failure has a cause: trouble, or a container that left its input.
TroubleInv ==
    /\ pc = "abandon" => cancelled
    /\ conn = "closed" => Trouble \/ pc = "returned"
    /\ wait = "error" => Trouble
    /\ pc = "failing" => wait = "error"
    /\ outErr => Trouble
    /\ send # "done" => ~inEOF
    /\ sendErr => hasStdin /\ send = "done" /\ (Trouble \/ ~inEOF)
    /\ result = "error" => Trouble \/ (hasStdin /\ send = "done" /\ ~inEOF)

\* The inductive invariant of RunHelper.
HInv == HTypeOK /\ StageInv /\ EndInv /\ TroubleInv

-----------------------------------------------------------------------------
(* One step of any of the parties.                                         *)

\* The types hold after any step; a call has no open connection when it returns
\* because it has none before it attaches and the deferred calls close it.
LEMMA TypeStep ==
  ASSUME HTypeOK, StageInv, [Next]_vars
  PROVE  HTypeOK'
<1> USE RunHelperAssumption
        DEF HTypeOK, StageInv, Served, Points, Goto, Errs, streamVars, connVars,
            copyVars
<1>1. CASE Create
  BY <1>1 DEF Create
<1>2. CASE CreateFails
  BY <1>2 DEF CreateFails
<1>3. CASE Attach
  BY <1>3 DEF Attach
<1>4. CASE AttachFails
  BY <1>4 DEF AttachFails
<1>5. CASE Start
  BY <1>5 DEF Start
<1>6. CASE StartFails
  BY <1>6 DEF StartFails
<1>7. CASE SendReturns
  BY <1>7 DEF SendReturns
<1>8. CASE SendCancelled
  BY <1>8 DEF SendCancelled
<1>9. CASE SendAbandoned
  BY <1>9 DEF SendAbandoned
<1>10. CASE OutputEnds
  BY <1>10 DEF OutputEnds
<1>11. CASE ContainerEnds
  BY <1>11 DEF ContainerEnds
<1>12. CASE WaitFails
  BY <1>12 DEF WaitFails
<1>13. CASE WaitFailed
  BY <1>13 DEF WaitFailed
<1>14. CASE Drained
  BY <1>14 DEF Drained
<1>15. CASE DrainGivesUp
  <2>1. /\ pc' = "closing" /\ conn' = "closed" /\ graceOver' \in BOOLEAN
        /\ result = "none"
    BY <1>15 DEF DrainGivesUp
  <2>2. QED
    BY <1>15, <2>1 DEF DrainGivesUp
<1>16. CASE DrainClosed
  BY <1>16 DEF DrainClosed
<1>17. CASE ResultArrives
  BY <1>17 DEF ResultArrives
<1>18. CASE ResultFails
  BY <1>18 DEF ResultFails
<1>19. CASE Finish
  BY <1>19 DEF Finish, Outcome
<1>20. CASE Remove
  <2>1. /\ pc' = "returned" /\ conn' \in {"none", "closed"} /\ result # "none"
        /\ container' \in {container, "removed"} /\ fault' \in BOOLEAN
    BY <1>20 DEF Remove
  <2>2. QED
    BY <1>20, <2>1 DEF Remove
<1>21. CASE ReadOutput
  BY <1>21 DEF ReadOutput
<1>22. CASE WriteOutput
  <2>1. delivered' \in 0..produced'
    BY <1>22 DEF WriteOutput
  <2>2. QED
    BY <1>22, <2>1 DEF WriteOutput
<1>23. CASE OutputEOF
  BY <1>23 DEF OutputEOF
<1>24. CASE OutputFails
  BY <1>24 DEF OutputFails
<1>25. CASE CopyInput
  BY <1>25 DEF CopyInput
<1>26. CASE InputEOF
  BY <1>26 DEF InputEOF
<1>27. CASE InputFails
  BY <1>27 DEF InputFails
<1>28. CASE AfterFunc
  BY <1>28 DEF AfterFunc
<1>29. CASE Produce
  BY <1>29 DEF Produce, Blocked
<1>30. CASE CloseOutput
  BY <1>30 DEF CloseOutput
<1>31. CASE ContainerExits
  BY <1>31 DEF ContainerExits
<1>32. CASE ReportExit
  BY <1>32 DEF ReportExit
<1>33. CASE AbortWait
  BY <1>33 DEF AbortWait
<1>34. CASE Cancel
  BY <1>34 DEF Cancel
<1>35. CASE Break
  BY <1>35 DEF Break
<1>36. CASE StdoutFails
  BY <1>36 DEF StdoutFails
<1>37. CASE StdinFails
  BY <1>37 DEF StdinFails
<1>38. CASE UNCHANGED vars
  BY <1>38 DEF vars
<1>39. QED
  BY <1>1, <1>2, <1>3, <1>4, <1>5, <1>6, <1>7, <1>8, <1>9, <1>10, <1>11, <1>12, <1>13,
     <1>14, <1>15, <1>16, <1>17, <1>18, <1>19, <1>20, <1>21, <1>22, <1>23, <1>24, <1>25,
     <1>26, <1>27, <1>28, <1>29, <1>30, <1>31, <1>32, <1>33, <1>34, <1>35, <1>36, <1>37,
     <1>38
     DEF Next, Main, Output, Input, Container, Environment

\* No step of a goroutine outruns the caller's selects, and none of these lets the
\* caller pass before the goroutine it waits for has ended.
LEMMA StageStep ==
  ASSUME HTypeOK, StageInv, [Next]_vars
  PROVE  StageInv'
<1> USE RunHelperAssumption
        DEF HTypeOK, StageInv, Served, Points, Goto, Errs, streamVars, connVars,
            copyVars
<1>1. CASE Create
  BY <1>1 DEF Create
<1>2. CASE CreateFails
  BY <1>2 DEF CreateFails
<1>3. CASE Attach
  BY <1>3 DEF Attach
<1>4. CASE AttachFails
  BY <1>4 DEF AttachFails
<1>5. CASE Start
  BY <1>5 DEF Start
<1>6. CASE StartFails
  BY <1>6 DEF StartFails
<1>7. CASE SendReturns
  BY <1>7 DEF SendReturns
<1>8. CASE SendCancelled
  BY <1>8 DEF SendCancelled
<1>9. CASE SendAbandoned
  BY <1>9 DEF SendAbandoned
<1>10. CASE OutputEnds
  BY <1>10 DEF OutputEnds
<1>11. CASE ContainerEnds
  BY <1>11 DEF ContainerEnds
<1>12. CASE WaitFails
  BY <1>12 DEF WaitFails
<1>13. CASE WaitFailed
  BY <1>13 DEF WaitFailed
<1>14. CASE Drained
  BY <1>14 DEF Drained
<1>15. CASE DrainGivesUp
  BY <1>15 DEF DrainGivesUp
<1>16. CASE DrainClosed
  BY <1>16 DEF DrainClosed
<1>17. CASE ResultArrives
  BY <1>17 DEF ResultArrives
<1>18. CASE ResultFails
  BY <1>18 DEF ResultFails
<1>19. CASE Finish
  BY <1>19 DEF Finish, Outcome
<1>20. CASE Remove
  BY <1>20 DEF Remove
<1>21. CASE ReadOutput
  BY <1>21 DEF ReadOutput
<1>22. CASE WriteOutput
  BY <1>22 DEF WriteOutput
<1>23. CASE OutputEOF
  BY <1>23 DEF OutputEOF
<1>24. CASE OutputFails
  BY <1>24 DEF OutputFails
<1>25. CASE CopyInput
  BY <1>25 DEF CopyInput
<1>26. CASE InputEOF
  BY <1>26 DEF InputEOF
<1>27. CASE InputFails
  BY <1>27 DEF InputFails
<1>28. CASE AfterFunc
  BY <1>28 DEF AfterFunc
<1>29. CASE Produce
  BY <1>29 DEF Produce, Blocked
<1>30. CASE CloseOutput
  BY <1>30 DEF CloseOutput
<1>31. CASE ContainerExits
  BY <1>31 DEF ContainerExits
<1>32. CASE ReportExit
  BY <1>32 DEF ReportExit
<1>33. CASE AbortWait
  BY <1>33 DEF AbortWait
<1>34. CASE Cancel
  BY <1>34 DEF Cancel
<1>35. CASE Break
  BY <1>35 DEF Break
<1>36. CASE StdoutFails
  BY <1>36 DEF StdoutFails
<1>37. CASE StdinFails
  BY <1>37 DEF StdinFails
<1>38. CASE UNCHANGED vars
  BY <1>38 DEF vars
<1>39. QED
  BY <1>1, <1>2, <1>3, <1>4, <1>5, <1>6, <1>7, <1>8, <1>9, <1>10, <1>11, <1>12, <1>13,
     <1>14, <1>15, <1>16, <1>17, <1>18, <1>19, <1>20, <1>21, <1>22, <1>23, <1>24, <1>25,
     <1>26, <1>27, <1>28, <1>29, <1>30, <1>31, <1>32, <1>33, <1>34, <1>35, <1>36, <1>37,
     <1>38
     DEF Next, Main, Output, Input, Container, Environment

\* What a goroutine that ended well has moved stays all there is: the container
\* writes nothing after its end of output, and the input is at its end.
LEMMA EndStep ==
  ASSUME HTypeOK, StageInv, EndInv, [Next]_vars
  PROVE  EndInv'
<1> USE RunHelperAssumption
        DEF HTypeOK, StageInv, EndInv, Served, Points, Goto, Errs, streamVars, connVars,
            copyVars
<1>1. CASE Create
  BY <1>1 DEF Create
<1>2. CASE CreateFails
  BY <1>2 DEF CreateFails
<1>3. CASE Attach
  BY <1>3 DEF Attach
<1>4. CASE AttachFails
  BY <1>4 DEF AttachFails
<1>5. CASE Start
  BY <1>5 DEF Start
<1>6. CASE StartFails
  BY <1>6 DEF StartFails
<1>7. CASE SendReturns
  BY <1>7 DEF SendReturns
<1>8. CASE SendCancelled
  BY <1>8 DEF SendCancelled
<1>9. CASE SendAbandoned
  BY <1>9 DEF SendAbandoned
<1>10. CASE OutputEnds
  BY <1>10 DEF OutputEnds
<1>11. CASE ContainerEnds
  BY <1>11 DEF ContainerEnds
<1>12. CASE WaitFails
  BY <1>12 DEF WaitFails
<1>13. CASE WaitFailed
  BY <1>13 DEF WaitFailed
<1>14. CASE Drained
  BY <1>14 DEF Drained
<1>15. CASE DrainGivesUp
  BY <1>15 DEF DrainGivesUp
<1>16. CASE DrainClosed
  BY <1>16 DEF DrainClosed
<1>17. CASE ResultArrives
  BY <1>17 DEF ResultArrives
<1>18. CASE ResultFails
  BY <1>18 DEF ResultFails
<1>19. CASE Finish
  BY <1>19 DEF Finish, Outcome
<1>20. CASE Remove
  BY <1>20 DEF Remove
<1>21. CASE ReadOutput
  BY <1>21 DEF ReadOutput
<1>22. CASE WriteOutput
  BY <1>22 DEF WriteOutput
<1>23. CASE OutputEOF
  BY <1>23 DEF OutputEOF
<1>24. CASE OutputFails
  BY <1>24 DEF OutputFails
<1>25. CASE CopyInput
  BY <1>25 DEF CopyInput
<1>26. CASE InputEOF
  BY <1>26 DEF InputEOF
<1>27. CASE InputFails
  BY <1>27 DEF InputFails
<1>28. CASE AfterFunc
  BY <1>28 DEF AfterFunc
<1>29. CASE Produce
  BY <1>29 DEF Produce, Blocked
<1>30. CASE CloseOutput
  BY <1>30 DEF CloseOutput
<1>31. CASE ContainerExits
  BY <1>31 DEF ContainerExits
<1>32. CASE ReportExit
  BY <1>32 DEF ReportExit
<1>33. CASE AbortWait
  BY <1>33 DEF AbortWait
<1>34. CASE Cancel
  BY <1>34 DEF Cancel
<1>35. CASE Break
  BY <1>35 DEF Break
<1>36. CASE StdoutFails
  BY <1>36 DEF StdoutFails
<1>37. CASE StdinFails
  BY <1>37 DEF StdinFails
<1>38. CASE UNCHANGED vars
  BY <1>38 DEF vars
<1>39. QED
  BY <1>1, <1>2, <1>3, <1>4, <1>5, <1>6, <1>7, <1>8, <1>9, <1>10, <1>11, <1>12, <1>13,
     <1>14, <1>15, <1>16, <1>17, <1>18, <1>19, <1>20, <1>21, <1>22, <1>23, <1>24, <1>25,
     <1>26, <1>27, <1>28, <1>29, <1>30, <1>31, <1>32, <1>33, <1>34, <1>35, <1>36, <1>37,
     <1>38
     DEF Next, Main, Output, Input, Container, Environment

\* A step that makes something fail is one of the environment, one that follows a
\* cancellation, or one the container's early exit causes.
LEMMA TroubleStep ==
  ASSUME HInv, [Next]_vars
  PROVE  TroubleInv'
<1> USE RunHelperAssumption
        DEF HInv, HTypeOK, StageInv, EndInv, TroubleInv, Trouble, Served, Points, Goto,
            Errs, streamVars, connVars, copyVars
<1>1. CASE Create
  BY <1>1 DEF Create
<1>2. CASE CreateFails
  BY <1>2 DEF CreateFails
<1>3. CASE Attach
  BY <1>3 DEF Attach
<1>4. CASE AttachFails
  BY <1>4 DEF AttachFails
<1>5. CASE Start
  BY <1>5 DEF Start
<1>6. CASE StartFails
  BY <1>6 DEF StartFails
<1>7. CASE SendReturns
  BY <1>7 DEF SendReturns
<1>8. CASE SendCancelled
  BY <1>8 DEF SendCancelled
<1>9. CASE SendAbandoned
  BY <1>9 DEF SendAbandoned
<1>10. CASE OutputEnds
  BY <1>10 DEF OutputEnds
<1>11. CASE ContainerEnds
  BY <1>11 DEF ContainerEnds
<1>12. CASE WaitFails
  BY <1>12 DEF WaitFails
<1>13. CASE WaitFailed
  BY <1>13 DEF WaitFailed
<1>14. CASE Drained
  BY <1>14 DEF Drained
<1>15. CASE DrainGivesUp
  BY <1>15 DEF DrainGivesUp
<1>16. CASE DrainClosed
  BY <1>16 DEF DrainClosed
<1>17. CASE ResultArrives
  BY <1>17 DEF ResultArrives
<1>18. CASE ResultFails
  BY <1>18 DEF ResultFails
<1>19. CASE Finish
  BY <1>19 DEF Finish, Outcome
<1>20. CASE Remove
  BY <1>20 DEF Remove
<1>21. CASE ReadOutput
  BY <1>21 DEF ReadOutput
<1>22. CASE WriteOutput
  BY <1>22 DEF WriteOutput
<1>23. CASE OutputEOF
  BY <1>23 DEF OutputEOF
<1>24. CASE OutputFails
  BY <1>24 DEF OutputFails
<1>25. CASE CopyInput
  BY <1>25 DEF CopyInput
<1>26. CASE InputEOF
  BY <1>26 DEF InputEOF
<1>27. CASE InputFails
  BY <1>27 DEF InputFails
<1>28. CASE AfterFunc
  BY <1>28 DEF AfterFunc
<1>29. CASE Produce
  BY <1>29 DEF Produce, Blocked
<1>30. CASE CloseOutput
  BY <1>30 DEF CloseOutput
<1>31. CASE ContainerExits
  BY <1>31 DEF ContainerExits
<1>32. CASE ReportExit
  BY <1>32 DEF ReportExit
<1>33. CASE AbortWait
  BY <1>33 DEF AbortWait
<1>34. CASE Cancel
  BY <1>34 DEF Cancel
<1>35. CASE Break
  BY <1>35 DEF Break
<1>36. CASE StdoutFails
  BY <1>36 DEF StdoutFails
<1>37. CASE StdinFails
  BY <1>37 DEF StdinFails
<1>38. CASE UNCHANGED vars
  BY <1>38 DEF vars
<1>39. QED
  BY <1>1, <1>2, <1>3, <1>4, <1>5, <1>6, <1>7, <1>8, <1>9, <1>10, <1>11, <1>12, <1>13,
     <1>14, <1>15, <1>16, <1>17, <1>18, <1>19, <1>20, <1>21, <1>22, <1>23, <1>24, <1>25,
     <1>26, <1>27, <1>28, <1>29, <1>30, <1>31, <1>32, <1>33, <1>34, <1>35, <1>36, <1>37,
     <1>38
     DEF Next, Main, Output, Input, Container, Environment

-----------------------------------------------------------------------------
(* The theorems.                                                           *)

\* The invariant of RunHelper holds in every reachable state: what each of the
\* parties may be doing follows from where the calling goroutine is.
THEOREM HInductive == Spec => []HInv
<1>1. Init => HInv
  <2>1. Init => HTypeOK
    <3> SUFFICES ASSUME Init PROVE HTypeOK
      OBVIOUS
    <3>1. produced \in 0..Outputs /\ delivered \in 0..produced /\ sent \in 0..Inputs
      BY RunHelperAssumption DEF Init
    <3>2. QED
      BY <3>1 DEF Init, HTypeOK, Points
  <2>2. Init => StageInv /\ EndInv /\ TroubleInv
    BY DEF Init, StageInv, EndInv, TroubleInv, Trouble, Served
  <2>3. QED
    BY <2>1, <2>2 DEF HInv
<1>2. HInv /\ [Next]_vars => HInv'
  BY TypeStep, StageStep, EndStep, TroubleStep DEF HInv
<1>3. QED
  BY <1>1, <1>2, PTL DEF Spec

\* Types of RunHelper's state; a call that returned has a result and no open
\* attach connection.
THEOREM HTypeCorrect == Spec => []HTypeOK
BY HInductive, PTL DEF HInv

\* A call that returns without an error has all the output, and one that returns
\* success gave the helper all the input.
THEOREM CompleteWhenOk == Spec => []OkMeansComplete
<1>1. HInv => OkMeansComplete
  BY DEF HInv, EndInv, OkMeansComplete
<1>2. QED
  BY <1>1, HInductive, PTL

\* A helper that succeeded is not reported as failed unless something outside
\* RunHelper failed, was cancelled, or kept the output waiting.
THEOREM SuccessReported == Spec => []SuccessIsReported
<1>1. HInv => SuccessIsReported
  BY DEF HInv, TroubleInv, Trouble, SuccessIsReported
<1>2. QED
  BY <1>1, HInductive, PTL

\* No goroutine of a call that returned still uses h.Stdin or h.Stdout.
THEOREM NothingOutlives == Spec => []NoneOutlives
<1>1. HInv => NoneOutlives
  BY DEF HInv, StageInv, NoneOutlives
<1>2. QED
  BY <1>1, HInductive, PTL
=============================================================================
