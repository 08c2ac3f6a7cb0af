------------------------------- MODULE Rivals -------------------------------
(***************************************************************************)
(* Two runs of dv-backup at once on one daemon, each a Stopper: nothing in *)
(* the program keeps a second run from starting, and the two know of each  *)
(* other only by the state of the containers.                              *)
(*                                                                         *)
(* What one run's requests do to a container is, to the other run, a step  *)
(* of another actor; apart from the two runs nobody acts on containers     *)
(* here.  OtherSteps bounds how often that happens: twice for each         *)
(* container are enough, as a run takes a container down at most once and  *)
(* brings it up at most once.                                              *)
(***************************************************************************)
EXTENDS Naturals, FiniteSets

CONSTANTS
    Containers, Volumes, Helpers, Mounts,         \* see Stopper
    FirstStates, FirstTimes, Now, OtherSteps, None

VARIABLES
    \* the daemon
    cstate, started, clock,
    \* the one run
    inflightA, phaseA, snapA, wantedA, todoA, curA, atA, stoppedA, toStartA, failedA,
    restartErrsA, cancelledA, budgetA, touchedA, broughtDownA, revivedA,
    \* the other run
    inflightB, phaseB, snapB, wantedB, todoB, curB, atB, stoppedB, toStartB, failedB,
    restartErrsB, cancelledB, budgetB, touchedB, broughtDownB, revivedB

A == INSTANCE Stopper WITH
    inflight <- inflightA, phase <- phaseA, snap <- snapA, wanted <- wantedA,
    todo <- todoA, cur <- curA, at <- atA, stopped <- stoppedA, toStart <- toStartA,
    failed <- failedA, restartErrs <- restartErrsA, cancelled <- cancelledA,
    budget <- budgetA, touched <- touchedA, broughtDown <- broughtDownA,
    revived <- revivedA

B == INSTANCE Stopper WITH
    inflight <- inflightB, phase <- phaseB, snap <- snapB, wanted <- wantedB,
    todo <- todoB, cur <- curB, at <- atB, stopped <- stoppedB, toStart <- toStartB,
    failed <- failedB, restartErrs <- restartErrsB, cancelled <- cancelledB,
    budget <- budgetB, touched <- touchedB, broughtDown <- broughtDownB,
    revived <- revivedB

ASSUME RivalsAssumption ==
    A!ConstantsAssumption /\ OtherSteps >= 2 * Cardinality(Containers)

hostVars == <<cstate, started, clock>>
aVars == <<inflightA, phaseA, snapA, wantedA, todoA, curA, atA, stoppedA, toStartA,
           failedA, restartErrsA, cancelledA, budgetA, touchedA, broughtDownA, revivedA>>
bVars == <<inflightB, phaseB, snapB, wantedB, todoB, curB, atB, stoppedB, toStartB,
           failedB, restartErrsB, cancelledB, budgetB, touchedB, broughtDownB, revivedB>>
vars == <<hostVars, aVars, bVars>>

----------------------------------------------------------------------------
\* What the run A does, or the daemon does for it.
StepOfA == A!RunStep \/ A!StopLost \/ A!Cancel \/ A!DaemonStep
StepOfB == B!RunStep \/ B!StopLost \/ B!Cancel \/ B!DaemonStep

\* How the other run sees a step: only if it changed a container.
SeenByA == IF UNCHANGED hostVars THEN UNCHANGED aVars ELSE A!OtherStep
SeenByB == IF UNCHANGED hostVars THEN UNCHANGED bVars ELSE B!OtherStep

RivalsInit == A!Init /\ B!Init

\* The death of a process is left out: what it leaves down nobody restarts.
RivalsNext == (StepOfA /\ SeenByB) \/ (StepOfB /\ SeenByA)

RivalsSpec == RivalsInit /\ [][RivalsNext]_vars

----------------------------------------------------------------------------
(* Properties.                                                             *)

TakenDown == broughtDownA \cup broughtDownB
Named == failedA \cup restartErrsA \cup failedB \cup restartErrsB

\* When both runs have returned, every container that either took down runs
\* again or an error of one of them names it, however their stops and starts
\* were interleaved, and although either may start or stop what the other
\* recorded, found down or found running (stopper.Stop, stopper.Restart).
AllBack ==
    phaseA = "done" /\ phaseB = "done" =>
        \A c \in TakenDown : A!InUse(cstate[c]) \/ c \in Named

\* Between them the two runs start only what one of them took down: a container
\* that was down at first is never started, although each run sees the other's
\* containers go up and down (stopper.Stop: only what was listed in use).
OnlyOurs == revivedA \cup revivedB \subseteq TakenDown

\* README.md:11: "Be safe by default: consistent backups", so while one run works
\* on its volumes no container, but a helper, runs with one of them mounted.
\* Refuted: the other run restarts what it took down before, or recorded as well.
HeldFromRival ==
    phaseA = "held" =>
        \A c \in Containers \ Helpers :
            (\E v \in wantedA : A!UsesVolume(c, v)) => ~A!InUse(cstate[c])

=============================================================================
