------------------------------ MODULE Stopper ------------------------------
(***************************************************************************)
(* The stop/restart protocol of internal/stopper, as backup.Run and        *)
(* restore.Run drive it against the Docker daemon (internal/dockerx):      *)
(* list the containers, read the start time of each user of the wanted     *)
(* volumes and stop it, hold them down while the volumes are worked on,    *)
(* and restart, from a deferred call, those that were recorded.            *)
(*                                                                         *)
(* A stop request is two events: the daemon accepts it (it is then in      *)
(* inflight) and, up to the container's stop timeout later, the container  *)
(* goes down.  In between the client may be cancelled or lose the answer.  *)
(* Other actors (operators, a second run, a container that exits by        *)
(* itself) act between any two steps; OtherSteps bounds how often.         *)
(*                                                                         *)
(* Lists sorted by name are sets here: the order in which containers are   *)
(* stopped is left open, the order in which they are restarted is not.     *)
(***************************************************************************)
EXTENDS Naturals, FiniteSets

CONSTANTS
    Containers,   \* the containers on the host
    Volumes,      \* the named volumes on the host
    Helpers,      \* the containers that carry the dv-backup helper label
    Mounts,       \* the volumes each container mounts
    FirstStates,  \* states a container may be in when the run starts
    FirstTimes,   \* times at which it may have been started before that
    Now,          \* the time at which the run starts
    OtherSteps,   \* bound on the steps of other actors
    None          \* no container

States == {"running", "paused", "restarting", "exited", "gone"}

ASSUME ConstantsAssumption ==
    /\ Helpers \subseteq Containers
    /\ Mounts \in [Containers -> SUBSET Volumes]
    /\ FirstStates \subseteq States
    /\ Now \in Nat
    /\ FirstTimes \subseteq 0..(Now - 1)
    /\ OtherSteps \in Nat
    /\ None \notin Containers

VARIABLES
    \* the daemon
    cstate,       \* state of each container ("exited" stands for created too)
    started,      \* StartedAt of each container
    clock,        \* the next start time
    inflight,     \* accepted stop requests that have not taken effect
    \* the run
    phase,        \* where the run is
    snap,         \* what ListContainers returned
    wanted,       \* the volumes whose users are to be stopped
    todo,         \* the containers Stop has still to visit
    cur,          \* the container Stop is at
    at,           \* the start time read for each container
    stopped,      \* Stopper.stopped
    toStart,      \* the containers Restart has still to visit
    failed,       \* the container whose StopContainer returned an error
    restartErrs,  \* the containers whose StartContainer returned an error
    cancelled,    \* SIGINT or SIGTERM was received
    \* other actors and history
    budget,       \* steps other actors may still take
    touched,      \* containers another actor acted on
    broughtDown,  \* containers a request of this run took down
    revived       \* containers a request of this run brought up

daemonVars == <<cstate, started, clock, inflight>>
runVars == <<phase, snap, wanted, todo, cur, at, stopped, toStart, failed,
             restartErrs, cancelled>>
otherVars == <<budget, touched>>
historyVars == <<broughtDown, revived>>
vars == <<daemonVars, runVars, otherVars, historyVars>>

InUse(s) == s \in {"running", "paused", "restarting"}
IsHelper(c) == c \in Helpers
UsesVolume(c, v) == v \in Mounts[c]

\* Mutant: helpers are stopped like any other container.
UsersOfHelpersToo(vs, l) ==
    {c \in Containers : InUse(l[c]) /\ \E v \in vs : UsesVolume(c, v)}

\* The containers to stop for the volumes vs, judged by the listing l.
UsersOf(vs, l) ==
    {c \in Containers : InUse(l[c]) /\ ~IsHelper(c) /\ \E v \in vs : UsesVolume(c, v)}

Phases == {"start", "listed", "stop", "inspected", "sent", "held", "failed",
           "restart", "done", "killed"}

Init ==
    /\ cstate \in [Containers -> FirstStates]
    /\ started \in [Containers -> FirstTimes]
    /\ clock = Now
    /\ inflight = {}
    /\ phase = "start"
    /\ snap = [c \in Containers |-> "gone"]
    /\ wanted = {} /\ todo = {} /\ cur = None
    /\ at = [c \in Containers |-> 0]
    /\ stopped = {} /\ toStart = {} /\ failed = {} /\ restartErrs = {}
    /\ cancelled = FALSE
    /\ budget = OtherSteps
    /\ touched = {} /\ broughtDown = {} /\ revived = {}

----------------------------------------------------------------------------
(* The run.  A request made under a cancelled context fails at once, so    *)
(* every action that sends one is guarded by ~cancelled; Restart has a     *)
(* context of its own that is never cancelled.                             *)

ListContainers ==
    /\ phase = "start" /\ ~cancelled
    /\ phase' = "listed" /\ snap' = cstate
    /\ UNCHANGED <<daemonVars, wanted, todo, cur, at, stopped, toStart, failed,
                   restartErrs, cancelled, otherVars, historyVars>>

\* A preflight step failed: no Stopper exists yet and Run returns.
Leave ==
    /\ phase \in {"start", "listed"}
    /\ phase' = "done"
    /\ UNCHANGED <<daemonVars, snap, wanted, todo, cur, at, stopped, toStart, failed,
                   restartErrs, cancelled, otherVars, historyVars>>

\* Mutant: a user is stopped, and recorded, whether or not it is in use.
BeginStopUnfiltered(vs) ==
    /\ phase = "listed"
    /\ phase' = "stop" /\ wanted' = vs
    /\ todo' = {c \in Containers \ Helpers : \E v \in vs : UsesVolume(c, v)}
    /\ UNCHANGED <<daemonVars, snap, cur, at, stopped, toStart, failed,
                   restartErrs, cancelled, otherVars, historyVars>>

\* The call of Stop: what it will visit, its in-use and done filters applied.
BeginStop(vs) ==
    /\ phase = "listed"
    /\ phase' = "stop" /\ wanted' = vs
    /\ todo' = {c \in UsersOf(vs, snap) : InUse(snap[c])} \ stopped
    /\ UNCHANGED <<daemonVars, snap, cur, at, stopped, toStart, failed,
                   restartErrs, cancelled, otherVars, historyVars>>

\* Stop is not called (--no-stop): the deferred Restart still is.
SkipStop ==
    /\ phase = "listed"
    /\ phase' = "held"
    /\ UNCHANGED <<daemonVars, snap, wanted, todo, cur, at, stopped, toStart, failed,
                   restartErrs, cancelled, otherVars, historyVars>>

ReadStartedAt(c) ==
    /\ phase = "stop" /\ c \in todo /\ ~cancelled /\ cstate[c] # "gone"
    /\ phase' = "inspected" /\ cur' = c /\ todo' = todo \ {c}
    /\ at' = [at EXCEPT ![c] = started[c]]
    /\ UNCHANGED <<daemonVars, snap, wanted, stopped, toStart, failed, restartErrs,
                   cancelled, otherVars, historyVars>>

\* Mutant: a failed inspection skips the container.
StartedAtFailsSkips ==
    /\ phase = "stop"
    /\ \E c \in todo : todo' = todo \ {c}
    /\ UNCHANGED <<daemonVars, phase, snap, wanted, cur, at, stopped, toStart, failed,
                   restartErrs, cancelled, otherVars, historyVars>>

\* The inspection fails: Stop returns before a request is sent.
StartedAtFails ==
    /\ phase = "stop" /\ todo # {}
    /\ phase' = "failed"
    /\ UNCHANGED <<daemonVars, snap, wanted, todo, cur, at, stopped, toStart, failed,
                   restartErrs, cancelled, otherVars, historyVars>>

SendStop ==
    /\ phase = "inspected" /\ ~cancelled
    /\ phase' = "sent" /\ inflight' = inflight \cup {cur}
    /\ UNCHANGED <<cstate, started, clock, snap, wanted, todo, cur, at, stopped, toStart,
                   failed, restartErrs, cancelled, otherVars, historyVars>>

\* The daemon answered: down now, or (304) it was down already.  Both are
\* success to the client, which records the container.
StopOk ==
    /\ phase = "sent" /\ cur \notin inflight
    /\ phase' = "stop" /\ stopped' = stopped \cup {cur} /\ cur' = None
    /\ UNCHANGED <<daemonVars, snap, wanted, todo, at, toStart, failed, restartErrs,
                   cancelled, otherVars, historyVars>>

\* StopContainer returned an error: Stop returns without recording cur.
StopFailed == phase' = "failed" /\ failed' = {cur} /\ cur' = None

\* The request was not sent (cancelled, no connection) or the daemon refused
\* it (the container is gone): it has no effect.
StopRefused ==
    /\ phase = "inspected" \/ (phase = "sent" /\ cur \in inflight)
    /\ StopFailed
    /\ inflight' = inflight \ {cur}
    /\ UNCHANGED <<cstate, started, clock, snap, wanted, todo, at, stopped, toStart,
                   restartErrs, cancelled, otherVars, historyVars>>

\* The client gave up waiting (cancelled, connection lost): the request stays
\* with the daemon, which may have acted on it or may still do so.
StopLost ==
    /\ phase = "sent"
    /\ StopFailed
    /\ UNCHANGED <<daemonVars, snap, wanted, todo, at, stopped, toStart, restartErrs,
                   cancelled, otherVars, historyVars>>

StopReturns ==
    /\ phase = "stop" /\ todo = {}
    /\ phase' = "held"
    /\ UNCHANGED <<daemonVars, snap, wanted, todo, cur, at, stopped, toStart, failed,
                   restartErrs, cancelled, otherVars, historyVars>>

\* Mutant: Restart gives up under a cancelled context.
BeginRestartCancelled ==
    /\ phase \in {"held", "failed"}
    /\ phase' = "restart" /\ toStart' = IF cancelled THEN {} ELSE stopped
    /\ UNCHANGED <<daemonVars, snap, wanted, todo, cur, at, stopped, failed, restartErrs,
                   cancelled, otherVars, historyVars>>

\* The deferred call, reached from every return of Run once a Stopper exists.
BeginRestart ==
    /\ phase \in {"held", "failed"}
    /\ phase' = "restart" /\ toStart' = stopped
    /\ UNCHANGED <<daemonVars, snap, wanted, todo, cur, at, stopped, failed, restartErrs,
                   cancelled, otherVars, historyVars>>

\* Mutant: Restart does not sort.
NextToStartUnsorted(c) == phase = "restart" /\ c \in toStart

\* Restart goes through the recorded containers by ascending start time.
NextToStart(c) ==
    /\ phase = "restart" /\ c \in toStart
    /\ \A d \in toStart : at[c] <= at[d]

\* The daemon starts c, or finds it running.
Bring(c) ==
    IF InUse(cstate[c])
    THEN UNCHANGED <<cstate, started, clock, revived>>
    ELSE /\ cstate' = [cstate EXCEPT ![c] = "running"]
         /\ started' = [started EXCEPT ![c] = clock]
         /\ clock' = clock + 1
         /\ revived' = revived \cup {c}

StartOk(c) ==
    /\ NextToStart(c) /\ cstate[c] \notin {"gone", "paused"}
    /\ Bring(c)
    /\ toStart' = toStart \ {c}
    /\ UNCHANGED <<inflight, phase, snap, wanted, todo, cur, at, stopped, failed,
                   restartErrs, cancelled, otherVars, broughtDown>>

\* Mutant: Restart returns at the first failure.
StartFailsAborts(c) ==
    /\ NextToStart(c)
    /\ toStart' = {} /\ restartErrs' = restartErrs \cup {c}
    /\ UNCHANGED <<daemonVars, phase, snap, wanted, todo, cur, at, stopped, failed,
                   cancelled, otherVars, historyVars>>

\* The start fails, or succeeds and its answer is lost; Restart goes on.
StartFails(c) ==
    /\ NextToStart(c)
    /\ UNCHANGED <<cstate, started, clock, revived>> \/ (cstate[c] # "gone" /\ Bring(c))
    /\ toStart' = toStart \ {c} /\ restartErrs' = restartErrs \cup {c}
    /\ UNCHANGED <<inflight, phase, snap, wanted, todo, cur, at, stopped, failed,
                   cancelled, otherVars, broughtDown>>

\* Mutant: the list is not cleared.
RestartReturnsUncleared ==
    /\ phase = "restart" /\ toStart = {}
    /\ phase' = "done"
    /\ UNCHANGED <<daemonVars, snap, wanted, todo, cur, at, stopped, toStart, failed,
                   restartErrs, cancelled, otherVars, historyVars>>

RestartReturns ==
    /\ phase = "restart" /\ toStart = {}
    /\ phase' = "done" /\ stopped' = {}
    /\ UNCHANGED <<daemonVars, snap, wanted, todo, cur, at, toStart, failed, restartErrs,
                   cancelled, otherVars, historyVars>>

\* SIGINT or SIGTERM: the context is cancelled once; later signals do nothing.
Cancel ==
    /\ phase \notin {"done", "killed"} /\ ~cancelled
    /\ cancelled' = TRUE
    /\ UNCHANGED <<daemonVars, phase, snap, wanted, todo, cur, at, stopped, toStart, failed,
                   restartErrs, otherVars, historyVars>>

\* SIGKILL, SIGHUP or a power cut: no deferred call runs.
Kill ==
    /\ phase \notin {"done", "killed"}
    /\ phase' = "killed" /\ cur' = None
    /\ UNCHANGED <<daemonVars, snap, wanted, todo, at, stopped, toStart, failed,
                   restartErrs, cancelled, otherVars, historyVars>>

----------------------------------------------------------------------------
(* The daemon and the other actors.                                        *)

\* An accepted stop request takes effect.
DaemonStops(c) ==
    /\ c \in inflight /\ cstate[c] # "gone"
    /\ inflight' = inflight \ {c}
    /\ IF InUse(cstate[c])
       THEN cstate' = [cstate EXCEPT ![c] = "exited"] /\ broughtDown' = broughtDown \cup {c}
       ELSE UNCHANGED <<cstate, broughtDown>>
    /\ UNCHANGED <<started, clock, runVars, otherVars, revived>>

OtherActs(c) ==
    /\ budget > 0 /\ budget' = budget - 1
    /\ touched' = touched \cup {c}
    /\ UNCHANGED <<inflight, runVars, historyVars>>

OtherStarts(c) ==
    /\ cstate[c] \notin {"running", "gone"}
    /\ cstate' = [cstate EXCEPT ![c] = "running"]
    /\ started' = [started EXCEPT ![c] = clock] /\ clock' = clock + 1
    /\ OtherActs(c)

\* Another actor stops c, or c exits by itself.
OtherStops(c) ==
    /\ InUse(cstate[c])
    /\ cstate' = [cstate EXCEPT ![c] = "exited"]
    /\ OtherActs(c) /\ UNCHANGED <<started, clock>>

OtherRemoves(c) ==
    /\ cstate[c] # "gone"
    /\ cstate' = [cstate EXCEPT ![c] = "gone"]
    /\ OtherActs(c) /\ UNCHANGED <<started, clock>>

----------------------------------------------------------------------------
RunStep ==
    \/ ListContainers \/ Leave \/ SkipStop
    \/ \E vs \in SUBSET Volumes : BeginStop(vs)
    \/ \E c \in Containers : ReadStartedAt(c) \/ StartOk(c) \/ StartFails(c)
    \/ StartedAtFails \/ SendStop \/ StopOk \/ StopRefused \/ StopReturns
    \/ BeginRestart \/ RestartReturns

DaemonStep == \E c \in Containers : DaemonStops(c)

OtherStep == \E c \in Containers : OtherStarts(c) \/ OtherStops(c) \/ OtherRemoves(c)

Next == RunStep \/ StopLost \/ Cancel \/ Kill \/ DaemonStep \/ OtherStep

Spec == Init /\ [][Next]_vars

\* The run keeps going and the daemon finishes the requests it accepted;
\* nothing makes a signal, a lost answer or another actor happen.
Fairness == WF_vars(RunStep) /\ WF_vars(DaemonStep)

FairSpec == Spec /\ Fairness

----------------------------------------------------------------------------
(* Properties.                                                             *)

\* Every variable has its type; cur is set only while a container is being
\* stopped, Restart visits only recorded containers and clears the record.
TypeOK ==
    /\ cstate \in [Containers -> States]
    /\ started \in [Containers -> Nat] /\ clock \in Nat
    /\ inflight \subseteq Containers
    /\ phase \in Phases
    /\ snap \in [Containers -> States]
    /\ wanted \subseteq Volumes
    /\ todo \subseteq Containers
    /\ cur \in IF phase \in {"inspected", "sent"} THEN Containers ELSE {None}
    /\ at \in [Containers -> Nat]
    /\ stopped \subseteq Containers /\ toStart \subseteq stopped
    /\ phase \in {"start", "listed", "done"} => stopped = {}
    /\ failed \subseteq Containers /\ restartErrs \subseteq Containers
    /\ cancelled \in BOOLEAN
    /\ budget \in 0..OtherSteps
    /\ touched \subseteq Containers
    /\ broughtDown \subseteq Containers /\ revived \subseteq Containers

\* Only containers that mount a wanted volume, were in use when listed and are
\* no helpers are ever asked to stop, taken down or recorded (stopper.UsersOf,
\* stopper.Stop): a run never disturbs a bystander.
OnlyUsersStopped ==
    \A c \in broughtDown \cup inflight \cup stopped :
        c \notin Helpers /\ InUse(snap[c]) /\ Mounts[c] \cap wanted # {}

\* When Stop has returned nil, no container but a helper runs with a wanted
\* volume mounted, unless another actor acted on it: what backup and restore
\* rely on when they read or replace the data (backup.Run, restore.apply).
VolumesHeld ==
    phase = "held" =>
        \A c \in Containers \ (Helpers \cup touched) :
            (\E v \in wanted : UsesVolume(c, v)) => ~InUse(cstate[c])

AllBackOrNamed ==
    \A c \in broughtDown \ touched : InUse(cstate[c]) \/ c \in failed \cup restartErrs

\* When Run returns, by whatever path and after whatever signal, a container it
\* took down runs again, or an error names it, or another actor interfered
\* (stopper.Restart: every recorded container is attempted after a failure).
RestartedOrReported == phase = "done" => AllBackOrNamed

\* A container nobody else acted on is started only if a request of this run
\* had taken it down: Restart never starts what was down before.
RevivesOnlyStopped == revived \subseteq broughtDown \cup touched

\* Restart preserves the order in which the containers were started, whatever
\* the order in which they were stopped and whichever starts fail.
StartOrderKept ==
    \A c, d \in revived \ touched : at[c] < at[d] => started[c] < started[d]

\* A container taken down does not stay down: it runs again, or an error names
\* it, or another actor interfered, or the process was killed.
BroughtBack ==
    \A c \in Containers :
        c \in broughtDown ~>
            \/ InUse(cstate[c]) \/ c \in failed \cup restartErrs \cup touched
            \/ phase = "killed"

\* backup.go:35: "Containers stopped by Run are always restarted, even on error
\* or cancellation".  Refuted: StopContainer may return an error for a stop
\* that takes effect; the container is not recorded and stays down.
AlwaysRestarted ==
    phase = "done" =>
        \A c \in broughtDown \ touched : InUse(cstate[c]) \/ c \in restartErrs

=============================================================================
