---------------------------- MODULE RestorePlan -----------------------------
(***************************************************************************)
(* internal/restore/plan.go: what a restore does with each volume, as a    *)
(* pure function of the observed state of the host and of --force.         *)
(*                                                                         *)
(* An observation is a record of what was seen of one volume: whether it   *)
(* exists, whether it is empty, and its users.  Reasons, warnings and the  *)
(* printed table are left out.                                             *)
(***************************************************************************)

Actions == {"create", "unpack", "overwrite", "blocked"}

\* Mutant: a volume that is empty may be unpacked into while it is in use.
ActionForEmptyInUse(st, inUse, force) ==
    IF ~st.exists THEN "create"
    ELSE IF st.empty THEN "unpack"
    ELSE IF force THEN "overwrite" ELSE "blocked"

\* What to do with a volume seen as st, inUse being its users that are in use.
ActionFor(st, inUse, force) ==
    IF ~st.exists THEN "create"
    ELSE IF st.empty /\ inUse = {} THEN "unpack"
    ELSE IF force THEN "overwrite" ELSE "blocked"

\* The step for one volume: its action and the containers it stops.
StepFor(st, inUse, force) ==
    LET action == ActionFor(st, inUse, force) IN
        [action |-> action, stop |-> IF action = "overwrite" THEN inUse ELSE {}]

\* The plan for the volumes vs; busy are the containers listed as in use.
BuildPlan(vs, seen, busy, force) ==
    [v \in vs |-> StepFor(seen[v], seen[v].users \cap busy, force)]

\* Mutant: the plan is blocked only if all its steps are.
BlockedIfAll(plan) ==
    DOMAIN plan # {} /\ \A v \in DOMAIN plan : plan[v].action = "blocked"

\* One blocked step blocks the whole plan.
Blocked(plan) == \E v \in DOMAIN plan : plan[v].action = "blocked"

\* The containers the plan stops, once each.
ToStop(plan) == UNION {plan[v].stop : v \in DOMAIN plan}

=============================================================================
