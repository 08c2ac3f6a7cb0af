------------------------------ MODULE Selection ------------------------------
(***************************************************************************)
(* internal/selection.Filter: the volumes that the names and the Compose   *)
(* projects of a command line select, as the code computes it, in one pass *)
(* over the volumes, and what that is meant to be.                         *)
(*                                                                         *)
(* A volume is identified with its name.  A volume without the Compose     *)
(* label has the empty project name, which may be asked for like any other.*)
(***************************************************************************)
EXTENDS Naturals, SequencesExt

CONSTANT Project   \* the project of each volume

\* A manifest lists its volumes in some order.
InOrder(vs) == SetToSeq(vs)

\* Mutant: a volume counts for its name or for its project, not for both.
VisitEither(acc, v, names, projects) ==
    [unseen         |-> acc.unseen \ {v},
     unseenProjects |-> IF v \in names THEN acc.unseenProjects
                        ELSE acc.unseenProjects \ {Project[v]},
     out            |-> IF v \in names \/ Project[v] \in projects
                        THEN Append(acc.out, v) ELSE acc.out]

\* One turn of the loop: unseen and unseenProjects are what was asked for and
\* has not been met.
Visit(acc, v, names, projects) ==
    [unseen         |-> acc.unseen \ {v},
     unseenProjects |-> acc.unseenProjects \ {Project[v]},
     out            |-> IF v \in names \/ Project[v] \in projects
                        THEN Append(acc.out, v) ELSE acc.out]

\* The whole loop over the sequence items.
Scan(items, names, projects) ==
    LET after[i \in 0..Len(items)] ==
            IF i = 0 THEN [unseen |-> names, unseenProjects |-> projects, out |-> <<>>]
            ELSE Visit(after[i - 1], items[i], names, projects)
    IN  after[Len(items)]

\* The selected items, in their order; ok is FALSE for an error.
Filter(items, names, projects) ==
    IF names = {} /\ projects = {} THEN [ok |-> items # <<>>, out |-> items]
    ELSE LET end == Scan(items, names, projects) IN
         [ok |-> end.unseen = {} /\ end.unseenProjects = {}, out |-> end.out]

\* What Filter is meant to select from the volumes vs: the union of both lists,
\* or everything if nothing is asked for.
Meant(vs, names, projects) ==
    IF names = {} /\ projects = {} THEN vs
    ELSE {v \in vs : v \in names \/ Project[v] \in projects}

\* ... and when it is meant to fail: something matches nothing, or all of it does.
MeantToFail(vs, names, projects) ==
    \/ ~(names \subseteq vs) \/ ~(projects \subseteq {Project[v] : v \in vs})
    \/ Meant(vs, names, projects) = {}

\* out lists some of the items in their order, and none twice unless they do.
KeepsOrder(out, items) ==
    \A i, j \in DOMAIN out : i < j =>
        \E k, l \in DOMAIN items : k < l /\ items[k] = out[i] /\ items[l] = out[j]
=============================================================================
