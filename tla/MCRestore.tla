----------------------------- MODULE MCRestore ------------------------------
(* One or two containers on a volume, which are interchangeable, and a     *)
(* volume nobody mounts, which may be missing.                             *)
EXTENDS Restore, TLC

CONSTANTS app, db, v, w

MCMounts == (app :> {v}) @@ (db :> {v})
MCMountsOne == app :> {v}

Symmetric == Permutations(Containers)
=============================================================================
