------------------------------ MODULE MCBackup ------------------------------
(* One container that uses both volumes, one that uses one of them, and    *)
(* the helper of another run; the smaller instances leave some of them out.*)
EXTENDS Backup, TLC

CONSTANTS app, db, helperC, v, w

MCMounts == (app :> {v}) @@ (db :> {v, w}) @@ (helperC :> {v})
MCMountsOne == app :> {v, w}
=============================================================================
