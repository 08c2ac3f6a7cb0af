----------------------------- MODULE MCStopper -----------------------------
(* Two containers that share a volume, one of them with a second volume,   *)
(* and a dv-backup helper on the shared volume.                            *)
EXTENDS Stopper, TLC

CONSTANTS app, db, helper, v, w

MCMounts == (app :> {v}) @@ (db :> {v, w}) @@ (helper :> {v})
=============================================================================
