------------------------------ MODULE MCRivals ------------------------------
(* Two containers that share a volume, one of them with a second volume:   *)
(* the two runs may want the same volume or different ones.                *)
EXTENDS Rivals, TLC

CONSTANTS app, db, v, w

MCMounts == (app :> {v}) @@ (db :> {v, w})
=============================================================================
