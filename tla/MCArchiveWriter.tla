-------------------------- MODULE MCArchiveWriter --------------------------
(* Two writers of the same archive name; the writers, and the volumes, are *)
(* interchangeable.                                                        *)
EXTENDS ArchiveWriter, TLC

Symmetric == Permutations(Writers) \cup Permutations(Volumes)
=============================================================================
