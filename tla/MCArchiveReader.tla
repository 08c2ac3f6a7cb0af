--------------------------- MODULE MCArchiveReader ---------------------------
(* Interchangeable writers of the same archive name and two volumes, with  *)
(* and without a Compose project; a project that no volume has.            *)
EXTENDS ArchiveReader, TLC

CONSTANTS v, w

MCProject == (v :> "app") @@ (w :> "")
MCProjects == {"app", "", "other"}

\* What the writers do while a file is read matters only if it is to that file,
\* or to the name it had, which could only be looked up again at the unpacking:
\* all else they may as well do before the file is opened, or then.
MovesThatMatter ==
    wvars' # wvars =>
        \/ rpc = "closed"
        \/ rpc \in {"scan", "data"} /\ wpc'[file] # wpc[file]
        \/ rpc = "unpack" /\ unpacked = {} /\ damaged = {}

\* Filter looks at the manifest alone: that projects are asked for as well need
\* not be tried again for everything the other writer may have done by then.
SelectsOnce ==
    asked' # asked /\ asked'.projects # {} =>
        \A p \in Writers \ {file} : wpc[p] = "idle"

WhenItMatters == MovesThatMatter /\ SelectsOnce

Symmetric == Permutations(Writers)
=============================================================================
