---------------------------- MODULE ArchiveWriter ---------------------------
(***************************************************************************)
(* internal/archive.Writer: the protocol that builds an archive under a    *)
(* .partial name and publishes it by a rename.                             *)
(*                                                                         *)
(* Several writers share one output directory and one archive name, which  *)
(* is what two runs started in the same second for the same host do.  A    *)
(* file is identified with the writer that created it; a directory entry   *)
(* (partial, final) holds a file, as a name does: Rename and Remove act on *)
(* whatever file the name holds at that moment.                            *)
(*                                                                         *)
(* A file is the sequence of blocks appended to it: for each tar entry its *)
(* header and then its body, and the end-of-archive trailer.  A cut in the *)
(* middle of an entry leaves the header without the body.                  *)
(***************************************************************************)
EXTENDS Naturals, Sequences, FiniteSets

CONSTANTS
    Writers,   \* the archive.Writers that use the same directory and name
    Volumes,   \* the volumes that may be added
    Foreign,   \* a file with the archive's name that no writer created
    None       \* no file, no volume

ASSUME WriterAssumption ==
    /\ Foreign \notin Writers /\ None \notin Writers \cup {Foreign}
    /\ None \notin Volumes
    /\ Volumes \cap {"manifest", "readme", "end"} = {}
    /\ IsFiniteSet(Volumes)

VARIABLES
    partial,   \* the file the .partial name holds
    final,     \* the file the .tar name holds
    data,      \* the blocks of each writer's file
    synced,    \* how many of them are known to be on disk
    wpc,       \* where each writer is
    adding,    \* the volume AddVolume is at
    listed     \* the volumes added so far: what the manifest will list

wvars == <<partial, final, data, synced, wpc, adding, listed>>

Entries == Volumes \cup {"manifest", "readme", "end"}
Header(e) == <<e, "header">>
Body(e) == <<e, "body">>
Blocks == Entries \X {"header", "body"}

\* The length of an archive that holds every volume.
MaxBlocks == 2 * Cardinality(Volumes) + 5

\* tar.Writer: an entry's header and data; the trailer.
WithEntry(s, e) == Append(Append(s, Header(e)), Body(e))

Stages == {"idle", "checked", "open", "compress", "manifest", "readme", "trailer",
           "synced", "closed", "broken", "done", "refused", "aborted", "left", "killed"}

\* The stages of a writer that has its .partial and has not given it up.
Working == {"open", "compress", "manifest", "readme", "trailer", "synced", "closed",
            "broken"}

WInit ==
    /\ partial = None
    /\ final \in {None, Foreign}
    /\ data = [p \in Writers |-> <<>>]
    /\ synced = [p \in Writers |-> 0]
    /\ wpc = [p \in Writers |-> "idle"]
    /\ adding = [p \in Writers |-> None]
    /\ listed = [p \in Writers |-> {}]

Goto(p, from, to) == wpc[p] \in from /\ wpc' = [wpc EXCEPT ![p] = to]

----------------------------------------------------------------------------
(* NewWriter: look for the final name, then create the partial one.        *)

StatFinal(p) ==
    /\ IF final = None THEN Goto(p, {"idle"}, "checked") ELSE Goto(p, {"idle"}, "refused")
    /\ UNCHANGED <<partial, final, data, synced, adding, listed>>

\* Mutant: without O_EXCL.
OpenPartialShared(p) ==
    /\ Goto(p, {"checked"}, "open")
    /\ partial' = p
    /\ UNCHANGED <<final, data, synced, adding, listed>>

OpenPartial(p) ==
    /\ Goto(p, {"checked"}, "open")
    /\ partial = None /\ partial' = p
    /\ UNCHANGED <<final, data, synced, adding, listed>>

\* Mutant: NewWriter fails after it created the file and leaves it there.
OpenFailsLate(p) ==
    /\ Goto(p, {"checked"}, "refused")
    /\ partial' = IF partial = None THEN p ELSE partial
    /\ UNCHANGED <<final, data, synced, adding, listed>>

\* O_EXCL refuses an existing .partial, or the file cannot be created.
OpenFails(p) ==
    /\ Goto(p, {"checked"}, "refused")
    /\ UNCHANGED <<partial, final, data, synced, adding, listed>>

(* AddVolume: compress the stream into a temporary file, then append it as *)
(* an entry.  The temporary file is not modelled: its name is unique, only *)
(* this call reads it, and the error of its removal is discarded, so that  *)
(* nothing can be said of whether one is left.                             *)

BeginAdd(p, v) ==
    /\ Goto(p, {"open"}, "compress") /\ v \notin listed[p]
    /\ adding' = [adding EXCEPT ![p] = v]
    /\ UNCHANGED <<partial, final, data, synced, listed>>

AppendVolume(p) ==
    /\ Goto(p, {"compress"}, "open")
    /\ data' = [data EXCEPT ![p] = WithEntry(@, adding[p])]
    /\ listed' = [listed EXCEPT ![p] = @ \cup {adding[p]}]
    /\ adding' = [adding EXCEPT ![p] = None]
    /\ UNCHANGED <<partial, final, synced>>

\* The stream, the compression or the copy fails; a failed copy may leave the
\* entry's header and part of its body behind.
AddFails(p) ==
    /\ Goto(p, {"open", "compress"}, "broken")
    /\ \/ UNCHANGED data
       \/ wpc[p] = "compress" /\ data' = [data EXCEPT ![p] = Append(@, Header(adding[p]))]
    /\ adding' = [adding EXCEPT ![p] = None]
    /\ UNCHANGED <<partial, final, synced, listed>>

(* Finish.                                                                 *)

WriteManifest(p) ==
    /\ Goto(p, {"open"}, "manifest")
    /\ data' = [data EXCEPT ![p] = WithEntry(@, "manifest")]
    /\ UNCHANGED <<partial, final, synced, adding, listed>>

WriteReadme(p) ==
    /\ Goto(p, {"manifest"}, "readme")
    /\ data' = [data EXCEPT ![p] = WithEntry(@, "readme")]
    /\ UNCHANGED <<partial, final, synced, adding, listed>>

CloseTar(p) ==
    /\ Goto(p, {"readme"}, "trailer")
    /\ data' = [data EXCEPT ![p] = Append(@, Body("end"))]
    /\ UNCHANGED <<partial, final, synced, adding, listed>>

\* Mutant: the file is not synced.
SyncSkipped(p) ==
    /\ Goto(p, {"trailer"}, "synced")
    /\ UNCHANGED <<partial, final, data, synced, adding, listed>>

Sync(p) ==
    /\ Goto(p, {"trailer"}, "synced")
    /\ synced' = [synced EXCEPT ![p] = Len(data[p])]
    /\ UNCHANGED <<partial, final, data, adding, listed>>

CloseFile(p) ==
    /\ Goto(p, {"synced"}, "closed")
    /\ UNCHANGED <<partial, final, data, synced, adding, listed>>

\* os.Rename replaces whatever the final name holds.
Rename(p) ==
    /\ Goto(p, {"closed"}, "done")
    /\ partial # None /\ final' = partial /\ partial' = None
    /\ UNCHANGED <<data, synced, adding, listed>>

\* Any step of Finish fails; an entry that could not be written may leave its
\* header behind.
FinishFails(p) ==
    /\ Goto(p, {"open", "manifest", "readme", "trailer", "synced", "closed"}, "broken")
    /\ \/ UNCHANGED data
       \/ /\ wpc[p] \in {"open", "manifest"}
          /\ data' = [data EXCEPT ![p] =
                 Append(@, Header(IF wpc[p] = "open" THEN "manifest" ELSE "readme"))]
    /\ UNCHANGED <<partial, final, synced, adding, listed>>

\* Mutant: Abort takes the writer for done.
AbortForgets(p) ==
    /\ Goto(p, {"open", "broken"}, "aborted")
    /\ UNCHANGED <<partial, final, data, synced, adding, listed>>

\* Abort, called for any error of the run once the writer exists, removes the
\* .partial by its name; a failure to do so is only a warning.
Abort(p) ==
    /\ Goto(p, {"open", "broken"}, "aborted")
    /\ partial' = None
    /\ UNCHANGED <<final, data, synced, adding, listed>>

AbortFails(p) ==
    /\ Goto(p, {"open", "broken"}, "left")
    /\ UNCHANGED <<partial, final, data, synced, adding, listed>>

----------------------------------------------------------------------------
(* The world around the writers.                                           *)

\* The process of a writer dies; what it wrote stays in the page cache.
KillWriter(p) ==
    /\ Goto(p, Working \cup {"idle", "checked"}, "killed")
    /\ UNCHANGED <<partial, final, data, synced, adding, listed>>

\* The machine dies: every file keeps at least its synced prefix.  The directory
\* is never synced, so that its last changes may be lost: a name that was created
\* is gone, a .partial that was removed is back, or a rename is undone.
PowerLoss ==
    /\ \E p \in Writers : wpc[p] # "killed"
    /\ wpc' = [p \in Writers |-> "killed"]
    /\ \E keep \in [Writers -> 0..MaxBlocks] :
        /\ \A p \in Writers : keep[p] \in synced[p]..Len(data[p])
        /\ data' = [p \in Writers |-> SubSeq(data[p], 1, keep[p])]
    /\ \/ /\ partial' \in {partial, None} \cup {p \in Writers : wpc[p] = "aborted"}
          /\ final' \in {final} \cup (IF final = Foreign THEN {} ELSE {None})
       \/ final \in Writers /\ partial' = final /\ final' \in {None, Foreign}
    /\ UNCHANGED <<synced, adding, listed>>

\* Somebody copies an archive of that name into the directory.
OtherPlacesFinal ==
    /\ final = None /\ final' = Foreign
    /\ UNCHANGED <<partial, data, synced, wpc, adding, listed>>

\* Somebody removes what a dead or failed run left behind, as the error of
\* NewWriter asks.
OtherRemovesLeftover(p) ==
    /\ partial = p /\ wpc[p] \in {"left", "killed"}
    /\ partial' = None
    /\ UNCHANGED <<final, data, synced, wpc, adding, listed>>

----------------------------------------------------------------------------
WriterStep(p) ==
    \/ StatFinal(p) \/ OpenPartial(p) \/ OpenFails(p)
    \/ \E v \in Volumes : BeginAdd(p, v)
    \/ AppendVolume(p) \/ AddFails(p)
    \/ WriteManifest(p) \/ WriteReadme(p) \/ CloseTar(p) \/ Sync(p) \/ CloseFile(p)
    \/ Rename(p) \/ FinishFails(p) \/ Abort(p) \/ AbortFails(p)

WNext ==
    \/ \E p \in Writers : WriterStep(p) \/ KillWriter(p) \/ OtherRemovesLeftover(p)
    \/ PowerLoss \/ OtherPlacesFinal

WSpec == WInit /\ [][WNext]_wvars

----------------------------------------------------------------------------
(* Properties.                                                             *)

\* Every variable has its type; the .partial name holds only files that were
\* created and neither published nor removed; AddVolume is at a volume.
WTypeOK ==
    /\ partial \in Writers \cup {None}
    /\ final \in Writers \cup {Foreign, None}
    /\ data \in [Writers -> Seq(Blocks)]
    /\ synced \in [Writers -> Nat]
    /\ wpc \in [Writers -> Stages]
    /\ adding \in [Writers -> Volumes \cup {None}]
    /\ listed \in [Writers -> SUBSET Volumes]
    /\ \A p \in Writers :
        /\ partial = p => wpc[p] \notin {"idle", "checked", "refused", "done", "aborted"}
        /\ wpc[p] = "compress" => adding[p] \in Volumes

\* The .partial name holds the file of the writer that is working, from its
\* creation to its rename or removal, so that Rename and Abort, which act by
\* name, never publish or remove the file of another run (NewWriter, O_EXCL).
PartialOwned == \A p \in Writers : wpc[p] \in Working => partial = p

Has(s, b) == \E i \in DOMAIN s : s[i] = b

\* A file a writer published under the final name is whole, down to the
\* trailer, even after a power cut: Finish syncs it before the rename.
FinalComplete ==
    final \in Writers =>
        \A e \in listed[final] \cup {"manifest", "readme", "end"} :
            Has(data[final], Body(e))

VolumesBeforeManifest(s, vs) ==
    \A i \in DOMAIN s : s[i] = Body("manifest") =>
        \A v \in vs : \E j \in 1..(i - 1) : s[j] = Body(v)

\* Wherever a file is cut, if its manifest is there then so is every volume the
\* manifest lists: the manifest is the last thing that can go missing, which
\* is why Open may take a file without one for an incomplete backup.
ManifestAfterVolumes ==
    \A p \in Writers : VolumesBeforeManifest(data[p], listed[p])

\* A run that ended leaves no .partial of its own behind, except when Abort failed
\* to remove it and warned, and one that failed has not published anything
\* (Finish, Abort), whatever the other run with the same names does meanwhile.
NothingLeftBehind ==
    \A p \in Writers :
        wpc[p] \in {"done", "refused", "aborted", "left"} =>
            /\ partial = p => wpc[p] = "left"
            /\ final = p => wpc[p] = "done"

\* README.md:61: "backup refuses to run if that .tar or its .partial already
\* exists (create with O_EXCL); it never overwrites".  Refuted: the .tar is
\* looked for once, before the backup, and os.Rename replaces one that has
\* appeared since.
NeverOverwrites == [][final' \in Writers => final \in {None, final'}]_wvars

=============================================================================
