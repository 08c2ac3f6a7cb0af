---------------------------- MODULE ArchiveReader ----------------------------
(***************************************************************************)
(* internal/archive.Reader, as restore.Run uses it, in the directory in    *)
(* which archive.Writers are at work (ArchiveWriter): Open scans the tar   *)
(* headers and the manifest, selection.Filter picks the volumes, Verify    *)
(* hashes each of them, and OpenVolume hands out their streams.            *)
(*                                                                         *)
(* Open may be given either name and meet any file: growing, cut by a      *)
(* crash, given up, or about to be replaced; an open file stays open when  *)
(* its name goes to another.  A tar reader skips an entry's data when it   *)
(* is asked for the next entry, and only then notices that it is cut.      *)
(***************************************************************************)
EXTENDS ArchiveWriter

CONSTANTS
    Project,    \* the Compose project of each volume
    Projects    \* the projects a command line may name

\* None also stands for the manifest of a file that has none.
ASSUME ReaderAssumption == \A vs \in SUBSET Volumes : vs # None

VARIABLES
    rpc,         \* where the reader is
    file,        \* the file it has open
    whole,       \* it was opened under the final name
    pos,         \* the blocks of it that were read or skipped
    entries,     \* r.entries
    manifest,    \* the volumes the manifest lists, or None
    asked,       \* the names and projects of the command line
    selected,    \* the volumes Filter selected
    verified,    \* <<file, volume>> that passed Verify
    unpacked,    \* <<file, volume>> that was handed out by OpenVolume
    damaged,     \* <<file, entry>> whose data on the disk went bad
    refused      \* why the run gave up

Sel == INSTANCE Selection

rvars == <<rpc, file, whole, pos, entries, manifest, asked, selected, verified, unpacked,
           refused>>
avars == <<wvars, rvars, damaged>>

ReaderStages == {"closed", "scan", "data", "check", "filter", "selected", "verify",
                 "unpack", "done", "refused"}

Nothing == [names |-> {}, projects |-> {}]

AInit ==
    /\ WInit
    /\ rpc = "closed" /\ file = None /\ whole = FALSE /\ pos = 0
    /\ entries = {} /\ manifest = None /\ asked = Nothing /\ selected = <<>>
    /\ verified = {} /\ unpacked = {} /\ damaged = {} /\ refused = None

Step(from, to) == rpc = from /\ rpc' = to

Refuse(why) == rpc' = "refused" /\ refused' = why

\* What is still to be read of the open file.
AtEnd == pos = Len(data[file])
Block == data[file][pos + 1]

----------------------------------------------------------------------------
(* Open.                                                                   *)

OpenFile(f) ==
    /\ Step("closed", "scan")
    /\ f \in {partial, final} \cap Writers
    /\ file' = f /\ whole' = (f = final)
    /\ UNCHANGED <<wvars, pos, entries, manifest, asked, selected, verified, unpacked,
                   damaged, refused>>

Known(e) == e \in Volumes \cup {"manifest", "readme"}

\* tr.Next returns a header: its data is read if it is the manifest, and will
\* otherwise be skipped.
NextEntry ==
    /\ rpc = "scan" /\ ~AtEnd /\ Block[2] = "header"
    /\ IF Known(Block[1])
       THEN /\ rpc' = "data" /\ entries' = entries \cup {Block[1]}
            /\ pos' = pos + 1 /\ UNCHANGED refused
       ELSE Refuse("unexpected entry") /\ UNCHANGED <<entries, pos>>
    /\ UNCHANGED <<wvars, file, whole, manifest, asked, selected, verified, unpacked,
                   damaged>>

\* The last header was that of the manifest.
AtManifest == data[file][pos] = Header("manifest")

EntryData ==
    /\ Step("data", "scan") /\ ~AtEnd /\ Block[2] = "body"
    /\ pos' = pos + 1
    /\ manifest' = IF AtManifest THEN listed[file] ELSE manifest
    /\ UNCHANGED <<wvars, file, whole, entries, asked, selected, verified, unpacked,
                   damaged, refused>>

\* io.ErrUnexpectedEOF, from reading the manifest or from skipping the data.
EntryCut ==
    /\ rpc = "data" /\ (~AtEnd => Block[2] # "body")
    /\ Refuse("cut")
    /\ UNCHANGED <<wvars, file, whole, pos, entries, manifest, asked, selected, verified,
                   unpacked, damaged>>

\* io.EOF: the trailer, or a file that ends between two entries.
ScanEnds ==
    /\ Step("scan", "check") /\ (~AtEnd => Block = Body("end"))
    /\ UNCHANGED <<wvars, file, whole, pos, entries, manifest, asked, selected, verified,
                   unpacked, damaged, refused>>

\* Mutant: a missing manifest is taken for one that lists nothing.
OpenEndsWithout ==
    /\ rpc = "check"
    /\ IF <<file, "manifest">> \in damaged THEN Refuse("unreadable")
       ELSE IF manifest = None \/ manifest \subseteq entries
       THEN rpc' = "filter" /\ UNCHANGED refused
       ELSE Refuse("entry missing")
    /\ manifest' = IF manifest = None THEN {} ELSE manifest
    /\ UNCHANGED <<wvars, file, whole, pos, entries, asked, selected, verified, unpacked,
                   damaged>>

\* A manifest that went bad does not parse, or names an entry or a size that is
\* not in the file; otherwise name and size are those AddVolume returned.
OpenEnds ==
    /\ rpc = "check"
    /\ IF manifest = None THEN Refuse("no manifest")
       ELSE IF <<file, "manifest">> \in damaged
       THEN \E why \in {"unreadable", "entry missing", "wrong size"} : Refuse(why)
       ELSE IF ~(manifest \subseteq entries) THEN Refuse("entry missing")
       ELSE rpc' = "filter" /\ UNCHANGED refused
    /\ UNCHANGED <<wvars, file, whole, pos, entries, manifest, asked, selected, verified,
                   unpacked, damaged>>

----------------------------------------------------------------------------
(* restore.Run: select, verify, unpack.                                    *)

\* The volumes of the manifest, in its order.
Items == Sel!InOrder(manifest)

Select(names, projects) ==
    LET found == Sel!Filter(Items, names, projects) IN
    /\ rpc = "filter"
    /\ asked' = [names |-> names, projects |-> projects]
    /\ selected' = found.out
    /\ IF found.ok THEN rpc' = "selected" /\ UNCHANGED refused ELSE Refuse("not found")
    /\ UNCHANGED <<wvars, file, whole, pos, entries, manifest, verified, unpacked,
                   damaged>>

\* The command line is of no further use.
BeginVerify ==
    /\ Step("selected", "verify") /\ asked' = Nothing
    /\ UNCHANGED <<wvars, file, whole, pos, entries, manifest, selected, verified,
                   unpacked, damaged, refused>>

\* Verify hashes the section that Open recorded.
VerifyNext ==
    /\ rpc = "verify" /\ Cardinality(verified) < Len(selected)
    /\ LET s == <<file, selected[Cardinality(verified) + 1]>> IN
       IF s \in damaged THEN Refuse("checksum") /\ UNCHANGED verified
       ELSE verified' = verified \cup {s} /\ UNCHANGED <<rpc, refused>>
    /\ UNCHANGED <<wvars, file, whole, pos, entries, manifest, asked, selected, unpacked,
                   damaged>>

AllVerified ==
    /\ Step("verify", "unpack") /\ Cardinality(verified) = Len(selected)
    /\ UNCHANGED <<wvars, file, whole, pos, entries, manifest, asked, selected, verified,
                   unpacked, damaged, refused>>

\* Mutant: the archive is opened again, by its name.
UnpackByName ==
    /\ rpc = "unpack" /\ Cardinality(unpacked) < Len(selected) /\ final \in Writers
    /\ unpacked' = unpacked \cup {<<final, selected[Cardinality(unpacked) + 1]>>}
    /\ UNCHANGED <<wvars, rpc, file, whole, pos, entries, manifest, asked, selected,
                   verified, damaged, refused>>

\* OpenVolume: the section of the open file.
UnpackNext ==
    /\ rpc = "unpack" /\ Cardinality(unpacked) < Len(selected)
    /\ unpacked' = unpacked \cup {<<file, selected[Cardinality(unpacked) + 1]>>}
    /\ UNCHANGED <<wvars, rpc, file, whole, pos, entries, manifest, asked, selected,
                   verified, damaged, refused>>

AllUnpacked ==
    /\ Step("unpack", "done") /\ Cardinality(unpacked) = Len(selected)
    /\ UNCHANGED <<wvars, file, whole, pos, entries, manifest, asked, selected, verified,
                   unpacked, damaged, refused>>

----------------------------------------------------------------------------
(* The disk.                                                               *)

\* A read of the file fails.
ReadFails ==
    /\ rpc \in {"scan", "data", "verify", "unpack"} /\ Refuse("read error")
    /\ UNCHANGED <<wvars, file, whole, pos, entries, manifest, asked, selected, verified,
                   unpacked, damaged>>

\* The data of one volume, or the manifest, goes bad on the disk.  Nobody can tell
\* before Verify, or the end of Open, looks at it: that is early enough for it.
Damage(e) ==
    /\ (rpc = "verify" /\ e \in Volumes) \/ (rpc = "check" /\ e = "manifest")
    /\ damaged = {} /\ Has(data[file], Body(e))
    /\ damaged' = {<<file, e>>}
    /\ UNCHANGED <<wvars, rvars>>

\* A power cut ends the reader too, which is then a reader that opens later.
Crash == rpc = "closed" /\ PowerLoss /\ UNCHANGED <<rvars, damaged>>

WritersGoOn ==
    /\ \/ \E p \in Writers : WriterStep(p) \/ KillWriter(p) \/ OtherRemovesLeftover(p)
       \/ OtherPlacesFinal
    /\ UNCHANGED <<rvars, damaged>>

----------------------------------------------------------------------------
Open ==
    \/ \E f \in Writers : OpenFile(f)
    \/ NextEntry \/ EntryData \/ EntryCut \/ ScanEnds \/ OpenEnds

Restore ==
    \/ \E names \in SUBSET Volumes, projects \in SUBSET Projects : Select(names, projects)
    \/ BeginVerify \/ VerifyNext \/ AllVerified \/ UnpackNext \/ AllUnpacked

ANext ==
    \/ Open \/ Restore \/ ReadFails
    \/ \E e \in Entries : Damage(e)
    \/ Crash \/ WritersGoOn

ASpec == AInit /\ [][ANext]_avars

----------------------------------------------------------------------------
(* Properties.                                                             *)

Opened == rpc \in {"filter", "selected", "verify", "unpack", "done"}

\* Whatever file Open is given, of whatever age and however it was cut or given
\* up, if it accepts it then the manifest was read and the file holds all the
\* data of every volume the manifest lists: an incomplete backup is recognised
\* without reading the volumes' data ("incomplete backup?", reader.go:68).
OpenedIsWhole ==
    Opened =>
        /\ manifest = listed[file]
        /\ \A e \in manifest \cup {"manifest"} : Has(data[file], Body(e))

\* A file that a backup published can be restored: Open accepts what Finish has
\* written, also after a power cut, and Verify or Open refuses it only for data
\* that went bad on the disk.
PublishedOpens ==
    whole /\ rpc = "refused" =>
        \/ refused \in {"read error", "not found"}
        \/ refused = "checksum" /\ \E v \in Volumes : <<file, v>> \in damaged
        \/ <<file, "manifest">> \in damaged

\* Filter's one pass selects the union of the names and the projects, in the
\* manifest's order and each volume once, and fails exactly if a name or a
\* project matches nothing or nothing is selected (selection.Filter).
SelectionRight ==
    LET names == asked.names projects == asked.projects IN
    /\ rpc = "selected" =>
        /\ ~Sel!MeantToFail(manifest, names, projects)
        /\ {selected[i] : i \in DOMAIN selected} = Sel!Meant(manifest, names, projects)
        /\ Sel!KeepsOrder(selected, Items)
    /\ rpc = "refused" /\ refused = "not found" =>
        Sel!MeantToFail(manifest, names, projects)

\* What is unpacked into a volume is the section that passed Verify, although
\* the name the archive was opened under may have gone to another file since.
UnpackedIsVerified == unpacked \subseteq verified

=============================================================================
