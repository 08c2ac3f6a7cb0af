------------------------ MODULE ArchiveReaderProofs -------------------------
(***************************************************************************)
(* Theorems about the archive reader, for any number of writers and any    *)
(* volumes.  The reader takes no step of a writer's, so that WInv, the     *)
(* invariant of ArchiveWriterProofs, holds while it reads.  Four parts are *)
(* added, each kept by a lemma of its own:                                 *)
(*                                                                         *)
(*   FormInv      what any file looks like, wherever it was cut;           *)
(*   ReaderInv    where the reader stands in the file it has open;         *)
(*   ManifestInv  what it has met there holds of the file for good;        *)
(*   WholeInv     under the final name it meets all that a whole file has, *)
(*                and finds no reason to refuse it.                        *)
(*                                                                         *)
(* What comes after Open follows: VerifiedInv says how far verification    *)
(* has come, and an induction over the list of a manifest (UpTo,           *)
(* ScanMeets) shows what the loop of selection.Filter computes.            *)
(***************************************************************************)
EXTENDS ArchiveReader, ArchiveWriterProofs, FiniteSetTheorems

\* A file as archive.Writer builds it, wherever it may be cut: the body of an
\* entry comes after its header, and after the trailer comes nothing.
WellFormed(s) ==
    \A i \in DOMAIN s :
        /\ s[i] = Body("end") => i = Len(s)
        /\ s[i] # Body("end") => \E e \in Entries \ {"end"} :
               \/ s[i] = Header(e) /\ (i < Len(s) => s[i + 1] = Body(e))
               \/ s[i] = Body(e) /\ i > 1 /\ s[i - 1] = Header(e)

\* ... and one that another entry may be appended to.
Growing(s) ==
    /\ WellFormed(s) /\ ~Has(s, Body("end"))
    /\ Len(s) > 0 => s[Len(s)][2] = "body"

\* An entry's two blocks are told apart, and from those of other entries.
LEMMA BlockNames ==
  ASSUME NEW e, NEW f
  PROVE  /\ Header(e) = Header(f) => e = f
         /\ Body(e) = Body(f) => e = f
         /\ Header(e) # Body(f)
         /\ Header(e)[1] = e /\ Header(e)[2] = "header" /\ Body(e)[2] = "body"
BY DEF Header, Body

\* One block more.
LEMMA BlockFormed ==
  ASSUME NEW s \in Seq(Blocks), Growing(s), NEW e \in Entries \ {"end"}
  PROVE  WellFormed(Append(s, Header(e))) /\ WellFormed(Append(s, Body("end")))
<1>1. Header(e) \in Blocks /\ Body("end") \in Blocks
  BY DEF Header, Body, Blocks, Entries
<1>2. DOMAIN s = 1..Len(s) /\ Len(s) \in Nat
  BY LenProperties
<1>3. ASSUME NEW b \in {Header(e), Body("end")} PROVE WellFormed(Append(s, b))
  <2> DEFINE t == Append(s, b)
  <2>1. /\ t \in Seq(Blocks) /\ Len(t) = Len(s) + 1 /\ DOMAIN t = 1..(Len(s) + 1)
        /\ \A i \in 1..Len(s) : t[i] = s[i]
        /\ t[Len(s) + 1] = b
    BY <1>1, BlockAdded, LenProperties
  <2> HIDE DEF t
  <2>2. SUFFICES ASSUME NEW i \in 1..(Len(s) + 1)
                 PROVE  /\ t[i] = Body("end") => i = Len(t)
                        /\ t[i] # Body("end") => \E f \in Entries \ {"end"} :
                               \/ t[i] = Header(f) /\ (i < Len(t) => t[i + 1] = Body(f))
                               \/ t[i] = Body(f) /\ i > 1 /\ t[i - 1] = Header(f)
    BY <2>1 DEF t, WellFormed
  <2>3. CASE i = Len(s) + 1
    BY <1>2, <2>1, <2>3
  <2>4. CASE i \in 1..Len(s)
    <3>1. s[i] # Body("end")
      BY <1>2, <2>4 DEF Growing, Has
    <3>2. PICK f \in Entries \ {"end"} :
               \/ s[i] = Header(f) /\ (i < Len(s) => s[i + 1] = Body(f))
               \/ s[i] = Body(f) /\ i > 1 /\ s[i - 1] = Header(f)
      BY <1>2, <2>4, <3>1 DEF Growing, WellFormed
    <3>3. CASE s[i] = Header(f)
      <4>1. i < Len(s)
        BY <1>2, <2>4, <3>3 DEF Growing, Header
      <4>2. s[i + 1] = Body(f)
        BY <3>2, <3>3, <4>1 DEF Header, Body
      <4>3. t[i + 1] = s[i + 1] /\ t[i] = s[i]
        BY <1>2, <2>1, <2>4, <4>1
      <4>4. QED
        BY <3>1, <3>3, <4>2, <4>3
    <3>4. CASE s[i] = Body(f) /\ i > 1 /\ s[i - 1] = Header(f)
      <4>1. t[i - 1] = s[i - 1] /\ t[i] = s[i]
        BY <1>2, <2>1, <2>4, <3>4
      <4>2. QED
        BY <3>1, <3>4, <4>1
    <3>5. QED
      BY <3>2, <3>3, <3>4
  <2>5. QED
    BY <1>2, <2>3, <2>4
<1>4. QED
  BY <1>3

\* One entry more.
LEMMA EntryFormed ==
  ASSUME NEW s \in Seq(Blocks), Growing(s), NEW e \in Entries \ {"end"}
  PROVE  Growing(WithEntry(s, e))
<1> DEFINE h == Append(s, Header(e))
           t == Append(h, Body(e))
<1>1. /\ Header(e) \in Blocks /\ Body(e) \in Blocks
      /\ Header(e) # Body("end") /\ Body(e) # Body("end")
  BY DEF Header, Body, Blocks
<1>2. /\ h \in Seq(Blocks) /\ Len(h) = Len(s) + 1 /\ h[Len(s) + 1] = Header(e)
      /\ WellFormed(h) /\ ~Has(h, Body("end"))
  BY <1>1, BlockAdded, BlockFormed DEF Growing
<1> HIDE DEF h
<1>3. /\ t \in Seq(Blocks) /\ Len(t) = Len(h) + 1 /\ t[Len(h) + 1] = Body(e)
      /\ \A i \in 1..Len(h) : t[i] = h[i]
      /\ ~Has(t, Body("end"))
  BY <1>1, <1>2, BlockAdded
<1>4. /\ Len(s) \in Nat /\ DOMAIN h = 1..(Len(s) + 1) /\ DOMAIN t = 1..(Len(s) + 2)
  BY <1>2, <1>3, LenProperties
<1>5. WithEntry(s, e) = t
  BY DEF WithEntry, h
<1> HIDE DEF t
<1>6. WellFormed(t)
  <2>1. SUFFICES ASSUME NEW i \in 1..(Len(s) + 2)
                 PROVE  /\ t[i] # Body("end")
                        /\ \E f \in Entries \ {"end"} :
                               \/ t[i] = Header(f) /\ (i < Len(t) => t[i + 1] = Body(f))
                               \/ t[i] = Body(f) /\ i > 1 /\ t[i - 1] = Header(f)
    BY <1>4 DEF WellFormed
  <2>2. t[i] # Body("end")
    BY <1>3, <1>4 DEF Has
  <2>3. CASE i = Len(s) + 2
    <3>1. t[i] = Body(e) /\ i > 1 /\ t[i - 1] = Header(e)
      BY <1>2, <1>3, <1>4, <2>3
    <3>2. QED
      BY <2>2, <3>1
  <2>4. CASE i = Len(s) + 1
    <3>1. t[i] = Header(e) /\ t[i + 1] = Body(e)
      BY <1>2, <1>3, <1>4, <2>4
    <3>2. QED
      BY <2>2, <3>1
  <2>5. CASE i \in 1..Len(s)
    <3>1. i \in DOMAIN h /\ h[i] = t[i] /\ h[i + 1] = t[i + 1] /\ i < Len(h)
      BY <1>2, <1>3, <1>4, <2>5
    <3>2. PICK f \in Entries \ {"end"} :
               \/ h[i] = Header(f) /\ (i < Len(h) => h[i + 1] = Body(f))
               \/ h[i] = Body(f) /\ i > 1 /\ h[i - 1] = Header(f)
      BY <1>2, <2>2, <3>1 DEF WellFormed
    <3>3. i > 1 => t[i - 1] = h[i - 1]
      <4>1. i > 1 => i - 1 \in 1..Len(h)
        BY <1>2, <1>4, <2>5
      <4>2. QED
        BY <1>3, <4>1
    <3>4. QED
      BY <2>2, <3>1, <3>2, <3>3
  <2>6. QED
    BY <1>4, <2>3, <2>4, <2>5
<1>7. t[Len(t)][2] = "body"
  BY <1>3 DEF Body
<1>8. QED
  BY <1>3, <1>5, <1>6, <1>7 DEF Growing

\* Cut anywhere, a file stays well-formed.
LEMMA CutFormed ==
  ASSUME NEW s \in Seq(Blocks), WellFormed(s), NEW n \in 0..Len(s)
  PROVE  WellFormed(SubSeq(s, 1, n))
<1> DEFINE t == SubSeq(s, 1, n)
<1>1. Len(s) \in Nat /\ DOMAIN s = 1..Len(s) /\ n \in Nat /\ n <= Len(s)
  BY LenProperties
<1>2. \A i \in 1..Len(s) : s[i] \in Blocks
  BY <1>1, ElementOfSeq
<1>3. t \in Seq(Blocks) /\ Len(t) = n /\ \A i \in 1..n : t[i] = s[i]
  BY <1>1, <1>2, SubSeqProperties
<1>4. DOMAIN t = 1..n
  BY <1>3, LenProperties
<1> HIDE DEF t
<1>5. SUFFICES ASSUME NEW i \in 1..n
               PROVE  /\ t[i] = Body("end") => i = n
                      /\ t[i] # Body("end") => \E e \in Entries \ {"end"} :
                             \/ t[i] = Header(e) /\ (i < n => t[i + 1] = Body(e))
                             \/ t[i] = Body(e) /\ i > 1 /\ t[i - 1] = Header(e)
  BY <1>3, <1>4 DEF WellFormed, t
<1>6. i \in 1..Len(s) /\ t[i] = s[i] /\ (i < n => t[i + 1] = s[i + 1])
      /\ (i > 1 => t[i - 1] = s[i - 1])
  BY <1>1, <1>3
<1>7. CASE s[i] = Body("end")
  BY <1>1, <1>6, <1>7 DEF WellFormed
<1>8. CASE s[i] # Body("end")
  <2>1. PICK e \in Entries \ {"end"} :
             \/ s[i] = Header(e) /\ (i < Len(s) => s[i + 1] = Body(e))
             \/ s[i] = Body(e) /\ i > 1 /\ s[i - 1] = Header(e)
    BY <1>1, <1>6, <1>8 DEF WellFormed
  <2>2. i < n => i < Len(s)
    BY <1>1
  <2>3. QED
    BY <1>6, <1>8, <2>1, <2>2
<1>9. QED
  BY <1>7, <1>8

\* Reading a well-formed file block by block.
LEMMA Form ==
  ASSUME NEW s \in Seq(Blocks), WellFormed(s), NEW i \in 1..Len(s)
  PROVE  /\ s[i][2] = "header" => \E e \in Entries \ {"end"} : s[i] = Header(e)
         /\ \A e : s[i] = Header(e) /\ i < Len(s) => s[i + 1] = Body(e)
         /\ \A e : s[i] = Body(e) /\ e # "end" =>
                i - 1 \in 1..Len(s) /\ i > 1 /\ s[i - 1] = Header(e)
         /\ s[i] = Body("end") => i = Len(s)
<1>1. Len(s) \in Nat /\ DOMAIN s = 1..Len(s)
  BY LenProperties
<1>2. s[i] = Body("end") => i = Len(s)
  BY <1>1 DEF WellFormed
<1>3. CASE s[i] = Body("end")
  BY <1>2, <1>3, BlockNames
<1>4. CASE s[i] # Body("end")
  <2>1. PICK f \in Entries \ {"end"} :
             \/ s[i] = Header(f) /\ (i < Len(s) => s[i + 1] = Body(f))
             \/ s[i] = Body(f) /\ i > 1 /\ s[i - 1] = Header(f)
    BY <1>1, <1>4 DEF WellFormed
  <2>2. CASE s[i] = Header(f) /\ (i < Len(s) => s[i + 1] = Body(f))
    BY <1>4, <2>2, BlockNames
  <2>3. CASE s[i] = Body(f) /\ i > 1 /\ s[i - 1] = Header(f)
    <3>1. i - 1 \in 1..Len(s)
      BY <1>1, <2>3
    <3>2. \A e : s[i] # Header(e) /\ (s[i] = Body(e) => e = f)
      BY <2>3, BlockNames
    <3>3. s[i][2] # "header"
      BY <2>3, BlockNames
    <3>4. QED
      BY <1>4, <2>3, <3>1, <3>2, <3>3
  <2>4. QED
    BY <2>1, <2>2, <2>3
<1>5. QED
  BY <1>3, <1>4

\* The files of the writers: they grow entry by entry, and only before the
\* trailer.
FormInv ==
    \A p \in Writers :
        /\ WellFormed(data[p])
        /\ wpc[p] \in {"idle", "checked", "open", "compress", "manifest", "readme"} =>
               Growing(data[p])

\* The form of the files, action by action.
LEMMA FormStep == WTypeOK /\ FormInv /\ [WNext]_wvars => FormInv'
<1> SUFFICES ASSUME WTypeOK, FormInv, [WNext]_wvars PROVE FormInv'
  OBVIOUS
<1> USE WriterAssumption DEF WriterAssumption, WTypeOK, FormInv, Goto, Stages
<1>1. /\ Volumes \subseteq Entries \ {"end"}
      /\ "manifest" \in Entries \ {"end"} /\ "readme" \in Entries \ {"end"}
  BY DEF Entries
<1>2. ASSUME NEW p \in Writers, AppendVolume(p) PROVE FormInv'
  <2>1. Growing(WithEntry(data[p], adding[p]))
    BY <1>1, <1>2, EntryFormed DEF AppendVolume
  <2>2. /\ data'[p] = WithEntry(data[p], adding[p])
        /\ \A q \in Writers \ {p} : data'[q] = data[q] /\ wpc'[q] = wpc[q]
    BY <1>2 DEF AppendVolume
  <2>3. QED
    BY <2>1, <2>2 DEF Growing
<1>3. ASSUME NEW p \in Writers, AddFails(p) PROVE FormInv'
  <2>1. wpc[p] = "compress" => WellFormed(Append(data[p], Header(adding[p])))
    BY <1>1, BlockFormed
  <2>2. CASE UNCHANGED data
    BY <1>3, <2>2 DEF AddFails
  <2>3. CASE /\ wpc[p] = "compress"
             /\ data' = [data EXCEPT ![p] = Append(@, Header(adding[p]))]
    <3>1. data'[p] = Append(data[p], Header(adding[p])) /\ wpc'[p] = "broken"
      BY <1>3, <2>3 DEF AddFails
    <3>2. \A q \in Writers \ {p} : data'[q] = data[q] /\ wpc'[q] = wpc[q]
      BY <1>3, <2>3 DEF AddFails
    <3>3. QED
      BY <2>1, <2>3, <3>1, <3>2
  <2>4. QED
    BY <1>3, <2>2, <2>3 DEF AddFails
<1>4. ASSUME NEW p \in Writers, WriteManifest(p) PROVE FormInv'
  <2>1. Growing(WithEntry(data[p], "manifest"))
    BY <1>1, <1>4, EntryFormed DEF WriteManifest
  <2>2. /\ data'[p] = WithEntry(data[p], "manifest")
        /\ \A q \in Writers \ {p} : data'[q] = data[q] /\ wpc'[q] = wpc[q]
    BY <1>4 DEF WriteManifest
  <2>3. QED
    BY <2>1, <2>2 DEF Growing
<1>5. ASSUME NEW p \in Writers, WriteReadme(p) PROVE FormInv'
  <2>1. Growing(WithEntry(data[p], "readme"))
    BY <1>1, <1>5, EntryFormed DEF WriteReadme
  <2>2. /\ data'[p] = WithEntry(data[p], "readme")
        /\ \A q \in Writers \ {p} : data'[q] = data[q] /\ wpc'[q] = wpc[q]
    BY <1>5 DEF WriteReadme
  <2>3. QED
    BY <2>1, <2>2 DEF Growing
<1>6. ASSUME NEW p \in Writers, CloseTar(p) PROVE FormInv'
  <2>1. WellFormed(Append(data[p], Body("end")))
    BY <1>1, <1>6, BlockFormed DEF CloseTar
  <2>2. /\ data'[p] = Append(data[p], Body("end")) /\ wpc'[p] = "trailer"
        /\ \A q \in Writers \ {p} : data'[q] = data[q] /\ wpc'[q] = wpc[q]
    BY <1>6 DEF CloseTar
  <2>3. QED
    BY <2>1, <2>2
<1>7. ASSUME PowerLoss PROVE FormInv'
  <2>1. \A p \in Writers : wpc'[p] = "killed"
    BY <1>7 DEF PowerLoss
  <2>2. ASSUME NEW p \in Writers PROVE WellFormed(data'[p])
    <3>1. PICK keep \in [Writers -> 0..MaxBlocks] :
             /\ \A q \in Writers : keep[q] \in synced[q]..Len(data[q])
             /\ data' = [q \in Writers |-> SubSeq(data[q], 1, keep[q])]
      BY <1>7 DEF PowerLoss
    <3>2. keep[p] \in 0..Len(data[p]) /\ data'[p] = SubSeq(data[p], 1, keep[p])
      BY <3>1, LenProperties
    <3>3. QED
      BY <3>1, <3>2, CutFormed
  <2>3. QED
    BY <2>1, <2>2
<1>8. ASSUME NEW p \in Writers,
             \/ StatFinal(p) \/ OpenPartial(p) \/ OpenFails(p)
             \/ \E v \in Volumes : BeginAdd(p, v)
             \/ Sync(p) \/ CloseFile(p) \/ Rename(p) \/ Abort(p) \/ AbortFails(p)
             \/ KillWriter(p) \/ OtherRemovesLeftover(p)
      PROVE  FormInv'
  BY <1>8 DEF StatFinal, OpenPartial, OpenFails, BeginAdd, Sync, CloseFile, Rename,
     Abort, AbortFails, KillWriter, OtherRemovesLeftover
<1>9. CASE OtherPlacesFinal \/ UNCHANGED wvars
  BY <1>9 DEF OtherPlacesFinal, wvars
<1>10. ASSUME NEW p \in Writers, FinishFails(p) PROVE FormInv'
  <2>1. /\ wpc'[p] = "broken"
        /\ \A q \in Writers \ {p} : data'[q] = data[q] /\ wpc'[q] = wpc[q]
    BY <1>10 DEF FinishFails
  <2>2. CASE data'[p] = data[p]
    BY <2>1, <2>2
  <2>3. ASSUME wpc[p] \in {"open", "manifest"}, NEW e \in {"manifest", "readme"},
               data'[p] = Append(data[p], Header(e))
        PROVE  FormInv'
    <3>1. WellFormed(data'[p])
      BY <1>1, <2>3, BlockFormed
    <3>2. QED
      BY <2>1, <3>1
  <2>4. QED
    BY <1>10, <2>2, <2>3 DEF FinishFails
<1>11. QED
  BY <1>2, <1>3, <1>4, <1>5, <1>6, <1>7, <1>8, <1>9, <1>10 DEF WNext, WriterStep

-----------------------------------------------------------------------------
(* What the writers do to a file that is open.                             *)

\* The writers' steps but for a power cut.
WritersMove ==
    \/ \E p \in Writers : WriterStep(p) \/ KillWriter(p) \/ OtherRemovesLeftover(p)
    \/ OtherPlacesFinal

\* A file only grows; once it has its manifest no more volumes are listed; a
\* file whose writer is done is left alone.
LEMMA WritersKeep ==
  ASSUME WTypeOK, ContentInv, WritersMove, NEW f \in Writers
  PROVE  /\ Len(data[f]) <= Len(data'[f])
         /\ \A i \in 1..Len(data[f]) : data'[f][i] = data[f][i]
         /\ Holds(f, "manifest") => listed'[f] = listed[f]
         /\ wpc[f] \in {"done", "killed"} =>
                wpc'[f] = wpc[f] /\ data'[f] = data[f] /\ listed'[f] = listed[f]
<1> DEFINE Kept == /\ Len(data[f]) <= Len(data'[f])
                   /\ \A i \in 1..Len(data[f]) : data'[f][i] = data[f][i]
           Same == wpc'[f] = wpc[f] /\ data'[f] = data[f] /\ listed'[f] = listed[f]
<1> USE DEF WTypeOK, Goto
<1>1. Len(data[f]) \in Nat /\ data[f] \in Seq(Blocks)
  BY LenProperties
<1>2. data'[f] = data[f] => Kept
  BY <1>1
<1>3. ASSUME NEW b \in Blocks PROVE data'[f] = Append(data[f], b) => Kept
  BY <1>1, BlockAdded
<1>4. ASSUME NEW e \in Entries PROVE data'[f] = WithEntry(data[f], e) => Kept
  <2>1. Header(e) \in Blocks /\ Body(e) \in Blocks
    BY EntriesKnown
  <2>2. Append(data[f], Header(e)) \in Seq(Blocks)
    BY <1>1, <2>1, BlockAdded
  <2>3. /\ Len(WithEntry(data[f], e)) = Len(data[f]) + 2
        /\ \A i \in 1..Len(data[f]) : WithEntry(data[f], e)[i] = data[f][i]
    BY <1>1, <2>1, <2>2, BlockAdded DEF WithEntry
  <2>4. QED
    BY <1>1, <2>3
<1>5. ASSUME NEW p \in Writers, AppendVolume(p)
      PROVE  Kept /\ (f # p => Same) /\ wpc[p] = "compress" /\ ~Holds(p, "manifest")
  <2>1. adding[p] \in Entries
    BY <1>5 DEF AppendVolume, Entries
  <2>2. f = p => data'[f] = WithEntry(data[f], adding[p])
    BY <1>5 DEF AppendVolume
  <2>3. f # p => Same
    BY <1>5 DEF AppendVolume
  <2>4. QED
    BY <1>2, <1>4, <1>5, <2>1, <2>2, <2>3 DEF AppendVolume, ContentInv
<1>6. ASSUME NEW p \in Writers, AddFails(p)
      PROVE  /\ Kept /\ (f # p => Same) /\ listed'[f] = listed[f]
             /\ wpc[p] \in {"open", "compress"}
  <2>1. wpc[p] = "compress" => Header(adding[p]) \in Blocks
    BY EntriesKnown
  <2>2. \/ data'[f] = data[f]
        \/ wpc[p] = "compress" /\ data'[f] = Append(data[f], Header(adding[p]))
    BY <1>6 DEF AddFails
  <2>3. (f # p => Same) /\ listed'[f] = listed[f] /\ wpc[p] \in {"open", "compress"}
    BY <1>6 DEF AddFails
  <2>4. QED
    BY <1>2, <1>3, <2>1, <2>2, <2>3
<1>7. ASSUME NEW p \in Writers, WriteManifest(p) \/ WriteReadme(p) \/ CloseTar(p)
      PROVE  /\ Kept /\ (f # p => Same) /\ listed'[f] = listed[f]
             /\ wpc[p] \in {"open", "manifest", "readme"}
  <2>1. /\ (f # p => Same) /\ listed'[f] = listed[f]
        /\ wpc[p] \in {"open", "manifest", "readme"}
    BY <1>7 DEF WriteManifest, WriteReadme, CloseTar
  <2>2. CASE WriteManifest(p)
    <3>1. f = p => data'[f] = WithEntry(data[f], "manifest")
      BY <2>2 DEF WriteManifest
    <3>2. QED
      BY <1>2, <1>4, <2>1, <3>1, EntriesKnown
  <2>3. CASE WriteReadme(p)
    <3>1. f = p => data'[f] = WithEntry(data[f], "readme")
      BY <2>3 DEF WriteReadme
    <3>2. QED
      BY <1>2, <1>4, <2>1, <3>1, EntriesKnown
  <2>4. CASE CloseTar(p)
    <3>1. f = p => data'[f] = Append(data[f], Body("end"))
      BY <2>4 DEF CloseTar
    <3>2. Body("end") \in Blocks
      BY EntriesKnown
    <3>3. QED
      BY <1>2, <1>3, <2>1, <3>1, <3>2
  <2>5. QED
    BY <1>7, <2>2, <2>3, <2>4
<1>8. ASSUME NEW p \in Writers,
             \/ StatFinal(p) \/ OpenPartial(p) \/ OpenFails(p)
             \/ \E v \in Volumes : BeginAdd(p, v)
             \/ Sync(p) \/ CloseFile(p) \/ Rename(p) \/ Abort(p) \/ AbortFails(p)
             \/ KillWriter(p)
      PROVE  /\ data'[f] = data[f] /\ listed'[f] = listed[f] /\ (f # p => Same)
             /\ wpc[p] \notin {"done", "killed"}
  BY <1>8 DEF StatFinal, OpenPartial, OpenFails, BeginAdd, Sync, CloseFile, Rename,
     Abort, AbortFails, KillWriter, Working
<1>9. ASSUME (\E p \in Writers : OtherRemovesLeftover(p)) \/ OtherPlacesFinal PROVE Same
  BY <1>9 DEF OtherRemovesLeftover, OtherPlacesFinal
<1>10. ASSUME NEW p \in Writers, FinishFails(p)
       PROVE  /\ Kept /\ (f # p => Same) /\ listed'[f] = listed[f]
              /\ wpc[p] \notin {"done", "killed"}
  <2>1. \/ data'[f] = data[f]
        \/ \E e \in {"manifest", "readme"} : data'[f] = Append(data[f], Header(e))
    BY <1>10 DEF FinishFails
  <2>2. (f # p => Same) /\ listed'[f] = listed[f] /\ wpc[p] \notin {"done", "killed"}
    BY <1>10 DEF FinishFails
  <2>3. QED
    BY <1>2, <1>3, <2>1, <2>2, HeadersKnown
<1>11. QED
  BY <1>2, <1>5, <1>6, <1>7, <1>8, <1>9, <1>10 DEF WritersMove, WriterStep

-----------------------------------------------------------------------------
(* Open.                                                                   *)

\* Where the reader is in its file.
ReaderInv ==
    /\ rpc \in ReaderStages /\ whole \in BOOLEAN
    /\ rpc = "closed" =>
           /\ pos = 0 /\ manifest = None /\ ~whole
           /\ verified = {} /\ unpacked = {} /\ damaged = {}
    /\ damaged \subseteq {<<file, e>> : e \in Volumes \cup {"manifest"}}
    /\ rpc # "closed" => file \in Writers /\ pos \in 0..Len(data[file])
    /\ rpc = "data" => pos # 0 /\ \E e \in Entries \ {"end"} : data[file][pos] = Header(e)

\* The manifest that was read is the file's, and without one Open fails.
ManifestInv ==
    /\ manifest # None => manifest = listed[file] /\ Holds(file, "manifest")
    /\ Opened => manifest # None

\* A published file is read from its first header to its trailer.
WholeInv ==
    whole =>
        /\ wpc[file] \in {"done", "killed"}
        /\ \A e \in listed[file] \cup {"manifest", "end"} : Holds(file, e)
        /\ rpc = "scan" /\ pos > 0 =>
               data[file][pos][2] = "body" /\ data[file][pos] # Body("end")
        /\ rpc \in {"scan", "data"} =>
               /\ \A e \in Entries : \A i \in 1..pos :
                      data[file][i] = Header(e) => e \in entries
               /\ (\E i \in 1..pos : data[file][i] = Body("manifest")) =>
                      manifest = listed[file]
        /\ rpc = "check" => manifest = listed[file] /\ listed[file] \subseteq entries
        /\ rpc = "refused" =>
               \/ refused \in {"read error", "not found"}
               \/ refused = "checksum" /\ \E v \in Volumes : <<file, v>> \in damaged
               \/ <<file, "manifest">> \in damaged

\* Open's place, step by step.
LEMMA ReaderStep ==
  ASSUME WTypeOK, ContentInv, ReaderInv, [ANext]_avars
  PROVE  ReaderInv'
<1> USE DEF ReaderInv, ReaderStages, Step, Refuse, wvars
<1>1. ASSUME NEW f \in Writers, OpenFile(f) PROVE ReaderInv'
  <2>1. Len(data[f]) \in Nat
    BY LenProperties DEF WTypeOK
  <2>2. QED
    BY <1>1, <2>1 DEF OpenFile
<1>2. rpc # "closed" => Len(data[file]) \in Nat /\ DOMAIN data[file] = 1..Len(data[file])
                        /\ \A i \in 1..Len(data[file]) : data[file][i] \in Blocks
  BY LenProperties, ElementOfSeq DEF WTypeOK
<1>3. ASSUME NextEntry PROVE ReaderInv'
  <2>1. rpc = "scan" /\ pos # Len(data[file]) /\ UNCHANGED <<wvars, file, whole, damaged>>
    BY <1>3 DEF NextEntry, AtEnd
  <2>2. pos + 1 \in 1..Len(data[file])
    BY <1>2, <2>1
  <2>3. data[file][pos + 1] \in Blocks
    BY <1>2, <2>1, <2>2
  <2>4. Known(Block[1]) => \E e \in Entries \ {"end"} : data[file][pos + 1] = Header(e)
    BY <1>3, <2>3, WriterAssumption
       DEF NextEntry, Block, Known, Blocks, Header, Entries, WriterAssumption
  <2>5. CASE Known(Block[1])
    <3>1. rpc' = "data" /\ pos' = pos + 1
      BY <1>3, <2>5 DEF NextEntry
    <3>2. QED
      BY <1>2, <2>1, <2>2, <2>4, <2>5, <3>1
  <2>6. CASE ~Known(Block[1])
    BY <1>2, <1>3, <2>1, <2>6 DEF NextEntry
  <2>7. QED
    BY <2>5, <2>6
<1>4. ASSUME EntryData PROVE ReaderInv'
  BY <1>2, <1>4 DEF EntryData, AtEnd
<1>5. ASSUME EntryCut \/ ScanEnds \/ OpenEnds PROVE ReaderInv'
  BY <1>5 DEF EntryCut, ScanEnds, OpenEnds
<1>6. ASSUME NEW names \in SUBSET Volumes, NEW projects \in SUBSET Projects,
             Select(names, projects)
      PROVE  ReaderInv'
  BY <1>6 DEF Select
<1>7. ASSUME BeginVerify \/ VerifyNext \/ AllVerified \/ UnpackNext \/ AllUnpacked
      PROVE  ReaderInv'
  BY <1>7 DEF BeginVerify, VerifyNext, AllVerified, UnpackNext, AllUnpacked
<1>8. ASSUME ReadFails \/ \E e \in Entries : Damage(e) PROVE ReaderInv'
  BY <1>8 DEF ReadFails, Damage, rvars
<1>9. ASSUME Crash PROVE ReaderInv'
  BY <1>9 DEF Crash, rvars
<1>10. ASSUME WritersGoOn PROVE ReaderInv'
  <2>1. UNCHANGED <<rvars, damaged>> /\ WritersMove
    BY <1>10 DEF WritersGoOn, WritersMove
  <2>2. CASE rpc = "closed"
    BY <2>1, <2>2 DEF rvars
  <2>3. CASE rpc # "closed"
    <3>1. /\ Len(data[file]) <= Len(data'[file])
          /\ \A i \in 1..Len(data[file]) : data'[file][i] = data[file][i]
      BY <2>1, <2>3, WritersKeep
    <3>2. Len(data'[file]) \in Nat
      BY <1>2, <2>1, <2>3, WTypeStep, LenProperties
         DEF WTypeOK, WritersMove, WNext
    <3>3. QED
      BY <1>2, <2>1, <2>3, <3>1, <3>2 DEF rvars
  <2>4. QED
    BY <2>2, <2>3
<1>11. CASE UNCHANGED avars
  BY <1>11 DEF avars, rvars
<1>12. QED
  BY <1>1, <1>3, <1>4, <1>5, <1>6, <1>7, <1>8, <1>9, <1>10, <1>11
     DEF ANext, Open, Restore

\* The manifest, step by step.
LEMMA ManifestStep ==
  ASSUME WTypeOK, ContentInv, FormInv, ReaderInv, ManifestInv, [ANext]_avars
  PROVE  ManifestInv'
<1> USE DEF ManifestInv, Opened, Step, Refuse, wvars, Holds
<1>1. ASSUME NEW f \in Writers, OpenFile(f) PROVE ManifestInv'
  BY <1>1 DEF OpenFile, ReaderInv
<1>2. ASSUME NextEntry PROVE ManifestInv'
  BY <1>2 DEF NextEntry
<1>3. ASSUME EntryData PROVE ManifestInv'
  <2>1. CASE AtManifest
    <3>1. /\ pos \in DOMAIN data[file] /\ pos < Len(data[file])
          /\ pos + 1 \in DOMAIN data[file]
      BY <1>3, LenProperties DEF EntryData, AtEnd, ReaderInv, WTypeOK
    <3>2. data[file][pos] # Body("end") /\ \A e \in Entries : data[file][pos] # Body(e)
      BY <2>1 DEF AtManifest, Header, Body
    <3>3. WellFormed(data[file])
      BY <1>3 DEF FormInv, EntryData, ReaderInv
    <3>4. PICK e \in Entries \ {"end"} :
              data[file][pos] = Header(e) /\ data[file][pos + 1] = Body(e)
      BY <3>1, <3>2, <3>3 DEF WellFormed
    <3>5. e = "manifest"
      BY <2>1, <3>4 DEF AtManifest, Header
    <3>6. Has(data[file], Body("manifest"))
      BY <3>1, <3>4, <3>5 DEF Has
    <3>7. QED
      BY <1>3, <2>1, <3>6 DEF EntryData
  <2>2. CASE ~AtManifest
    BY <1>3, <2>2 DEF EntryData
  <2>3. QED
    BY <2>1, <2>2
<1>4. ASSUME EntryCut \/ ScanEnds \/ OpenEnds PROVE ManifestInv'
  BY <1>4 DEF EntryCut, ScanEnds, OpenEnds
<1>5. ASSUME NEW names \in SUBSET Volumes, NEW projects \in SUBSET Projects,
             Select(names, projects)
      PROVE  ManifestInv'
  BY <1>5 DEF Select
<1>6. ASSUME BeginVerify \/ VerifyNext \/ AllVerified \/ UnpackNext \/ AllUnpacked
      PROVE  ManifestInv'
  BY <1>6 DEF BeginVerify, VerifyNext, AllVerified, UnpackNext, AllUnpacked
<1>7. ASSUME ReadFails \/ \E e \in Entries : Damage(e) PROVE ManifestInv'
  BY <1>7 DEF ReadFails, Damage, rvars
<1>8. ASSUME Crash PROVE ManifestInv'
  BY <1>8 DEF Crash, rvars, ReaderInv
<1>9. ASSUME WritersGoOn PROVE ManifestInv'
  <2>1. UNCHANGED rvars /\ WritersMove
    BY <1>9 DEF WritersGoOn, WritersMove
  <2>2. CASE manifest = None
    BY <2>1, <2>2 DEF rvars
  <2>3. CASE manifest # None
    <3>1. file \in Writers
      BY <2>3 DEF ReaderInv
    <3>2. /\ Len(data[file]) <= Len(data'[file]) /\ listed'[file] = listed[file]
          /\ \A i \in 1..Len(data[file]) : data'[file][i] = data[file][i]
      BY <2>1, <2>3, <3>1, WritersKeep
    <3>3. /\ DOMAIN data[file] = 1..Len(data[file]) /\ Len(data[file]) \in Nat
          /\ DOMAIN data'[file] = 1..Len(data'[file]) /\ Len(data'[file]) \in Nat
      BY <2>1, <3>1, WTypeStep, LenProperties DEF WTypeOK, WritersMove, WNext
    <3>4. Has(data'[file], Body("manifest"))
      BY <2>3, <3>2, <3>3 DEF Has
    <3>5. QED
      BY <2>1, <2>3, <3>2, <3>4 DEF rvars
  <2>4. QED
    BY <2>2, <2>3
<1>10. CASE UNCHANGED avars
  BY <1>10 DEF avars, rvars
<1>11. QED
  BY <1>1, <1>2, <1>3, <1>4, <1>5, <1>6, <1>7, <1>8, <1>9, <1>10
     DEF ANext, Open, Restore

\* A published file, step by step: no cut and no missing entry can be met in it.
LEMMA WholeStep ==
  ASSUME WTypeOK, ContentInv, PublishedInv, FormInv, ReaderInv, WholeInv, [ANext]_avars
  PROVE  WholeInv'
<1> USE DEF WholeInv, Step, Refuse, wvars, Holds
<1> DEFINE s == data[file]
<1>1. whole => file \in Writers /\ rpc # "closed" /\ WellFormed(s)
  BY DEF ReaderInv, FormInv
<1>2. ASSUME whole
      PROVE  /\ Len(s) \in Nat /\ DOMAIN s = 1..Len(s) /\ pos \in 0..Len(s)
             /\ \A i \in 1..Len(s) : s[i] \in Blocks
  <2>1. s \in Seq(Blocks)
    BY <1>1, <1>2 DEF WTypeOK
  <2>2. Len(s) \in Nat /\ DOMAIN s = 1..Len(s) /\ \A i \in 1..Len(s) : s[i] \in Blocks
    BY <2>1, LenProperties, ElementOfSeq
  <2>3. QED
    BY <1>1, <1>2, <2>2 DEF ReaderInv
<1>3. ASSUME NEW f \in Writers, OpenFile(f) PROVE WholeInv'
  BY <1>3 DEF OpenFile, ReaderInv, PublishedInv
<1> HIDE DEF s, WholeInv
<1>f. ASSUME whole, NEW i \in 1..Len(s)
      PROVE  /\ s[i][2] = "header" => \E e \in Entries \ {"end"} : s[i] = Header(e)
             /\ \A e : s[i] = Header(e) /\ i < Len(s) => s[i + 1] = Body(e)
             /\ \A e : s[i] = Body(e) /\ e # "end" =>
                    i - 1 \in 1..Len(s) /\ i > 1 /\ s[i - 1] = Header(e)
             /\ s[i] = Body("end") => i = Len(s)
  BY <1>1, <1>f, Form DEF s, WTypeOK
<1>e. ASSUME whole PROVE Len(s) > 0 /\ s[Len(s)] = Body("end")
  <2>1. PICK j \in DOMAIN s : s[j] = Body("end")
    BY <1>e DEF WholeInv, Has, s
  <2>2. Len(s) \in Nat /\ j \in 1..Len(s)
    BY <1>2, <1>e, <2>1
  <2>3. j = Len(s)
    BY <1>e, <1>f, <2>1, <2>2
  <2>4. QED
    BY <2>1, <2>2, <2>3
<1>4. ASSUME NextEntry, whole PROVE WholeInv'
  <2>1. /\ rpc = "scan" /\ pos # Len(s) /\ s[pos + 1][2] = "header"
        /\ UNCHANGED <<wvars, file, whole, manifest, damaged>>
    BY <1>4 DEF NextEntry, AtEnd, Block, s
  <2>2. pos + 1 \in 1..Len(s)
    BY <1>2, <1>4, <2>1
  <2>3. PICK e \in Entries \ {"end"} : s[pos + 1] = Header(e)
    BY <1>4, <1>f, <2>1, <2>2
  <2>4. Block[1] = e /\ Known(e)
    BY <2>3, BlockNames DEF Known, Block, Entries, s
  <2>5. /\ rpc' = "data" /\ pos' = pos + 1 /\ entries' = entries \cup {e}
        /\ UNCHANGED refused
    BY <1>4, <2>4 DEF NextEntry
  <2>6. ASSUME NEW f \in Entries, NEW i \in 1..(pos + 1), s[i] = Header(f)
        PROVE  f \in entries'
    <3>1. CASE i \in 1..pos
      BY <1>4, <2>1, <2>5, <2>6, <3>1 DEF WholeInv, s
    <3>2. CASE i = pos + 1
      BY <2>3, <2>5, <2>6, <3>2, BlockNames
    <3>3. QED
      BY <1>2, <1>4, <3>1, <3>2
  <2>7. ASSUME NEW i \in 1..(pos + 1), s[i] = Body("manifest")
        PROVE  manifest = listed[file]
    <3>1. i \in 1..pos
      BY <1>2, <1>4, <2>3, <2>7, BlockNames
    <3>2. QED
      BY <1>4, <2>1, <2>7, <3>1 DEF WholeInv, s
  <2>8. QED
    BY <1>4, <2>1, <2>5, <2>6, <2>7 DEF WholeInv, s
<1>5. ASSUME EntryData, whole PROVE WholeInv'
  <2>1. /\ rpc = "data" /\ rpc' = "scan" /\ pos # Len(s) /\ s[pos + 1][2] = "body"
        /\ pos' = pos + 1 /\ manifest' = IF AtManifest THEN listed[file] ELSE manifest
        /\ UNCHANGED <<wvars, file, whole, entries, damaged, refused>>
    BY <1>5 DEF EntryData, AtEnd, Block, s
  <2>2. PICK e \in Entries \ {"end"} : s[pos] = Header(e)
    BY <2>1 DEF ReaderInv, s
  <2>3. pos \in 1..Len(s) /\ pos < Len(s)
    BY <1>2, <1>5, <2>1 DEF ReaderInv
  <2>4. s[pos + 1] = Body(e)
    BY <1>5, <1>f, <2>2, <2>3
  <2>5. ASSUME NEW f \in Entries, NEW i \in 1..(pos + 1), s[i] = Header(f)
        PROVE  f \in entries
    <3>1. i \in 1..pos
      BY <2>3, <2>4, <2>5, BlockNames
    <3>2. QED
      BY <1>5, <2>1, <2>5, <3>1 DEF WholeInv, s
  <2>6. ASSUME NEW i \in 1..(pos + 1), s[i] = Body("manifest")
        PROVE  manifest' = listed[file]
    <3>1. CASE i = pos + 1
      <4>1. e = "manifest"
        BY <2>4, <2>6, <3>1, BlockNames
      <4>2. QED
        BY <2>1, <2>2, <4>1 DEF AtManifest, s
    <3>2. CASE i \in 1..pos
      BY <1>5, <2>1, <2>6, <3>2 DEF WholeInv, s
    <3>3. QED
      BY <2>3, <3>1, <3>2
  <2>7. s[pos + 1][2] = "body" /\ s[pos + 1] # Body("end")
    BY <2>4, BlockNames
  <2>8. QED
    BY <1>5, <2>1, <2>5, <2>6, <2>7 DEF WholeInv, s
<1>6. ASSUME EntryCut, whole PROVE FALSE
  <2>1. rpc = "data" /\ (pos # Len(s) => s[pos + 1][2] # "body")
    BY <1>6 DEF EntryCut, AtEnd, Block, s
  <2>2. PICK e \in Entries \ {"end"} : s[pos] = Header(e)
    BY <2>1 DEF ReaderInv, s
  <2>3. pos # Len(s)
    BY <1>6, <1>e, <2>2, BlockNames
  <2>4. pos \in 1..Len(s) /\ pos < Len(s)
    BY <1>2, <1>6, <2>1, <2>3 DEF ReaderInv
  <2>5. s[pos + 1] = Body(e)
    BY <1>6, <1>f, <2>2, <2>4
  <2>6. QED
    BY <2>1, <2>3, <2>5, BlockNames
<1>7. ASSUME ScanEnds, whole PROVE WholeInv'
  <2>1. /\ rpc = "scan" /\ rpc' = "check" /\ (pos # Len(s) => s[pos + 1] = Body("end"))
        /\ UNCHANGED <<wvars, file, whole, manifest, entries, damaged, refused>>
    BY <1>7 DEF ScanEnds, AtEnd, Block, s
  <2>2. pos # Len(s)
    BY <1>7, <1>e, <2>1 DEF WholeInv, s
  <2>3. pos + 1 = Len(s)
    BY <1>2, <1>7, <1>f, <2>1, <2>2
  <2>4. ASSUME NEW e \in listed[file] \cup {"manifest"}
        PROVE  e \in entries /\ \E i \in 1..pos : s[i] = Body(e)
    <3>1. e \in Entries /\ e # "end"
      BY <1>1, <1>7, WriterAssumption DEF WTypeOK, Entries, WriterAssumption
    <3>2. PICK i \in DOMAIN s : s[i] = Body(e)
      BY <1>7 DEF Has, WholeInv, s
    <3>3. i \in 1..Len(s) /\ i # Len(s)
      BY <1>2, <1>7, <1>e, <3>1, <3>2, BlockNames
    <3>4. i - 1 \in 1..Len(s) /\ i > 1 /\ s[i - 1] = Header(e)
      BY <1>7, <1>f, <3>1, <3>2, <3>3
    <3>5. i \in 1..pos /\ i - 1 \in 1..pos
      BY <1>2, <1>7, <2>3, <3>3, <3>4
    <3>6. e \in entries
      BY <1>7, <2>1, <3>1, <3>4, <3>5 DEF WholeInv, s
    <3>7. QED
      BY <3>2, <3>5, <3>6
  <2>5. manifest = listed[file]
    BY <1>7, <2>1, <2>4 DEF WholeInv, s
  <2>6. QED
    BY <1>7, <2>1, <2>4, <2>5 DEF WholeInv
<1> USE DEF WholeInv
<1>8. ASSUME OpenEnds, whole PROVE WholeInv'
  <2>1. listed[file] # None
    BY <1>1, <1>8, ReaderAssumption DEF WTypeOK
  <2>2. rpc = "check" /\ manifest = listed[file] /\ manifest \subseteq entries
    BY <1>8 DEF OpenEnds
  <2>3. CASE <<file, "manifest">> \in damaged
    BY <1>8, <2>1, <2>2, <2>3 DEF OpenEnds
  <2>4. CASE <<file, "manifest">> \notin damaged
    <3>1. rpc' = "filter"
      BY <1>8, <2>1, <2>2, <2>4 DEF OpenEnds
    <3>2. QED
      BY <1>8, <3>1 DEF OpenEnds
  <2>5. QED
    BY <2>3, <2>4
<1>9. ASSUME NEW names \in SUBSET Volumes, NEW projects \in SUBSET Projects,
             Select(names, projects)
      PROVE  WholeInv'
  BY <1>9 DEF Select
<1>10. ASSUME BeginVerify \/ VerifyNext \/ AllVerified \/ UnpackNext \/ AllUnpacked
      PROVE  WholeInv'
  BY <1>10 DEF BeginVerify, VerifyNext, AllVerified, UnpackNext, AllUnpacked, ReaderInv
<1>11. ASSUME ReadFails PROVE WholeInv'
  BY <1>11 DEF ReadFails
<1>12. ASSUME NEW e \in Entries, Damage(e) PROVE WholeInv'
  BY <1>12 DEF Damage, rvars
<1>13. ASSUME Crash PROVE WholeInv'
  BY <1>13 DEF Crash, rvars, ReaderInv
<1>14. ASSUME WritersGoOn, whole PROVE WholeInv'
  <2>1. UNCHANGED <<rvars, damaged>> /\ WritersMove
    BY <1>14 DEF WritersGoOn, WritersMove
  <2>2. wpc'[file] = wpc[file] /\ data'[file] = data[file] /\ listed'[file] = listed[file]
    BY <1>1, <1>14, <2>1, WritersKeep
  <2>3. QED
    BY <1>14, <2>1, <2>2 DEF rvars
<1>15. ASSUME WritersGoOn, ~whole PROVE WholeInv'
  BY <1>15 DEF WritersGoOn, rvars
<1>16. ASSUME NextEntry \/ EntryData \/ EntryCut \/ ScanEnds \/ OpenEnds, ~whole
       PROVE  WholeInv'
  BY <1>16 DEF NextEntry, EntryData, EntryCut, ScanEnds, OpenEnds
<1>17. CASE UNCHANGED avars
  BY <1>17 DEF avars, rvars
<1>18. QED
  BY <1>3, <1>4, <1>5, <1>6, <1>7, <1>8, <1>9, <1>10, <1>11, <1>12, <1>13, <1>14, <1>15,
     <1>16, <1>17 DEF ANext, Open, Restore

-----------------------------------------------------------------------------
(* The theorems.                                                           *)

\* A step of the reader changes nothing of the writers' world.
LEMMA ReaderAside == ASSUME [ANext]_avars PROVE [WNext]_wvars
BY DEF ANext, avars, WNext, Open, OpenFile, NextEntry, EntryData, EntryCut, ScanEnds,
   OpenEnds, Restore, Select, BeginVerify, VerifyNext, AllVerified, UnpackNext,
   AllUnpacked, ReadFails, Damage, Crash, WritersGoOn

\* ... so that all that holds of writers holds of writers that are read.
LEMMA ReaderIsNoWriter == ASpec => WSpec
<1>1. AInit => WInit
  BY DEF AInit
<1>2. [ANext]_avars => [WNext]_wvars
  BY ReaderAside
<1>3. QED
  BY <1>1, <1>2, PTL DEF ASpec, WSpec

AInv == FormInv /\ ReaderInv /\ ManifestInv /\ WholeInv

\* The invariant of the reader holds in every reachable state.
THEOREM AInductive == ASpec => []WInv /\ []AInv
<1>1. AInit => AInv
  <2> SUFFICES ASSUME AInit PROVE AInv
    OBVIOUS
  <2>1. FormInv
    <3>1. \A p \in Writers : data[p] = <<>> /\ DOMAIN data[p] = {} /\ Len(data[p]) = 0
      BY EmptySeq DEF AInit, WInit
    <3>2. QED
      BY <3>1 DEF FormInv, Growing, WellFormed, Has
  <2>2. ReaderInv /\ ManifestInv /\ WholeInv
    BY DEF AInit, ReaderInv, ReaderStages, ManifestInv, WholeInv, Opened
  <2>3. QED
    BY <2>1, <2>2 DEF AInv
<1>2. WInv /\ AInv /\ [ANext]_avars /\ [WNext]_wvars => AInv'
  BY FormStep, ReaderStep, ManifestStep, WholeStep DEF WInv, AInv
<1>3. ASpec => []WInv
  BY ReaderIsNoWriter, WInductive, PTL
<1>4. [ANext]_avars => [WNext]_wvars
  BY ReaderAside
<1>5. QED
  BY <1>1, <1>2, <1>3, <1>4, PTL DEF ASpec

\* A file that Open accepts holds all the data its manifest promises, however it
\* came to be.
THEOREM AcceptedIsWhole == ASpec => []OpenedIsWhole
<1>1. WInv /\ AInv => OpenedIsWhole
  <2> SUFFICES ASSUME WInv, AInv, Opened
               PROVE  /\ manifest = listed[file]
                      /\ \A e \in manifest \cup {"manifest"} : Has(data[file], Body(e))
    BY DEF OpenedIsWhole
  <2>1. manifest = listed[file] /\ Holds(file, "manifest") /\ file \in Writers
    BY DEF AInv, ManifestInv, ReaderInv, Opened
  <2>2. DOMAIN data[file] = 1..Len(data[file]) /\ Len(data[file]) \in Nat
    BY <2>1, LenProperties DEF WInv, WTypeOK
  <2>3. PICK i \in DOMAIN data[file] : data[file][i] = Body("manifest")
    BY <2>1 DEF Holds, Has
  <2>4. \A v \in listed[file] : \E j \in 1..(i - 1) : data[file][j] = Body(v)
    BY <2>1, <2>3 DEF WInv, ManifestAfterVolumes, VolumesBeforeManifest
  <2>5. \A j \in 1..(i - 1) : j \in DOMAIN data[file]
    BY <2>2, <2>3
  <2>6. QED
    BY <2>1, <2>4, <2>5 DEF Holds, Has
<1>2. QED
  BY <1>1, AInductive, PTL

\* Open accepts what Finish has published, and Verify refuses none of it but
\* what went bad on the disk.
THEOREM PublishedIsAccepted == ASpec => []PublishedOpens
<1>1. AInv => PublishedOpens
  BY DEF AInv, WholeInv, PublishedOpens
<1>2. QED
  BY <1>1, AInductive, PTL

-----------------------------------------------------------------------------
(* What is unpacked.                                                       *)

\* The volumes are verified one after the other in the order selected, all of
\* the one open file; all of them are before the first is unpacked.  (It is not
\* needed that the volumes selected differ: Verify would not get past the same
\* one twice.)
VerifiedInv ==
    /\ IsFiniteSet(verified) /\ IsFiniteSet(unpacked)
    /\ rpc \notin {"verify", "unpack", "done", "refused"} => verified = {}
    /\ verified = {<<file, selected[i]>> : i \in 1..Cardinality(verified)}
    /\ rpc = "unpack" => Cardinality(verified) = Len(selected)
    /\ unpacked \subseteq verified
    /\ unpacked # {} => rpc \in {"unpack", "done", "refused"}

\* Every step keeps it.
LEMMA VerifiedStep ==
  ASSUME VerifiedInv, ReaderInv, [ANext]_avars
  PROVE  VerifiedInv'
<1> USE DEF VerifiedInv
<1>1. Cardinality(verified) \in Nat /\ Cardinality(unpacked) \in Nat
  BY FS_CardinalityType
<1>2. ASSUME NEW f \in Writers, OpenFile(f) PROVE VerifiedInv'
  <2>1. rpc = "closed" /\ rpc' = "scan" /\ UNCHANGED <<verified, unpacked>>
    BY <1>2 DEF OpenFile, Step
  <2>2. verified = {} /\ unpacked = {} /\ Cardinality(verified) = 0
    BY <2>1, FS_EmptySet
  <2>3. verified' = {<<file', selected'[i]>> : i \in 1..Cardinality(verified')}
    BY <2>1, <2>2
  <2>4. QED
    BY <2>1, <2>2, <2>3
<1>3. ASSUME NextEntry \/ EntryData \/ EntryCut \/ ScanEnds \/ OpenEnds \/ BeginVerify
      PROVE  VerifiedInv'
  BY <1>3 DEF NextEntry, EntryData, EntryCut, ScanEnds, OpenEnds, BeginVerify, Step,
     Refuse
<1>4. ASSUME NEW names \in SUBSET Volumes, NEW projects \in SUBSET Projects,
             Select(names, projects)
      PROVE  VerifiedInv'
  <2>1. /\ rpc = "filter" /\ rpc' \in {"selected", "refused"}
        /\ UNCHANGED <<verified, unpacked>>
    BY <1>4 DEF Select, Refuse
  <2>2. verified = {} /\ unpacked = {} /\ Cardinality(verified) = 0
    BY <2>1, FS_EmptySet
  <2>3. verified' = {<<file', selected'[i]>> : i \in 1..Cardinality(verified')}
    BY <2>1, <2>2
  <2>4. QED
    BY <2>1, <2>2, <2>3
<1>5. ASSUME VerifyNext PROVE VerifiedInv'
  <2> DEFINE k == Cardinality(verified)
             s == <<file, selected[k + 1]>>
  <2>1. rpc = "verify" /\ UNCHANGED <<file, selected, unpacked>> /\ unpacked = {}
    BY <1>5 DEF VerifyNext
  <2>2. CASE verified' = verified
    BY <1>5, <2>1, <2>2 DEF VerifyNext, Refuse
  <2>3. CASE s \notin verified /\ verified' = verified \cup {s} /\ rpc' = rpc
    <3>1. IsFiniteSet(verified') /\ Cardinality(verified') = k + 1
      BY <2>3, FS_AddElement
    <3>2. 1..(k + 1) = 1..k \cup {k + 1}
      BY <1>1
    <3>3. verified' = {<<file, selected[i]>> : i \in 1..(k + 1)}
      BY <2>3, <3>2
    <3>4. verified' = {<<file', selected'[i]>> : i \in 1..Cardinality(verified')}
      BY <2>1, <3>1, <3>3
    <3>5. QED
      BY <2>1, <2>3, <3>1, <3>4
  <2>4. \/ verified' = verified
        \/ s \notin verified /\ verified' = verified \cup {s} /\ rpc' = rpc
    BY <1>5 DEF VerifyNext
  <2>5. QED
    BY <2>2, <2>3, <2>4
<1>6. ASSUME AllVerified PROVE VerifiedInv'
  BY <1>6 DEF AllVerified, Step
<1>7. ASSUME UnpackNext PROVE VerifiedInv'
  <2> DEFINE k == Cardinality(unpacked)
             s == <<file, selected[k + 1]>>
  <2>1. /\ rpc = "unpack" /\ rpc' = rpc /\ UNCHANGED <<file, selected, verified>>
        /\ k < Len(selected) /\ unpacked' = unpacked \cup {s}
    BY <1>7 DEF UnpackNext
  <2>2. k + 1 \in 1..Cardinality(verified)
    BY <1>1, <2>1
  <2>3. s \in verified
    BY <2>2
  <2>4. IsFiniteSet(unpacked')
    BY <2>1, FS_AddElement
  <2>5. QED
    BY <2>1, <2>3, <2>4
<1>8. ASSUME AllUnpacked \/ ReadFails PROVE VerifiedInv'
  BY <1>8 DEF AllUnpacked, ReadFails, Step, Refuse
<1>9. ASSUME NEW e \in Entries, Damage(e) PROVE VerifiedInv'
  BY <1>9 DEF Damage, rvars
<1>10. CASE Crash \/ WritersGoOn \/ UNCHANGED avars
  BY <1>10 DEF Crash, WritersGoOn, avars, rvars
<1>11. QED
  BY <1>2, <1>3, <1>4, <1>5, <1>6, <1>7, <1>8, <1>9, <1>10 DEF ANext, Open, Restore

\* What is handed out for unpacking passed Verify, in the file it came from.
THEOREM UnpackedVerified == ASpec => []UnpackedIsVerified
<1>1. AInit => VerifiedInv
  BY FS_EmptySet DEF AInit, VerifiedInv
<1>2. VerifiedInv /\ ReaderInv /\ [ANext]_avars => VerifiedInv'
  BY VerifiedStep
<1>3. VerifiedInv => UnpackedIsVerified
  BY DEF VerifiedInv, UnpackedIsVerified
<1>4. AInv => ReaderInv
  BY DEF AInv
<1>5. QED
  BY <1>1, <1>2, <1>3, <1>4, AInductive, PTL DEF ASpec

-----------------------------------------------------------------------------
(* The selection.                                                          *)

\* The order of the numbers, as a relation, is well founded.
LEMMA LessThan == IsWellFoundedOn({p \in Nat \X Nat : p[1] < p[2]}, Nat)
BY NatLessThanWellFounded, Zenon DEF OpToRel

\* A set has a minimum in it.
LEMMA Minimum ==
  ASSUME NEW R, IsWellFoundedOn(R, Nat), NEW C \in SUBSET Nat, C # {}
  PROVE  \E m \in C : \A k \in C : ~ (<<k, m>> \in R)
BY WFMin, Zenon

\* A set of numbers has a least one.
LEMMA Least ==
  ASSUME NEW C \in SUBSET Nat, C # {}
  PROVE  \E m \in C : \A k \in C : ~ (k < m)
<1> DEFINE R == {p \in Nat \X Nat : p[1] < p[2]}
<1>1. IsWellFoundedOn(R, Nat)
  BY LessThan
<1> HIDE DEF R
<1>2. PICK m \in C : \A k \in C : ~ (<<k, m>> \in R)
  BY <1>1, Minimum
<1>3. \A k \in C : k < m => <<k, m>> \in R
  BY DEF R
<1>4. QED
  BY <1>2, <1>3

\* Induction up to n, over a set.
LEMMA UpTo ==
  ASSUME NEW n \in Nat, NEW T, 0 \in T, \A i \in 1..n : i - 1 \in T => i \in T
  PROVE  \A i \in 0..n : i \in T
<1> DEFINE C == {i \in 0..n : i \notin T}
<1>1. ASSUME C # {} PROVE FALSE
  <2>1. PICK m \in C : \A k \in C : ~ (k < m)
    <3>1. C \in SUBSET Nat
      OBVIOUS
    <3> HIDE DEF C
    <3>2. QED
      BY <1>1, <3>1, Least
  <2>2. m \in 1..n /\ m - 1 \in C /\ m - 1 < m
    OBVIOUS
  <2>3. QED
    BY <2>1, <2>2
<1>2. QED
  BY <1>1

\* f is the loop that starts with x0 and whose i-th turn is G.
Iterates(f, n, x0, G) == f[0] = x0 /\ \A i \in 1..n : f[i] = G[<<f[i - 1], i>>]

\* Every loop can be run.
LEMMA Recursion ==
  ASSUME NEW n \in Nat, NEW X, NEW x0 \in X, NEW G \in [X \X (1..n) -> X]
  PROVE  \E f \in [0..n -> X] : Iterates(f, n, x0, G)
<1> USE DEF Iterates
<1> DEFINE T == {m \in 0..n : \E f \in [0..m -> X] : Iterates(f, m, x0, G)}
<1>1. 0 \in T
  <2> DEFINE f == [i \in 0..0 |-> x0]
  <2>1. f \in [0..0 -> X] /\ f[0] = x0 /\ 1..0 = {}
    OBVIOUS
  <2> HIDE DEF f
  <2>2. QED
    BY <2>1
<1>2. ASSUME NEW m \in 1..n, m - 1 \in T PROVE m \in T
  <2>1. PICK f \in [0..(m - 1) -> X] :
            f[0] = x0 /\ \A i \in 1..(m - 1) : f[i] = G[<<f[i - 1], i>>]
    BY <1>2
  <2> DEFINE g == [i \in 0..m |-> IF i = m THEN G[<<f[m - 1], m>>] ELSE f[i]]
  <2>2. f[m - 1] \in X /\ G[<<f[m - 1], m>>] \in X
    OBVIOUS
  <2>3. g \in [0..m -> X] /\ g[0] = x0
    BY <2>1, <2>2
  <2>4. ASSUME NEW i \in 1..m PROVE g[i] = G[<<g[i - 1], i>>]
    <3>1. i - 1 \in 0..m /\ i - 1 # m /\ g[i - 1] = f[i - 1]
      OBVIOUS
    <3>2. CASE i = m
      BY <3>1, <3>2
    <3>3. CASE i # m
      <4>1. i \in 1..(m - 1) /\ g[i] = f[i]
        BY <3>3
      <4>2. QED
        BY <2>1, <3>1, <4>1
    <3>4. QED
      BY <3>2, <3>3
  <2> HIDE DEF g
  <2>5. QED
    BY <2>3, <2>4
<1> HIDE DEF T
<1>3. n \in T
  BY <1>1, <1>2, UpTo
<1>4. QED
  BY <1>3 DEF T

\* The states of the loop.
Loops(names, projects) ==
    [unseen : SUBSET names, unseenProjects : SUBSET projects, out : Seq(Volumes)]

\* The loop, as it is defined: from its start, one turn after the other.
LEMMA ScanDefined ==
  ASSUME NEW s \in Seq(Volumes), NEW names, NEW projects
  PROVE  \E f \in [0..Len(s) -> Loops(names, projects)] :
            /\ f[0] = [unseen |-> names, unseenProjects |-> projects, out |-> <<>>]
            /\ \A i \in 1..Len(s) : f[i] = Sel!Visit(f[i - 1], s[i], names, projects)
            /\ Sel!Scan(s, names, projects) = f[Len(s)]
<1> DEFINE n == Len(s)
           X == Loops(names, projects)
           x0 == [unseen |-> names, unseenProjects |-> projects, out |-> <<>>]
           G == [z \in X \X (1..n) |-> Sel!Visit(z[1], s[z[2]], names, projects)]
           F == CHOOSE f : f = [i \in 0..n |-> IF i = 0 THEN x0
                                ELSE Sel!Visit(f[i - 1], s[i], names, projects)]
<1>1. n \in Nat /\ x0 \in X
  BY EmptySeq, LenProperties DEF Loops
<1>2. ASSUME NEW x \in X, NEW i \in 1..n
      PROVE  Sel!Visit(x, s[i], names, projects) \in X
  <2>1. s[i] \in Volumes
    BY ElementOfSeq
  <2>2. x.unseen \in SUBSET names /\ x.unseenProjects \in SUBSET projects
        /\ x.out \in Seq(Volumes)
    BY DEF Loops
  <2>3. Append(x.out, s[i]) \in Seq(Volumes)
    BY <2>1, <2>2, AppendProperties
  <2>4. QED
    BY <2>2, <2>3 DEF Sel!Visit, Loops
<1>3. G \in [X \X (1..n) -> X]
  BY <1>2
<1>4. \A x \in X, i \in 1..n : G[<<x, i>>] = Sel!Visit(x, s[i], names, projects)
  OBVIOUS
<1> HIDE DEF n, X, x0, G
<1>5. PICK f \in [0..n -> X] : Iterates(f, n, x0, G)
  BY <1>1, <1>3, Recursion, Zenon
<1>6. ASSUME NEW i \in 1..n PROVE f[i] = Sel!Visit(f[i - 1], s[i], names, projects)
  <2>1. i - 1 \in 0..n
    BY <1>1
  <2>2. f[i - 1] \in X
    BY <2>1
  <2>3. QED
    BY <1>4, <1>5, <2>2 DEF Iterates
<1>7. f = [i \in 0..n |-> IF i = 0 THEN x0
                          ELSE Sel!Visit(f[i - 1], s[i], names, projects)]
  BY <1>1, <1>5, <1>6 DEF Iterates
<1>8. F = [i \in 0..n |-> IF i = 0 THEN x0
                          ELSE Sel!Visit(F[i - 1], s[i], names, projects)]
  BY <1>7, Zenon
<1>9. Sel!Scan(s, names, projects) = F[n]
  BY Zenon DEF Sel!Scan, n, x0
<1> HIDE DEF F
<1>10. \A i \in 0..n : i \in {k \in 0..n : F[k] \in X}
  <2> DEFINE T == {k \in 0..n : F[k] \in X}
  <2>1. 0 \in T
    BY <1>1, <1>8
  <2>2. ASSUME NEW i \in 1..n, i - 1 \in T PROVE i \in T
    <3>1. F[i - 1] \in X /\ i \in 0..n /\ i # 0
      BY <1>1, <2>2
    <3>2. F[i] = Sel!Visit(F[i - 1], s[i], names, projects)
      BY <1>8, <3>1
    <3>3. QED
      BY <1>2, <3>1, <3>2
  <2> HIDE DEF T
  <2>3. \A i \in 0..n : i \in T
    BY <1>1, <2>1, <2>2, UpTo
  <2>4. QED
    BY <2>3 DEF T
<1>11. F \in [0..n -> X]
  BY <1>8, <1>10
<1>12. F[0] = x0 /\ \A i \in 1..n : F[i] = Sel!Visit(F[i - 1], s[i], names, projects)
  <2>1. 0 \in 0..n /\ \A i \in 1..n : i \in 0..n /\ i # 0
    BY <1>1
  <2>2. QED
    BY <1>8, <2>1
<1>13. QED
  BY <1>9, <1>11, <1>12, Zenon DEF n, X, x0

\* The loop has met items[1..i]: what it has seen and what it has kept.
Met(x, i, s, names, projects) ==
    /\ x.unseen = names \ {s[j] : j \in 1..i}
    /\ x.unseenProjects = projects \ {Project[s[j]] : j \in 1..i}
    /\ x.out \in Seq(Volumes)
    /\ \A k \in 1..Len(x.out) : \E j \in 1..i : x.out[k] = s[j]
    /\ \A k \in 1..Len(x.out) : x.out[k] \in names \/ Project[x.out[k]] \in projects
    /\ \A j \in 1..i : s[j] \in names \/ Project[s[j]] \in projects =>
           \E k \in 1..Len(x.out) : x.out[k] = s[j]
    /\ \A k, l \in 1..Len(x.out) : k < l =>
           \E a, b \in 1..i : a < b /\ s[a] = x.out[k] /\ s[b] = x.out[l]

\* One turn.
LEMMA VisitMeets ==
  ASSUME NEW s \in Seq(Volumes), NEW names, NEW projects, NEW i \in 1..Len(s), NEW x,
         Met(x, i - 1, s, names, projects)
  PROVE  Met(Sel!Visit(x, s[i], names, projects), i, s, names, projects)
<1> DEFINE y == Sel!Visit(x, s[i], names, projects)
           wanted == s[i] \in names \/ Project[s[i]] \in projects
<1>1. Len(s) \in Nat /\ i \in Nat /\ 1..i = 1..(i - 1) \cup {i} /\ s[i] \in Volumes
  BY LenProperties, ElementOfSeq
<1>2. /\ y.unseen = x.unseen \ {s[i]}
      /\ y.unseenProjects = x.unseenProjects \ {Project[s[i]]}
      /\ y.out = IF wanted THEN Append(x.out, s[i]) ELSE x.out
  BY DEF Sel!Visit
<1> SUFFICES Met(y, i, s, names, projects)
  OBVIOUS
<1> HIDE DEF y
<1>3. /\ y.unseen = names \ {s[j] : j \in 1..i}
      /\ y.unseenProjects = projects \ {Project[s[j]] : j \in 1..i}
  <2>1. /\ {s[j] : j \in 1..i} = {s[j] : j \in 1..(i - 1)} \cup {s[i]}
        /\ {Project[s[j]] : j \in 1..i} =
               {Project[s[j]] : j \in 1..(i - 1)} \cup {Project[s[i]]}
    BY <1>1
  <2>2. QED
    BY <1>2, <2>1 DEF Met
<1>4. CASE ~wanted
  <2>1. \A j \in 1..(i - 1) : j \in 1..i
    BY <1>1
  <2>2. y.out = x.out
    BY <1>2, <1>4
  <2>3. QED
    BY <1>1, <1>3, <1>4, <2>1, <2>2 DEF Met
<1>5. CASE wanted
  <2> DEFINE n == Len(x.out)
  <2>1. x.out \in Seq(Volumes) /\ n \in Nat /\ DOMAIN x.out = 1..n
    BY LenProperties DEF Met
  <2>2. /\ y.out \in Seq(Volumes) /\ DOMAIN y.out = 1..(n + 1)
        /\ \A k \in 1..n : y.out[k] = x.out[k]
        /\ y.out[n + 1] = s[i]
    <3>1. y.out = Append(x.out, s[i])
      BY <1>2, <1>5
    <3>2. y.out \in Seq(Volumes) /\ Len(y.out) = n + 1
      BY <1>1, <2>1, <3>1, AppendProperties
    <3>3. QED
      BY <1>1, <2>1, <3>1, <3>2, AppendProperties, LenProperties
  <2>3. /\ \A k \in 1..n : \E j \in 1..(i - 1) : x.out[k] = s[j]
        /\ \A k \in 1..n : x.out[k] \in names \/ Project[x.out[k]] \in projects
        /\ \A j \in 1..(i - 1) : s[j] \in names \/ Project[s[j]] \in projects =>
               \E k \in 1..n : x.out[k] = s[j]
        /\ \A k, l \in 1..n : k < l =>
               \E a, b \in 1..(i - 1) : a < b /\ s[a] = x.out[k] /\ s[b] = x.out[l]
    BY Zenon DEF Met
  <2>4. Len(y.out) = n + 1
    BY <2>1, <2>2
  <2> HIDE DEF n
  <2>5. 1..(n + 1) = 1..n \cup {n + 1} /\ \A j \in 1..(i - 1) : j \in 1..i /\ j < i
    BY <1>1, <2>1
  <2>6. ASSUME NEW k \in 1..(n + 1)
        PROVE  /\ \E j \in 1..i : y.out[k] = s[j]
               /\ y.out[k] \in names \/ Project[y.out[k]] \in projects
    <3>1. CASE k = n + 1
      BY <1>1, <1>5, <2>2, <3>1
    <3>2. CASE k \in 1..n
      BY <2>2, <2>3, <2>5, <3>2
    <3>3. QED
      BY <2>5, <3>1, <3>2
  <2>7. ASSUME NEW j \in 1..i, s[j] \in names \/ Project[s[j]] \in projects
        PROVE  \E k \in 1..(n + 1) : y.out[k] = s[j]
    <3>1. CASE j = i
      BY <2>2, <2>5, <3>1
    <3>2. CASE j \in 1..(i - 1)
      <4>1. PICK k \in 1..n : x.out[k] = s[j]
        BY <2>3, <2>7, <3>2
      <4>2. QED
        BY <2>2, <2>5, <4>1
    <3>3. QED
      BY <1>1, <3>1, <3>2
  <2>8. ASSUME NEW k \in 1..(n + 1), NEW l \in 1..(n + 1), k < l
        PROVE  \E a, b \in 1..i : a < b /\ s[a] = y.out[k] /\ s[b] = y.out[l]
    <3>1. k \in 1..n /\ y.out[k] = x.out[k]
      BY <2>1, <2>2, <2>8
    <3>2. CASE l = n + 1
      <4>1. PICK j \in 1..(i - 1) : x.out[k] = s[j]
        BY <2>3, <3>1
      <4>2. j \in 1..i /\ i \in 1..i /\ j < i
        BY <1>1, <2>5
      <4>3. s[j] = y.out[k] /\ s[i] = y.out[l]
        BY <2>2, <3>1, <3>2, <4>1
      <4>4. QED
        BY <4>2, <4>3
    <3>3. CASE l \in 1..n
      <4>1. PICK a \in 1..(i - 1), b \in 1..(i - 1) :
                a < b /\ s[a] = x.out[k] /\ s[b] = x.out[l]
        BY <2>3, <2>8, <3>1, <3>3
      <4>2. QED
        BY <2>2, <2>5, <3>1, <3>3, <4>1
    <3>4. QED
      BY <2>5, <3>2, <3>3
  <2>9. QED
    <3>1. \A k \in 1..Len(y.out) : \E j \in 1..i : y.out[k] = s[j]
      BY <2>6, <2>4
    <3>2. \A k \in 1..Len(y.out) : y.out[k] \in names \/ Project[y.out[k]] \in projects
      BY <2>6, <2>4
    <3>3. \A j \in 1..i : s[j] \in names \/ Project[s[j]] \in projects =>
              \E k \in 1..Len(y.out) : y.out[k] = s[j]
      BY <2>7, <2>4
    <3>4. \A k, l \in 1..Len(y.out) : k < l =>
              \E a, b \in 1..i : a < b /\ s[a] = y.out[k] /\ s[b] = y.out[l]
      <4>1. \A k, l \in 1..(n + 1) : k < l =>
                \E a, b \in 1..i : a < b /\ s[a] = y.out[k] /\ s[b] = y.out[l]
        BY <2>8
      <4>2. QED
        BY <2>4, <4>1
    <3>5. QED
      BY <1>3, <2>2, <3>1, <3>2, <3>3, <3>4, Zenon DEF Met
<1>6. QED
  BY <1>4, <1>5

\* The whole loop.
LEMMA ScanMeets ==
  ASSUME NEW s \in Seq(Volumes), NEW names, NEW projects
  PROVE  Met(Sel!Scan(s, names, projects), Len(s), s, names, projects)
<1> DEFINE x0 == [unseen |-> names, unseenProjects |-> projects, out |-> <<>>]
<1>1. PICK f \in [0..Len(s) -> Loops(names, projects)] :
          /\ f[0] = x0
          /\ \A i \in 1..Len(s) : f[i] = Sel!Visit(f[i - 1], s[i], names, projects)
          /\ Sel!Scan(s, names, projects) = f[Len(s)]
  BY ScanDefined
<1>2. Len(s) \in Nat
  BY LenProperties
<1> DEFINE T == {i \in 0..Len(s) : Met(f[i], i, s, names, projects)}
<1>3. 0 \in T
  <2>1. Met(x0, 0, s, names, projects)
    BY EmptySeq DEF Met
  <2>2. QED
    BY <1>1, <1>2, <2>1
<1>4. ASSUME NEW i \in 1..Len(s), i - 1 \in T PROVE i \in T
  <2>1. Met(f[i], i, s, names, projects)
    BY <1>1, <1>4, VisitMeets
  <2>2. QED
    BY <1>2, <2>1
<1> HIDE DEF T
<1>5. \A i \in 0..Len(s) : i \in T
  BY <1>2, <1>3, <1>4, UpTo
<1>6. Len(s) \in T
  BY <1>2, <1>5
<1>7. QED
  BY <1>1, <1>6 DEF T

\* (The cardinality that Selection speaks of is the usual one.)
LEMMA SelCardinality ==
  ASSUME NEW S
  PROVE  Sel!Cardinality(S) = Cardinality(S)
BY Zenon DEF Sel!Cardinality, Cardinality

\* The list of a manifest names each of its volumes once.
LEMMA ItemsOf ==
  ASSUME NEW vs \in SUBSET Volumes, NEW s, s = Sel!InOrder(vs)
  PROVE  /\ s \in Seq(Volumes)
         /\ vs = {s[i] : i \in 1..Len(s)}
         /\ \A i, j \in 1..Len(s) : s[i] = s[j] => i = j
<1> DEFINE n == Cardinality(vs)
<1>1. IsFiniteSet(vs)
  BY WriterAssumption, FS_Subset DEF WriterAssumption
<1>2. n \in Nat /\ n = Cardinality(vs) /\ ExistsBijection(1..n, vs)
  BY <1>1, FS_CardinalityType
<1> HIDE DEF n
<1>3. \E f \in [1..n -> vs] : Sel!IsInjective(f)
  BY <1>2, Zenon DEF ExistsBijection, Bijection, Injection, IsInjective, Sel!IsInjective
<1>4. s = CHOOSE f \in [1..n -> vs] : Sel!IsInjective(f)
  BY SelCardinality, Zenon DEF Sel!InOrder, Sel!SetToSeq, n
<1>5. s \in [1..n -> vs] /\ Sel!IsInjective(s)
  BY <1>3, <1>4, Zenon
<1>6. s \in Seq(vs) /\ Len(s) = n
  BY <1>2, <1>5, LenProperties, SeqDef
<1>7. s \in Seq(Volumes)
  BY <1>2, <1>5, SeqDef
<1>8. IsInjective(s) /\ DOMAIN s = 1..n
  BY <1>5 DEF Sel!IsInjective, IsInjective
<1>9. vs = {s[i] : i \in 1..n}
  <2>1. IsFiniteSet(1..n) /\ Cardinality(1..n) = n
    BY <1>2, FS_Interval
  <2>2. s \in Injection(1..n, vs)
    BY <1>5, <1>8, Zenon DEF Injection
  <2>3. s \in Surjection(1..n, vs)
    <3>1. Cardinality(1..n) = Cardinality(vs)
      BY <1>2, <2>1
    <3>2. QED
      BY <1>1, <2>1, <2>2, <3>1, FS_Injection, Zenon
  <2>4. QED
    BY <1>5, <2>3 DEF Surjection
<1>10. QED
  BY <1>6, <1>7, <1>8, <1>9 DEF IsInjective

\* Filter does what it is meant to do, for any manifest and any command line.
LEMMA FilterRight ==
  ASSUME NEW vs \in SUBSET Volumes, NEW names, NEW projects, NEW s, s = Sel!InOrder(vs),
         NEW found, found = Sel!Filter(s, names, projects)
  PROVE  /\ found.ok <=> ~Sel!MeantToFail(vs, names, projects)
         /\ found.ok => {found.out[i] : i \in DOMAIN found.out} =
                            Sel!Meant(vs, names, projects)
         /\ Sel!KeepsOrder(found.out, s)
<1>1. /\ s \in Seq(Volumes) /\ Len(s) \in Nat /\ DOMAIN s = 1..Len(s)
      /\ vs = {s[i] : i \in 1..Len(s)}
  BY ItemsOf, LenProperties
<1>2. /\ \A j \in 1..Len(s) : s[j] \in vs
      /\ \A v \in vs : \E j \in 1..Len(s) : s[j] = v
  BY <1>1
<1>3. CASE names = {} /\ projects = {}
  <2>1. found = [ok |-> s # <<>>, out |-> s]
    BY <1>3 DEF Sel!Filter
  <2>2. Sel!Meant(vs, names, projects) = vs
    BY <1>3 DEF Sel!Meant
  <2>3. s # <<>> <=> vs # {}
    <3>1. s = <<>> <=> Len(s) = 0
      BY <1>1, EmptySeq
    <3>2. Len(s) = 0 => vs = {}
      BY <1>2
    <3>3. Len(s) # 0 => 1 \in 1..Len(s)
      BY <1>1
    <3>4. QED
      BY <1>2, <3>1, <3>2, <3>3
  <2>4. (found.ok <=> s # <<>>) /\ found.out = s
    <3> DEFINE some == s # <<>>
    <3>1. some \in BOOLEAN /\ found = [ok |-> some, out |-> s]
      BY <2>1
    <3> HIDE DEF some
    <3>2. found.ok = some /\ found.out = s
      BY <3>1
    <3>3. QED
      BY <3>2 DEF some
  <2>5. Sel!MeantToFail(vs, names, projects) <=> vs = {}
    <3>1. names \subseteq vs /\ projects \subseteq {Project[v] : v \in vs}
      BY <1>3
    <3>2. QED
      BY <2>2, <3>1 DEF Sel!MeantToFail
  <2>6. Sel!KeepsOrder(s, s)
    BY DEF Sel!KeepsOrder
  <2>7. {s[i] : i \in DOMAIN s} = vs
    BY <1>1
  <2>8. QED
    BY <2>2, <2>3, <2>4, <2>5, <2>6, <2>7
<1>4. CASE ~(names = {} /\ projects = {})
  <2> DEFINE end == Sel!Scan(s, names, projects)
             meant == Sel!Meant(vs, names, projects)
  <2>1. found = [ok |-> end.unseen = {} /\ end.unseenProjects = {}, out |-> end.out]
    BY <1>4, Zenon DEF Sel!Filter
  <2>2. Met(end, Len(s), s, names, projects)
    BY <1>1, ScanMeets
  <2> HIDE DEF end
  <2>3. meant = {v \in vs : v \in names \/ Project[v] \in projects}
    BY <1>4 DEF Sel!Meant
  <2>4. found.ok <=> names \subseteq vs /\ projects \subseteq {Project[v] : v \in vs}
    <3>1. {Project[v] : v \in vs} = {Project[s[j]] : j \in 1..Len(s)}
      BY <1>2
    <3>2. /\ end.unseen = names \ vs
          /\ end.unseenProjects = projects \ {Project[v] : v \in vs}
      BY <1>1, <2>2, <3>1 DEF Met
    <3>3. found.ok <=> end.unseen = {} /\ end.unseenProjects = {}
      <4> DEFINE all == end.unseen = {} /\ end.unseenProjects = {}
      <4>1. all \in BOOLEAN /\ found = [ok |-> all, out |-> end.out]
        BY <2>1
      <4> HIDE DEF all
      <4>2. found.ok = all
        BY <4>1
      <4>3. QED
        BY <4>2 DEF all
    <3>4. QED
      BY <3>2, <3>3
  <2>5. found.ok => meant # {}
    <3>1. ASSUME names \subseteq vs, NEW v \in names PROVE v \in meant
      BY <2>3, <3>1
    <3>2. ASSUME projects \subseteq {Project[v] : v \in vs}, NEW p \in projects
          PROVE  \E v \in vs : v \in meant
      BY <2>3, <3>2
    <3>3. QED
      BY <1>4, <2>4, <3>1, <3>2
  <2>6. DOMAIN end.out = 1..Len(end.out)
    BY <2>2, LenProperties DEF Met
  <2>7. {end.out[i] : i \in DOMAIN end.out} = meant
    <3>1. ASSUME NEW i \in 1..Len(end.out) PROVE end.out[i] \in meant
      BY <1>2, <2>2, <2>3, <3>1 DEF Met
    <3>2. ASSUME NEW v \in meant PROVE \E i \in 1..Len(end.out) : end.out[i] = v
      <4>1. PICK j \in 1..Len(s) : s[j] = v
        BY <1>2, <2>3
      <4>2. v \in names \/ Project[v] \in projects
        BY <2>3
      <4>3. QED
        BY <2>2, <4>1, <4>2 DEF Met
    <3>3. QED
      BY <2>6, <3>1, <3>2
  <2>8. Sel!KeepsOrder(end.out, s)
    <3>1. \A k, l \in 1..Len(end.out) : k < l =>
              \E a, b \in 1..Len(s) : a < b /\ s[a] = end.out[k] /\ s[b] = end.out[l]
      BY <2>2, Zenon DEF Met
    <3>2. SUFFICES ASSUME NEW k \in DOMAIN end.out, NEW l \in DOMAIN end.out, k < l
                   PROVE  \E a, b \in DOMAIN s :
                              a < b /\ s[a] = end.out[k] /\ s[b] = end.out[l]
      BY Zenon DEF Sel!KeepsOrder
    <3>3. PICK a \in 1..Len(s), b \in 1..Len(s) :
              a < b /\ s[a] = end.out[k] /\ s[b] = end.out[l]
      <4>1. k \in 1..Len(end.out) /\ l \in 1..Len(end.out)
        BY <2>6, <3>2
      <4>2. QED
        BY <3>1, <3>2, <4>1, Zenon
    <3>4. QED
      BY <1>1, <3>3
  <2>9. found.out = end.out
    BY <2>1
  <2> HIDE DEF meant
  <2>10. QED
    BY <2>4, <2>5, <2>7, <2>8, <2>9 DEF Sel!MeantToFail, meant
<1>5. QED
  BY <1>3, <1>4

\* Filter's one pass selects what it is meant to, once each and in the order of
\* the manifest, and fails exactly when it is meant to.
THEOREM SelectionIsRight == ASpec => []SelectionRight
<1>1. AInit => SelectionRight
  BY DEF AInit, SelectionRight
<1>2. WTypeOK /\ ManifestInv /\ ReaderInv /\ SelectionRight /\ [ANext]_avars
          => SelectionRight'
  <2> SUFFICES ASSUME WTypeOK, ManifestInv, ReaderInv, SelectionRight, [ANext]_avars
               PROVE  SelectionRight'
    OBVIOUS
  <2>1. ASSUME NEW names \in SUBSET Volumes, NEW projects \in SUBSET Projects,
               Select(names, projects)
        PROVE  SelectionRight'
    <3> DEFINE found == Sel!Filter(Items, names, projects)
    <3>1. /\ rpc = "filter" /\ manifest' = manifest /\ selected' = found.out
          /\ asked' = [names |-> names, projects |-> projects]
          /\ IF found.ok THEN rpc' = "selected" /\ UNCHANGED refused
             ELSE rpc' = "refused" /\ refused' = "not found"
      BY <2>1 DEF Select, Refuse
    <3>2. manifest \in SUBSET Volumes
      BY <3>1 DEF WTypeOK, ManifestInv, ReaderInv, Opened
    <3>3. asked'.names = names /\ asked'.projects = projects
      BY <3>1
    <3>4. /\ found.ok <=> ~Sel!MeantToFail(manifest, names, projects)
          /\ found.ok => {found.out[i] : i \in DOMAIN found.out} =
                             Sel!Meant(manifest, names, projects)
          /\ Sel!KeepsOrder(found.out, Items)
      BY <3>2, FilterRight, Zenon DEF Items
    <3> HIDE DEF found
    <3>5. Items' = Items
      BY <3>1 DEF Items
    <3>6. CASE found.ok
      BY <3>1, <3>3, <3>4, <3>5, <3>6 DEF SelectionRight
    <3>7. CASE ~found.ok
      BY <3>1, <3>3, <3>4, <3>7 DEF SelectionRight
    <3>8. QED
      BY <3>6, <3>7
  <2>2. ASSUME NEW f \in Writers, OpenFile(f) PROVE SelectionRight'
    BY <2>2 DEF OpenFile, Step, SelectionRight
  <2>3. CASE NextEntry \/ EntryData \/ EntryCut \/ ScanEnds \/ OpenEnds
    BY <2>3 DEF NextEntry, EntryData, EntryCut, ScanEnds, OpenEnds, Step, Refuse,
       SelectionRight
  <2>4. CASE \/ BeginVerify \/ VerifyNext \/ AllVerified
             \/ UnpackNext \/ AllUnpacked \/ ReadFails
    BY <2>4 DEF BeginVerify, VerifyNext, AllVerified, UnpackNext, AllUnpacked,
       ReadFails,
       Step, Refuse, SelectionRight
  <2>5. CASE (\E e \in Entries : Damage(e)) \/ Crash \/ WritersGoOn \/ UNCHANGED avars
    <3>1. UNCHANGED rvars
      BY <2>5 DEF Damage, Crash, WritersGoOn, avars
    <3>2. QED
      BY <3>1 DEF rvars, SelectionRight, Items
  <2>6. QED
    BY <2>1, <2>2, <2>3, <2>4, <2>5 DEF ANext, Open, Restore
<1>3. WInv => WTypeOK
  BY DEF WInv
<1>4. AInv => ReaderInv /\ ManifestInv
  BY DEF AInv
<1>5. QED
  BY <1>1, <1>2, <1>3, <1>4, AInductive, PTL DEF ASpec
=============================================================================
