------------------------- MODULE ArchiveWriterProofs ------------------------
(***************************************************************************)
(* Proofs of the archive writer's safety properties, for any number of     *)
(* writers that use the same name and any finite set of volumes.           *)
(*                                                                         *)
(* Ownership of the .partial name is inductive given the types; what a     *)
(* file holds follows the stage of its writer (ContentInv), and the        *)
(* published file is one whose writer had ownership and had synced it.     *)
(***************************************************************************)
EXTENDS ArchiveWriter, TLAPS, SequenceTheorems

-----------------------------------------------------------------------------
(* Files.                                                                  *)

\* One block more: the length, the blocks, and which blocks there are.
LEMMA BlockAdded ==
  ASSUME NEW s \in Seq(Blocks), NEW b \in Blocks
  PROVE  /\ Append(s, b) \in Seq(Blocks) /\ Len(Append(s, b)) = Len(s) + 1
         /\ \A i \in 1..Len(s) : Append(s, b)[i] = s[i]
         /\ Append(s, b)[Len(s) + 1] = b
         /\ \A x : Has(Append(s, b), x) <=> Has(s, x) \/ x = b
<1>1. /\ Append(s, b) \in Seq(Blocks) /\ Len(Append(s, b)) = Len(s) + 1
      /\ \A i \in 1..Len(s) : Append(s, b)[i] = s[i]
      /\ Append(s, b)[Len(s) + 1] = b
  BY AppendProperties
<1>2. /\ DOMAIN s = 1..Len(s) /\ Len(s) \in Nat
      /\ DOMAIN Append(s, b) = 1..(Len(s) + 1)
  BY <1>1, LenProperties
<1>3. ASSUME NEW x, Has(s, x) PROVE Has(Append(s, b), x)
  BY <1>1, <1>2, <1>3 DEF Has
<1>4. ASSUME NEW x, Has(Append(s, b), x), x # b PROVE Has(s, x)
  <2>1. PICK i \in 1..(Len(s) + 1) : Append(s, b)[i] = x
    BY <1>2, <1>4 DEF Has
  <2>2. i \in 1..Len(s)
    BY <1>1, <1>2, <1>4, <2>1
  <2>3. QED
    BY <1>1, <1>2, <2>1, <2>2 DEF Has
<1>5. Has(Append(s, b), b)
  BY <1>1, <1>2 DEF Has
<1>6. QED
  BY <1>1, <1>3, <1>4, <1>5

\* One entry more.
LEMMA EntryAdded ==
  ASSUME NEW s \in Seq(Blocks), NEW e \in Entries
  PROVE  /\ WithEntry(s, e) \in Seq(Blocks) /\ Len(WithEntry(s, e)) = Len(s) + 2
         /\ \A x : Has(WithEntry(s, e), x) <=> Has(s, x) \/ x = Header(e) \/ x = Body(e)
<1> DEFINE h == Append(s, Header(e))
<1>1. Header(e) \in Blocks /\ Body(e) \in Blocks
  BY DEF Header, Body, Blocks
<1>2. /\ h \in Seq(Blocks) /\ Len(h) = Len(s) + 1
      /\ \A x : Has(h, x) <=> Has(s, x) \/ x = Header(e)
  BY <1>1, BlockAdded
<1>3. Len(s) \in Nat
  BY LenProperties
<1> HIDE DEF h
<1>4. /\ Append(h, Body(e)) \in Seq(Blocks) /\ Len(Append(h, Body(e))) = Len(h) + 1
      /\ \A x : Has(Append(h, Body(e)), x) <=> Has(h, x) \/ x = Body(e)
  BY <1>1, <1>2, BlockAdded
<1>5. WithEntry(s, e) = Append(h, Body(e))
  BY DEF WithEntry, h
<1>6. QED
  BY <1>2, <1>3, <1>4, <1>5

\* A block that is no manifest keeps the volumes before the manifest.
LEMMA BlockKeepsOrder ==
  ASSUME NEW s \in Seq(Blocks), NEW b \in Blocks, b # Body("manifest"), NEW vs,
         VolumesBeforeManifest(s, vs)
  PROVE  VolumesBeforeManifest(Append(s, b), vs)
<1>1. SUFFICES ASSUME NEW i \in DOMAIN Append(s, b), Append(s, b)[i] = Body("manifest"),
                      NEW v \in vs
               PROVE  \E j \in 1..(i - 1) : Append(s, b)[j] = Body(v)
  BY DEF VolumesBeforeManifest
<1>2. DOMAIN s = 1..Len(s) /\ Len(s) \in Nat /\ DOMAIN Append(s, b) = 1..(Len(s) + 1)
  BY BlockAdded, LenProperties
<1>3. i \in 1..Len(s) /\ s[i] = Body("manifest")
  BY <1>1, <1>2, BlockAdded
<1>4. PICK j \in 1..(i - 1) : s[j] = Body(v)
  BY <1>2, <1>3 DEF VolumesBeforeManifest
<1>5. QED
  BY <1>2, <1>3, <1>4, BlockAdded

\* A first manifest after the volumes is in order.
LEMMA ManifestKeepsOrder ==
  ASSUME NEW s \in Seq(Blocks), NEW vs, ~Has(s, Body("manifest")),
         \A v \in vs : Has(s, Body(v))
  PROVE  VolumesBeforeManifest(WithEntry(s, "manifest"), vs)
<1> DEFINE h == Append(s, Header("manifest"))
           m == Append(h, Body("manifest"))
<1>1. Header("manifest") \in Blocks /\ Body("manifest") \in Blocks
      /\ Header("manifest") # Body("manifest")
  BY DEF Header, Body, Blocks, Entries
<1>2. /\ h \in Seq(Blocks) /\ Len(h) = Len(s) + 1 /\ ~Has(h, Body("manifest"))
      /\ \A v \in vs : Has(h, Body(v))
  BY <1>1, BlockAdded
<1>3. /\ DOMAIN h = 1..Len(h) /\ Len(h) \in Nat /\ DOMAIN m = 1..(Len(h) + 1)
      /\ \A i \in 1..Len(h) : m[i] = h[i]
  <2> HIDE DEF h
  <2>1. m \in Seq(Blocks) /\ Len(m) = Len(h) + 1 /\ \A i \in 1..Len(h) : m[i] = h[i]
    BY <1>1, <1>2, BlockAdded
  <2>2. QED
    BY <1>2, <2>1, LenProperties
<1> HIDE DEF h, m
<1>4. SUFFICES ASSUME NEW i \in DOMAIN m, m[i] = Body("manifest"), NEW v \in vs
               PROVE  \E j \in 1..(i - 1) : m[j] = Body(v)
  BY DEF VolumesBeforeManifest, WithEntry, h, m
<1>5. i = Len(h) + 1
  BY <1>2, <1>3, <1>4 DEF Has
<1>6. PICK j \in 1..Len(h) : h[j] = Body(v)
  BY <1>2, <1>3 DEF Has
<1>7. QED
  BY <1>3, <1>5, <1>6

\* Cutting a file keeps what is left in order.
LEMMA CutKeeps ==
  ASSUME NEW s \in Seq(Blocks), NEW n \in 0..Len(s), NEW vs
  PROVE  /\ SubSeq(s, 1, n) \in Seq(Blocks) /\ Len(SubSeq(s, 1, n)) = n
         /\ n = Len(s) => \A x : Has(s, x) => Has(SubSeq(s, 1, n), x)
         /\ VolumesBeforeManifest(s, vs) => VolumesBeforeManifest(SubSeq(s, 1, n), vs)
<1> DEFINE t == SubSeq(s, 1, n)
<1>1. Len(s) \in Nat /\ DOMAIN s = 1..Len(s) /\ \A i \in 1..Len(s) : s[i] \in Blocks
  BY LenProperties, ElementOfSeq
<1>2. n \in Nat /\ n <= Len(s)
  BY <1>1
<1>3. t \in Seq(Blocks) /\ Len(t) = n /\ \A i \in 1..n : t[i] = s[i]
  BY <1>1, <1>2, SubSeqProperties
<1>4. DOMAIN t = 1..n
  BY <1>3, LenProperties
<1> HIDE DEF t
<1>5. ASSUME n = Len(s), NEW x, Has(s, x) PROVE Has(t, x)
  BY <1>1, <1>3, <1>4, <1>5 DEF Has
<1>6. ASSUME VolumesBeforeManifest(s, vs) PROVE VolumesBeforeManifest(t, vs)
  BY <1>1, <1>2, <1>3, <1>4, <1>6 DEF VolumesBeforeManifest
<1>7. QED
  BY <1>3, <1>5, <1>6 DEF t

\* What the entries and their blocks are.
LEMMA EntriesKnown ==
  /\ Volumes \cup {"manifest", "readme", "end"} \subseteq Entries
  /\ \A e \in Entries : Header(e) \in Blocks /\ Body(e) \in Blocks
  /\ \A e, d : Header(e) # Body(d) /\ (Body(e) = Body(d) => e = d)
  BY DEF Entries, Blocks, Header, Body

\* The headers that Finish writes are blocks, and no manifest.
LEMMA HeadersKnown ==
  \A e \in {"manifest", "readme"} : Header(e) \in Blocks /\ Header(e) # Body("manifest")
BY DEF Header, Body, Blocks, Entries

-----------------------------------------------------------------------------
\* The initial states have the right types.
LEMMA WTypeInit == WInit => WTypeOK
  BY WriterAssumption, EmptySeq DEF WriterAssumption, WInit, WTypeOK, Stages

\* The types, action by action.
LEMMA WTypeStep == WTypeOK /\ [WNext]_wvars => WTypeOK'
<1> SUFFICES ASSUME WTypeOK, [WNext]_wvars PROVE WTypeOK'
  OBVIOUS
<1> USE WriterAssumption, EntriesKnown DEF WriterAssumption, WTypeOK, Stages
<1>1. ASSUME NEW p \in Writers, StatFinal(p) PROVE WTypeOK'
  <2>1. /\ wpc' = [wpc EXCEPT ![p] = "checked"] \/ wpc' = [wpc EXCEPT ![p] = "refused"]
        /\ UNCHANGED <<partial, final, data, synced, adding, listed>>
    BY <1>1 DEF StatFinal, Goto
  <2>2. wpc[p] = "idle"
    BY <1>1 DEF StatFinal, Goto
  <2>3. QED
    BY <2>1, <2>2
<1>2. ASSUME NEW p \in Writers, OpenPartial(p) PROVE WTypeOK'
  BY <1>2 DEF OpenPartial, Goto
<1>3. ASSUME NEW p \in Writers, OpenFails(p) PROVE WTypeOK'
  BY <1>3 DEF OpenFails, Goto
<1>4. ASSUME NEW p \in Writers, NEW v \in Volumes, BeginAdd(p, v) PROVE WTypeOK'
  BY <1>4 DEF BeginAdd, Goto
<1>5. ASSUME NEW p \in Writers, AppendVolume(p) PROVE WTypeOK'
  <2>1. adding[p] \in Entries /\ data[p] \in Seq(Blocks)
    BY <1>5 DEF AppendVolume, Goto
  <2>2. WithEntry(data[p], adding[p]) \in Seq(Blocks)
    BY <2>1, EntryAdded
  <2>3. /\ data' = [data EXCEPT ![p] = WithEntry(data[p], adding[p])]
        /\ wpc' = [wpc EXCEPT ![p] = "open"]
        /\ listed' = [listed EXCEPT ![p] = listed[p] \cup {adding[p]}]
        /\ adding' = [adding EXCEPT ![p] = None]
        /\ UNCHANGED <<partial, final, synced>>
    BY <1>5 DEF AppendVolume, Goto
  <2>4. adding[p] \in Volumes
    BY <1>5 DEF AppendVolume, Goto
  <2>5. QED
    BY <2>2, <2>3, <2>4
<1>6. ASSUME NEW p \in Writers, AddFails(p) PROVE WTypeOK'
  <2>1. CASE UNCHANGED data
    BY <1>6, <2>1 DEF AddFails, Goto
  <2>2. CASE wpc[p] = "compress" /\ data' = [data EXCEPT ![p] = Append(@, Header(adding[p]))]
    <3>1. Append(data[p], Header(adding[p])) \in Seq(Blocks)
      BY <2>2, BlockAdded
    <3>2. data' \in [Writers -> Seq(Blocks)]
      BY <2>2, <3>1
    <3>3. QED
      BY <1>6, <3>2 DEF AddFails, Goto
  <2>3. QED
    BY <1>6, <2>1, <2>2 DEF AddFails
<1>7. ASSUME NEW p \in Writers, WriteManifest(p) PROVE WTypeOK'
  BY <1>7, EntryAdded DEF WriteManifest, Goto
<1>8. ASSUME NEW p \in Writers, WriteReadme(p) PROVE WTypeOK'
  BY <1>8, EntryAdded DEF WriteReadme, Goto
<1>9. ASSUME NEW p \in Writers, CloseTar(p) PROVE WTypeOK'
  BY <1>9, BlockAdded DEF CloseTar, Goto
<1>10. ASSUME NEW p \in Writers, Sync(p) PROVE WTypeOK'
  BY <1>10, LenProperties DEF Sync, Goto
<1>11. ASSUME NEW p \in Writers, CloseFile(p) PROVE WTypeOK'
  BY <1>11 DEF CloseFile, Goto
<1>12. ASSUME NEW p \in Writers, Rename(p) PROVE WTypeOK'
  BY <1>12 DEF Rename, Goto
<1>13. ASSUME NEW p \in Writers, FinishFails(p) PROVE WTypeOK'
  <2>1. CASE UNCHANGED data
    BY <1>13, <2>1 DEF FinishFails, Goto
  <2>2. ASSUME NEW h \in Blocks, h # Body("manifest"),
               data' = [data EXCEPT ![p] = Append(@, h)]
        PROVE  WTypeOK'
    <3>1. data' \in [Writers -> Seq(Blocks)]
      BY <2>2, BlockAdded
    <3>2. QED
      BY <1>13, <3>1 DEF FinishFails, Goto
  <2>3. QED
    BY <1>13, <2>1, <2>2, HeadersKnown DEF FinishFails
<1>14. ASSUME NEW p \in Writers, Abort(p) PROVE WTypeOK'
  BY <1>14 DEF Abort, Goto
<1>15. ASSUME NEW p \in Writers, AbortFails(p) PROVE WTypeOK'
  BY <1>15 DEF AbortFails, Goto
<1>16. ASSUME NEW p \in Writers, KillWriter(p) PROVE WTypeOK'
  BY <1>16 DEF KillWriter, Goto
<1>17. ASSUME NEW p \in Writers, OtherRemovesLeftover(p) PROVE WTypeOK'
  BY <1>17 DEF OtherRemovesLeftover
<1>18. ASSUME PowerLoss PROVE WTypeOK'
  <2>1. PICK keep \in [Writers -> 0..MaxBlocks] :
            /\ \A p \in Writers : keep[p] \in synced[p]..Len(data[p])
            /\ data' = [p \in Writers |-> SubSeq(data[p], 1, keep[p])]
    BY <1>18 DEF PowerLoss
  <2>2. \A p \in Writers : keep[p] \in 0..Len(data[p])
    BY <2>1, LenProperties
  <2>3. data' \in [Writers -> Seq(Blocks)]
    BY <2>1, <2>2, CutKeeps
  <2>4. QED
    BY <1>18, <2>3 DEF PowerLoss
<1>19. ASSUME OtherPlacesFinal PROVE WTypeOK'
  BY <1>19 DEF OtherPlacesFinal
<1>20. CASE UNCHANGED wvars
  BY <1>20 DEF wvars
<1>21. QED BY <1>1, <1>2, <1>3, <1>4, <1>5, <1>6, <1>7, <1>8, <1>9, <1>10, <1>11,
             <1>12, <1>13, <1>14, <1>15, <1>16, <1>17, <1>18, <1>19, <1>20 DEF
             WNext, WriterStep

\* Every variable of the writers keeps its type (type invariant).
THEOREM WTypeCorrect == WSpec => []WTypeOK
  BY WTypeInit, WTypeStep, PTL DEF WSpec

-----------------------------------------------------------------------------
\* Ownership, action by action.
LEMMA OwnedStep == WTypeOK /\ PartialOwned /\ [WNext]_wvars => PartialOwned'
<1> SUFFICES ASSUME WTypeOK, PartialOwned, [WNext]_wvars PROVE PartialOwned'
  OBVIOUS
<1> USE WriterAssumption DEF WriterAssumption, WTypeOK, Stages, PartialOwned,
        Working
<1>1. ASSUME NEW p \in Writers, StatFinal(p) PROVE PartialOwned'
  BY <1>1 DEF StatFinal, Goto
<1>2. ASSUME NEW p \in Writers, OpenPartial(p) PROVE PartialOwned'
  BY <1>2 DEF OpenPartial, Goto
<1>3. ASSUME NEW p \in Writers, OpenFails(p) PROVE PartialOwned'
  BY <1>3 DEF OpenFails, Goto
<1>4. ASSUME NEW p \in Writers, NEW v \in Volumes, BeginAdd(p, v) PROVE PartialOwned'
  BY <1>4 DEF BeginAdd, Goto
<1>5. ASSUME NEW p \in Writers, AppendVolume(p) PROVE PartialOwned'
  BY <1>5 DEF AppendVolume, Goto
<1>6. ASSUME NEW p \in Writers, AddFails(p) PROVE PartialOwned'
  BY <1>6 DEF AddFails, Goto
<1>7. ASSUME NEW p \in Writers, WriteManifest(p) PROVE PartialOwned'
  BY <1>7 DEF WriteManifest, Goto
<1>8. ASSUME NEW p \in Writers, WriteReadme(p) PROVE PartialOwned'
  BY <1>8 DEF WriteReadme, Goto
<1>9. ASSUME NEW p \in Writers, CloseTar(p) PROVE PartialOwned'
  BY <1>9 DEF CloseTar, Goto
<1>10. ASSUME NEW p \in Writers, Sync(p) PROVE PartialOwned'
  BY <1>10 DEF Sync, Goto
<1>11. ASSUME NEW p \in Writers, CloseFile(p) PROVE PartialOwned'
  BY <1>11 DEF CloseFile, Goto
<1>12. ASSUME NEW p \in Writers, Rename(p) PROVE PartialOwned'
  BY <1>12 DEF Rename, Goto
<1>13. ASSUME NEW p \in Writers, FinishFails(p) PROVE PartialOwned'
  BY <1>13 DEF FinishFails, Goto
<1>14. ASSUME NEW p \in Writers, Abort(p) PROVE PartialOwned'
  BY <1>14 DEF Abort, Goto
<1>15. ASSUME NEW p \in Writers, AbortFails(p) PROVE PartialOwned'
  BY <1>15 DEF AbortFails, Goto
<1>16. ASSUME NEW p \in Writers, KillWriter(p) PROVE PartialOwned'
  BY <1>16 DEF KillWriter, Goto
<1>17. ASSUME NEW p \in Writers, OtherRemovesLeftover(p) PROVE PartialOwned'
  BY <1>17 DEF OtherRemovesLeftover
<1>18. ASSUME PowerLoss PROVE PartialOwned'
  BY <1>18 DEF PowerLoss
<1>19. ASSUME OtherPlacesFinal PROVE PartialOwned'
  BY <1>19 DEF OtherPlacesFinal
<1>20. CASE UNCHANGED wvars
  BY <1>20 DEF wvars
<1>21. QED BY <1>1, <1>2, <1>3, <1>4, <1>5, <1>6, <1>7, <1>8, <1>9, <1>10, <1>11,
             <1>12, <1>13, <1>14, <1>15, <1>16, <1>17, <1>18, <1>19, <1>20 DEF
             WNext, WriterStep

\* A working writer's file is the one its .partial name holds: no run renames
\* or removes the file of another.
THEOREM Ownership == WSpec => []PartialOwned
<1>1. WInit => PartialOwned
  BY DEF WInit, PartialOwned, Working
<1>2. QED
  BY WTypeCorrect, <1>1, OwnedStep, PTL DEF WSpec

-----------------------------------------------------------------------------
(* What the files hold.                                                    *)

Holds(p, e) == Has(data[p], Body(e))

\* The stages from the given one to the end of Finish.
FromSynced == {"synced", "closed", "done"}
FromTrailer == {"trailer"} \cup FromSynced
FromReadme == {"readme"} \cup FromTrailer
FromManifest == {"manifest"} \cup FromReadme

\* What a file holds at each stage of its writer.
ContentInv ==
    \A p \in Writers :
        /\ wpc[p] \in {"idle", "checked", "open", "compress"} \cup FromManifest =>
               \A v \in listed[p] : Holds(p, v)
        /\ wpc[p] \in FromManifest => Holds(p, "manifest")
        /\ wpc[p] \in FromReadme => Holds(p, "readme")
        /\ wpc[p] \in FromTrailer => Holds(p, "end")
        /\ wpc[p] \in FromSynced => synced[p] = Len(data[p])
        /\ wpc[p] \in {"idle", "checked", "refused", "open", "compress"} =>
               ~Holds(p, "manifest")

\* The contents, action by action.
LEMMA ContentStep == WTypeOK /\ ContentInv /\ [WNext]_wvars => ContentInv'
<1> SUFFICES ASSUME WTypeOK, ContentInv, [WNext]_wvars PROVE ContentInv'
  OBVIOUS
<1> USE WriterAssumption, EntriesKnown DEF WriterAssumption, WTypeOK, ContentInv,
        Holds, Stages, FromManifest, FromReadme, FromTrailer, FromSynced
<1>1. ASSUME NEW p \in Writers, StatFinal(p) PROVE ContentInv'
  BY <1>1 DEF StatFinal, Goto
<1>2. ASSUME NEW p \in Writers, OpenPartial(p) PROVE ContentInv'
  BY <1>2 DEF OpenPartial, Goto
<1>3. ASSUME NEW p \in Writers, OpenFails(p) PROVE ContentInv'
  BY <1>3 DEF OpenFails, Goto
<1>4. ASSUME NEW p \in Writers, NEW v \in Volumes, BeginAdd(p, v) PROVE ContentInv'
  BY <1>4 DEF BeginAdd, Goto
<1>5. ASSUME NEW p \in Writers, AppendVolume(p) PROVE ContentInv'
  <2>1. adding[p] \in Entries /\ data[p] \in Seq(Blocks)
    BY <1>5 DEF AppendVolume, Goto
  <2>2. \A x : Has(data'[p], x) <=> Has(data[p], x) \/ x = Header(adding[p]) \/ x = Body(adding[p])
    <3>1. data'[p] = WithEntry(data[p], adding[p])
      BY <1>5 DEF AppendVolume
    <3>2. QED
      BY <2>1, <3>1, EntryAdded
  <2>3. \A q \in Writers : q # p => data'[q] = data[q] /\ wpc'[q] = wpc[q] /\ listed'[q] = listed[q]
    BY <1>5 DEF AppendVolume, Goto
  <2>4. QED
    BY <1>5, <2>1, <2>2, <2>3 DEF AppendVolume, Goto
<1>6. ASSUME NEW p \in Writers, AddFails(p) PROVE ContentInv'
  BY <1>6, BlockAdded DEF AddFails, Goto
<1>7. ASSUME NEW p \in Writers, WriteManifest(p) PROVE ContentInv'
  <2>1. "manifest" \in Entries /\ data[p] \in Seq(Blocks)
    BY <1>7 DEF WriteManifest, Goto
  <2>2. \A x : Has(data'[p], x) <=> Has(data[p], x) \/ x = Header("manifest") \/ x = Body("manifest")
    <3>1. data'[p] = WithEntry(data[p], "manifest")
      BY <1>7 DEF WriteManifest
    <3>2. QED
      BY <2>1, <3>1, EntryAdded
  <2>3. \A q \in Writers : q # p => data'[q] = data[q] /\ wpc'[q] = wpc[q] /\ listed'[q] = listed[q]
    BY <1>7 DEF WriteManifest, Goto
  <2>4. QED
    BY <1>7, <2>1, <2>2, <2>3 DEF WriteManifest, Goto
<1>8. ASSUME NEW p \in Writers, WriteReadme(p) PROVE ContentInv'
  <2>1. "readme" \in Entries /\ data[p] \in Seq(Blocks)
    BY <1>8 DEF WriteReadme, Goto
  <2>2. \A x : Has(data'[p], x) <=> Has(data[p], x) \/ x = Header("readme") \/ x = Body("readme")
    <3>1. data'[p] = WithEntry(data[p], "readme")
      BY <1>8 DEF WriteReadme
    <3>2. QED
      BY <2>1, <3>1, EntryAdded
  <2>3. \A q \in Writers : q # p => data'[q] = data[q] /\ wpc'[q] = wpc[q] /\ listed'[q] = listed[q]
    BY <1>8 DEF WriteReadme, Goto
  <2>4. QED
    BY <1>8, <2>1, <2>2, <2>3 DEF WriteReadme, Goto
<1>9. ASSUME NEW p \in Writers, CloseTar(p) PROVE ContentInv'
  <2>1. "end" \in Entries /\ data[p] \in Seq(Blocks)
    BY <1>9 DEF CloseTar, Goto
  <2>2. \A x : Has(data'[p], x) <=> Has(data[p], x) \/ x = Body("end")
    BY <1>9, <2>1, BlockAdded DEF CloseTar
  <2>3. \A q \in Writers : q # p => data'[q] = data[q] /\ wpc'[q] = wpc[q] /\ listed'[q] = listed[q]
    BY <1>9 DEF CloseTar, Goto
  <2>4. QED
    BY <1>9, <2>1, <2>2, <2>3 DEF CloseTar, Goto
<1>10. ASSUME NEW p \in Writers, Sync(p) PROVE ContentInv'
  BY <1>10 DEF Sync, Goto
<1>11. ASSUME NEW p \in Writers, CloseFile(p) PROVE ContentInv'
  BY <1>11 DEF CloseFile, Goto
<1>12. ASSUME NEW p \in Writers, Rename(p) PROVE ContentInv'
  BY <1>12 DEF Rename, Goto
<1>13. ASSUME NEW p \in Writers, FinishFails(p) PROVE ContentInv'
  BY <1>13 DEF FinishFails, Goto
<1>14. ASSUME NEW p \in Writers, Abort(p) PROVE ContentInv'
  BY <1>14 DEF Abort, Goto
<1>15. ASSUME NEW p \in Writers, AbortFails(p) PROVE ContentInv'
  BY <1>15 DEF AbortFails, Goto
<1>16. ASSUME NEW p \in Writers, KillWriter(p) PROVE ContentInv'
  BY <1>16 DEF KillWriter, Goto
<1>17. ASSUME NEW p \in Writers, OtherRemovesLeftover(p) PROVE ContentInv'
  BY <1>17 DEF OtherRemovesLeftover
<1>18. ASSUME PowerLoss PROVE ContentInv'
  BY <1>18 DEF PowerLoss
<1>19. ASSUME OtherPlacesFinal PROVE ContentInv'
  BY <1>19 DEF OtherPlacesFinal
<1>20. CASE UNCHANGED wvars
  BY <1>20 DEF wvars
<1>21. QED BY <1>1, <1>2, <1>3, <1>4, <1>5, <1>6, <1>7, <1>8, <1>9, <1>10, <1>11,
             <1>12, <1>13, <1>14, <1>15, <1>16, <1>17, <1>18, <1>19, <1>20 DEF
             WNext, WriterStep

\* The published file is whole and on disk.
PublishedInv ==
    final \in Writers =>
        /\ wpc[final] \in {"done", "killed"}
        /\ synced[final] = Len(data[final])
        /\ \A e \in listed[final] \cup {"manifest", "readme", "end"} : Holds(final, e)

\* The published file, action by action.
LEMMA PublishedStep == WTypeOK /\ PartialOwned /\ ContentInv /\ PublishedInv /\ [WNext]_wvars => PublishedInv'
<1> SUFFICES ASSUME WTypeOK, PartialOwned, ContentInv, PublishedInv, [WNext]_wvars PROVE PublishedInv'
  OBVIOUS
<1> USE WriterAssumption DEF WriterAssumption, WTypeOK, PartialOwned, Working,
        ContentInv, PublishedInv, Holds, Stages, FromManifest, FromReadme,
        FromTrailer, FromSynced
<1>1. ASSUME NEW p \in Writers, StatFinal(p) PROVE PublishedInv'
  BY <1>1 DEF StatFinal, Goto
<1>2. ASSUME NEW p \in Writers, OpenPartial(p) PROVE PublishedInv'
  BY <1>2 DEF OpenPartial, Goto
<1>3. ASSUME NEW p \in Writers, OpenFails(p) PROVE PublishedInv'
  BY <1>3 DEF OpenFails, Goto
<1>4. ASSUME NEW p \in Writers, NEW v \in Volumes, BeginAdd(p, v) PROVE PublishedInv'
  BY <1>4 DEF BeginAdd, Goto
<1>5. ASSUME NEW p \in Writers, AppendVolume(p) PROVE PublishedInv'
  BY <1>5 DEF AppendVolume, Goto
<1>6. ASSUME NEW p \in Writers, AddFails(p) PROVE PublishedInv'
  BY <1>6 DEF AddFails, Goto
<1>7. ASSUME NEW p \in Writers, WriteManifest(p) PROVE PublishedInv'
  BY <1>7 DEF WriteManifest, Goto
<1>8. ASSUME NEW p \in Writers, WriteReadme(p) PROVE PublishedInv'
  BY <1>8 DEF WriteReadme, Goto
<1>9. ASSUME NEW p \in Writers, CloseTar(p) PROVE PublishedInv'
  BY <1>9 DEF CloseTar, Goto
<1>10. ASSUME NEW p \in Writers, Sync(p) PROVE PublishedInv'
  BY <1>10 DEF Sync, Goto
<1>11. ASSUME NEW p \in Writers, CloseFile(p) PROVE PublishedInv'
  BY <1>11 DEF CloseFile, Goto
<1>12. ASSUME NEW p \in Writers, Rename(p) PROVE PublishedInv'
  BY <1>12 DEF Rename, Goto
<1>13. ASSUME NEW p \in Writers, FinishFails(p) PROVE PublishedInv'
  BY <1>13 DEF FinishFails, Goto
<1>14. ASSUME NEW p \in Writers, Abort(p) PROVE PublishedInv'
  BY <1>14 DEF Abort, Goto
<1>15. ASSUME NEW p \in Writers, AbortFails(p) PROVE PublishedInv'
  BY <1>15 DEF AbortFails, Goto
<1>16. ASSUME NEW p \in Writers, KillWriter(p) PROVE PublishedInv'
  BY <1>16 DEF KillWriter, Goto
<1>17. ASSUME NEW p \in Writers, OtherRemovesLeftover(p) PROVE PublishedInv'
  BY <1>17 DEF OtherRemovesLeftover
<1>18. ASSUME PowerLoss PROVE PublishedInv'
  <2>1. PICK keep \in [Writers -> 0..MaxBlocks] :
            /\ \A p \in Writers : keep[p] \in synced[p]..Len(data[p])
            /\ data' = [p \in Writers |-> SubSeq(data[p], 1, keep[p])]
    BY <1>18 DEF PowerLoss
  <2>2. SUFFICES ASSUME final \in Writers, final' = final PROVE PublishedInv'
    BY <1>18 DEF PowerLoss
  <2>3. Len(data[final]) \in Nat /\ keep[final] = Len(data[final])
    BY <2>1, <2>2, LenProperties
  <2>4. /\ Len(data'[final]) = Len(data[final])
        /\ \A x : Has(data[final], x) => Has(data'[final], x)
    <3>1. /\ data[final] \in Seq(Blocks) /\ keep[final] \in 0..Len(data[final])
          /\ data'[final] = SubSeq(data[final], 1, keep[final])
      BY <2>1, <2>2, <2>3
    <3> DEFINE s == data[final]
               n == keep[final]
    <3>2. s \in Seq(Blocks) /\ n \in 0..Len(s) /\ n = Len(s)
      BY <2>3, <3>1
    <3> HIDE DEF s, n
    <3>3. Len(SubSeq(s, 1, n)) = Len(s) /\ \A x : Has(s, x) => Has(SubSeq(s, 1, n), x)
      BY <3>2, CutKeeps
    <3>4. QED
      BY <3>1, <3>3 DEF s, n
  <2>5. QED
    BY <1>18, <2>2, <2>4 DEF PowerLoss
<1>19. ASSUME OtherPlacesFinal PROVE PublishedInv'
  BY <1>19 DEF OtherPlacesFinal
<1>20. CASE UNCHANGED wvars
  BY <1>20 DEF wvars
<1>21. QED BY <1>1, <1>2, <1>3, <1>4, <1>5, <1>6, <1>7, <1>8, <1>9, <1>10, <1>11,
             <1>12, <1>13, <1>14, <1>15, <1>16, <1>17, <1>18, <1>19, <1>20 DEF
             WNext, WriterStep

\* An entry that is no manifest keeps the volumes before the manifest.
LEMMA EntryKeepsOrder ==
  ASSUME NEW s \in Seq(Blocks), NEW e \in Entries, e # "manifest", NEW vs,
         VolumesBeforeManifest(s, vs)
  PROVE  VolumesBeforeManifest(WithEntry(s, e), vs)
<1>1. Append(s, Header(e)) \in Seq(Blocks)
  BY EntriesKnown, BlockAdded
<1>2. VolumesBeforeManifest(Append(s, Header(e)), vs)
  BY EntriesKnown, BlockKeepsOrder
<1>3. QED
  BY <1>1, <1>2, EntriesKnown, BlockKeepsOrder DEF WithEntry

\* Without a manifest there is nothing to keep.
LEMMA NoManifestNoOrder ==
  ASSUME NEW s, NEW vs, ~Has(s, Body("manifest"))
  PROVE  VolumesBeforeManifest(s, vs)
  BY DEF Has, VolumesBeforeManifest

\* The order in the files, action by action.
LEMMA OrderStep == WTypeOK /\ ContentInv /\ ManifestAfterVolumes /\ [WNext]_wvars => ManifestAfterVolumes'
<1> SUFFICES ASSUME WTypeOK, ContentInv, ManifestAfterVolumes, [WNext]_wvars PROVE ManifestAfterVolumes'
  OBVIOUS
<1> USE EntriesKnown DEF WTypeOK, ManifestAfterVolumes
<1>1. ASSUME NEW p \in Writers, StatFinal(p) PROVE ManifestAfterVolumes'
  BY <1>1 DEF StatFinal, Goto
<1>2. ASSUME NEW p \in Writers, OpenPartial(p) PROVE ManifestAfterVolumes'
  BY <1>2 DEF OpenPartial, Goto
<1>3. ASSUME NEW p \in Writers, OpenFails(p) PROVE ManifestAfterVolumes'
  BY <1>3 DEF OpenFails, Goto
<1>4. ASSUME NEW p \in Writers, NEW v \in Volumes, BeginAdd(p, v) PROVE ManifestAfterVolumes'
  BY <1>4 DEF BeginAdd, Goto
<1>5. ASSUME NEW p \in Writers, AppendVolume(p) PROVE ManifestAfterVolumes'
  <2>1. ~Has(WithEntry(data[p], adding[p]), Body("manifest"))
    BY <1>5, EntryAdded, WriterAssumption DEF AppendVolume, Goto, ContentInv, Holds, WriterAssumption
  <2>2. \A vs : VolumesBeforeManifest(WithEntry(data[p], adding[p]), vs)
    BY <2>1, NoManifestNoOrder
  <2>3. QED
    BY <1>5, <2>2 DEF AppendVolume, Goto
<1>6. ASSUME NEW p \in Writers, AddFails(p) PROVE ManifestAfterVolumes'
  <2>1. CASE UNCHANGED data
    BY <1>6, <2>1 DEF AddFails, Goto
  <2>2. CASE wpc[p] = "compress" /\ data' = [data EXCEPT ![p] = Append(@, Header(adding[p]))]
    <3>1. VolumesBeforeManifest(Append(data[p], Header(adding[p])), listed[p])
      BY <2>2, BlockKeepsOrder
    <3>2. QED
      BY <1>6, <2>2, <3>1 DEF AddFails, Goto
  <2>3. QED
    BY <1>6, <2>1, <2>2 DEF AddFails
<1>7. ASSUME NEW p \in Writers, WriteManifest(p) PROVE ManifestAfterVolumes'
  <2>1. VolumesBeforeManifest(WithEntry(data[p], "manifest"), listed[p])
    BY <1>7, ManifestKeepsOrder DEF WriteManifest, Goto, ContentInv, Holds
  <2>2. QED
    BY <1>7, <2>1 DEF WriteManifest, Goto
<1>8. ASSUME NEW p \in Writers, WriteReadme(p) PROVE ManifestAfterVolumes'
  BY <1>8, EntryKeepsOrder DEF WriteReadme, Goto
<1>9. ASSUME NEW p \in Writers, CloseTar(p) PROVE ManifestAfterVolumes'
  BY <1>9, BlockKeepsOrder DEF CloseTar, Goto
<1>10. ASSUME NEW p \in Writers, Sync(p) PROVE ManifestAfterVolumes'
  BY <1>10 DEF Sync, Goto
<1>11. ASSUME NEW p \in Writers, CloseFile(p) PROVE ManifestAfterVolumes'
  BY <1>11 DEF CloseFile, Goto
<1>12. ASSUME NEW p \in Writers, Rename(p) PROVE ManifestAfterVolumes'
  BY <1>12 DEF Rename, Goto
<1>13. ASSUME NEW p \in Writers, FinishFails(p) PROVE ManifestAfterVolumes'
  <2>1. CASE UNCHANGED data
    BY <1>13, <2>1 DEF FinishFails, Goto
  <2>2. ASSUME NEW h \in Blocks, h # Body("manifest"),
               data' = [data EXCEPT ![p] = Append(@, h)]
        PROVE  ManifestAfterVolumes'
    <3>1. VolumesBeforeManifest(Append(data[p], h), listed[p])
      BY <2>2, BlockKeepsOrder
    <3>2. QED
      BY <1>13, <2>2, <3>1 DEF FinishFails, Goto
  <2>3. QED
    BY <1>13, <2>1, <2>2, HeadersKnown DEF FinishFails
<1>14. ASSUME NEW p \in Writers, Abort(p) PROVE ManifestAfterVolumes'
  BY <1>14 DEF Abort, Goto
<1>15. ASSUME NEW p \in Writers, AbortFails(p) PROVE ManifestAfterVolumes'
  BY <1>15 DEF AbortFails, Goto
<1>16. ASSUME NEW p \in Writers, KillWriter(p) PROVE ManifestAfterVolumes'
  BY <1>16 DEF KillWriter, Goto
<1>17. ASSUME NEW p \in Writers, OtherRemovesLeftover(p) PROVE ManifestAfterVolumes'
  BY <1>17 DEF OtherRemovesLeftover
<1>18. ASSUME PowerLoss PROVE ManifestAfterVolumes'
  <2>1. PICK keep \in [Writers -> 0..MaxBlocks] :
            /\ \A p \in Writers : keep[p] \in synced[p]..Len(data[p])
            /\ data' = [p \in Writers |-> SubSeq(data[p], 1, keep[p])]
    BY <1>18 DEF PowerLoss
  <2>2. \A p \in Writers : keep[p] \in 0..Len(data[p])
    BY <2>1, LenProperties
  <2>3. \A p \in Writers : VolumesBeforeManifest(data'[p], listed[p])
    BY <2>1, <2>2, CutKeeps
  <2>4. QED
    BY <1>18, <2>3 DEF PowerLoss
<1>19. ASSUME OtherPlacesFinal PROVE ManifestAfterVolumes'
  BY <1>19 DEF OtherPlacesFinal
<1>20. CASE UNCHANGED wvars
  BY <1>20 DEF wvars
<1>21. QED BY <1>1, <1>2, <1>3, <1>4, <1>5, <1>6, <1>7, <1>8, <1>9, <1>10, <1>11,
             <1>12, <1>13, <1>14, <1>15, <1>16, <1>17, <1>18, <1>19, <1>20 DEF
             WNext, WriterStep

-----------------------------------------------------------------------------
WInv ==
    /\ WTypeOK /\ PartialOwned /\ ContentInv /\ PublishedInv
    /\ ManifestAfterVolumes

\* The inductive invariant holds initially.
LEMMA WInvInit == WInit => WInv
<1> SUFFICES ASSUME WInit PROVE WInv
  OBVIOUS
<1>1. WTypeOK
  BY WTypeInit
<1>2. \A p \in Writers : data[p] = << >> /\ DOMAIN data[p] = {} /\ wpc[p] = "idle"
                      /\ listed[p] = {}
  BY EmptySeq DEF WInit
<1>3. \A p \in Writers : ~Holds(p, "manifest") /\ VolumesBeforeManifest(data[p], listed[p])
  BY <1>2 DEF Holds, Has, VolumesBeforeManifest
<1>4. PartialOwned /\ ContentInv /\ ManifestAfterVolumes
  BY <1>2, <1>3 DEF PartialOwned, Working, ContentInv, ManifestAfterVolumes,
         FromManifest, FromReadme, FromTrailer, FromSynced
<1>5. PublishedInv
  BY WriterAssumption DEF WriterAssumption, WInit, PublishedInv
<1>6. QED
  BY <1>1, <1>4, <1>5 DEF WInv

\* The invariant from which every safety property of the writer follows.
THEOREM WInductive == WSpec => []WInv
<1>1. WInv /\ [WNext]_wvars => WInv'
  BY WTypeStep, OwnedStep, ContentStep, PublishedStep, OrderStep DEF WInv
<1>2. QED
  BY WInvInit, <1>1, PTL DEF WSpec

\* What a writer has published is whole, whatever crash follows.
THEOREM PublishedWhole == WSpec => []FinalComplete
<1>1. WInv => FinalComplete
  BY DEF WInv, PublishedInv, Holds, FinalComplete
<1>2. QED
  BY WInductive, <1>1, PTL

\* However a file is cut, a manifest in it comes after the volumes it lists.
THEOREM ManifestIsLast == WSpec => []ManifestAfterVolumes
<1>1. WInv => ManifestAfterVolumes
  BY DEF WInv
<1>2. QED
  BY WInductive, <1>1, PTL

\* A run that ended leaves nothing behind, and one that failed published nothing.
THEOREM CleanEnd == WSpec => []NothingLeftBehind
<1>1. WInv => NothingLeftBehind
  BY DEF WInv, WTypeOK, PublishedInv, NothingLeftBehind
<1>2. QED
  BY WInductive, <1>1, PTL
=============================================================================
