--------------------------- MODULE BlobWriterProofs ---------------------------
(***************************************************************************)
(* Proofs about BlobWriter, for blobs of every size and any number of them. *)
(* The safety invariants follow from IInv: the entries occupy disjoint,     *)
(* increasing ranges below offset (Layout), and what is on disk is exactly  *)
(* the sections of the entries Close has gone through (OnDisk).             *)
(***************************************************************************)
EXTENDS BlobWriter, TLAPS

End(e) == e.dataOffset + Size[e.data]

(* The room reserved for entries: aligned, below offset, one after another.  *)
Layout ==
  /\ DefaultAlignment <= offset /\ offset % DefaultAlignment = 0
  /\ \A i \in 1..Len(entries) :
       /\ DefaultAlignment <= entries[i].metadataOffset
       /\ entries[i].metadataOffset % DefaultAlignment = 0
       /\ entries[i].dataOffset = entries[i].metadataOffset + DefaultAlignment
       /\ End(entries[i]) <= offset
  /\ \A i, j \in 1..Len(entries) : i < j => End(entries[i]) <= entries[j].metadataOffset

(* Close has written the metadata of the first MetasDone entries.            *)
MetasDone == IF pc = "data" THEN next ELSE next - 1

OnDisk ==
  /\ MetasDone <= Len(entries)
  /\ metas = {Metadata(entries[i]) : i \in 1..MetasDone}
  /\ datas = {Data(entries[i]) : i \in 1..next - 1}
  /\ pc = "open" => next = 1
  /\ pc \in {"metadata", "data"} => header = Len(entries) /\ next <= Len(entries)
  /\ pc = "closing" => header = Len(entries) /\ next = header + 1
  /\ pc = "saved" => header \in Nat /\ next = header + 1

(* After a failure nothing is known of what was written.                     *)
OnDiskUnlessFailed ==
  IF pc = "failed"
  THEN /\ metas \subseteq {Metadata(entries[i]) : i \in 1..Len(entries)}
       /\ datas \subseteq {Data(entries[i]) : i \in 1..Len(entries)}
  ELSE OnDisk

IInv == TypeOK /\ Layout /\ OnDiskUnlessFailed

-----------------------------------------------------------------------------
(* alignTo answers the next multiple of 64.                                  *)
LEMMA AlignTo ==
  ASSUME NEW x \in Nat
  PROVE  LET y == alignTo(x, DefaultAlignment) IN
         y \in Nat /\ x <= y /\ y < x + DefaultAlignment /\ y % DefaultAlignment = 0
BY DEF alignTo, DefaultAlignment

(* ... and leaves a multiple of 64 as it is.                                  *)
LEMMA AlignToMultiple ==
  ASSUME NEW x \in Nat, x % DefaultAlignment = 0
  PROVE  alignTo(x + DefaultAlignment, DefaultAlignment) = x + DefaultAlignment
BY DEF alignTo, DefaultAlignment

(* The initial state satisfies the inductive invariant.                      *)
LEMMA InitIInv == Init => IInv
BY DEF Init, IInv, TypeOK, Layout, OnDiskUnlessFailed, OnDisk, MetasDone, DefaultAlignment,
       NoHeader, End

(* AddBlob keeps the layout and does not move what is already laid out.      *)
LEMMA AddBlobIInv ==
  ASSUME IInv, NEW b \in Blobs, AddBlob(b)
  PROVE  IInv'
<1> DEFINE e == [metadataOffset |-> offset, dataOffset |-> offset + DefaultAlignment,
                 data |-> b]
<1>1. Size[b] \in Nat /\ offset \in Nat /\ offset % DefaultAlignment = 0
  BY SizeAssumption DEF IInv, TypeOK, Layout
<1>2. alignTo(offset + DefaultAlignment, DefaultAlignment) = offset + DefaultAlignment
  BY <1>1, AlignToMultiple
<1>3. /\ entries' = Append(entries, e)
      /\ offset' = alignTo(offset + DefaultAlignment + Size[b], DefaultAlignment)
      /\ UNCHANGED <<pc, next, header, metas, datas>>
      /\ pc \in {"open", "saved", "failed"}
  BY <1>2 DEF AddBlob
<1>4. /\ offset' \in Nat /\ offset' % DefaultAlignment = 0
      /\ offset + DefaultAlignment + Size[b] <= offset'
  <2>1. offset + DefaultAlignment + Size[b] \in Nat
    BY <1>1 DEF DefaultAlignment
  <2> QED BY <2>1, <1>3, AlignTo
<1>5. /\ entries \in Seq(Entries) /\ e \in Entries
      /\ Len(entries) \in Nat /\ Len(entries') = Len(entries) + 1
      /\ entries'[Len(entries) + 1] = e
      /\ \A i \in 1..Len(entries) : entries'[i] = entries[i]
  BY <1>1, <1>3 DEF IInv, TypeOK, Entries, DefaultAlignment
<1>6. TypeOK'
  <2>1. entries' \in Seq(Entries)
    BY <1>3, <1>5
  <2> QED BY <2>1, <1>3, <1>4 DEF IInv, TypeOK
<1>7. Layout'
  <2>1. \A i \in 1..Len(entries) : End(entries[i]) \in Nat /\ entries[i].metadataOffset \in Nat
    <3> TAKE i \in 1..Len(entries)
    <3>1. entries[i] \in Entries
      BY <1>5
    <3>2. entries[i].dataOffset \in Nat /\ entries[i].data \in Blobs
          /\ entries[i].metadataOffset \in Nat
      BY <3>1 DEF Entries
    <3> QED BY <3>2, SizeAssumption DEF End
  <2>2. End(e) = offset + DefaultAlignment + Size[b] /\ e.metadataOffset = offset
    BY DEF End
  <2>3. DefaultAlignment <= offset
    BY DEF IInv, Layout
  <2>4. ASSUME NEW i \in 1..Len(entries')
        PROVE  /\ DefaultAlignment <= entries'[i].metadataOffset
               /\ entries'[i].metadataOffset % DefaultAlignment = 0
               /\ entries'[i].dataOffset = entries'[i].metadataOffset + DefaultAlignment
               /\ End(entries'[i]) <= offset'
    <3>1. CASE i \in 1..Len(entries)
      BY SMTT(30), <3>1, <1>1, <1>4, <1>5, <2>1, SizeAssumption
      DEF IInv, Layout, DefaultAlignment
    <3>2. CASE i = Len(entries) + 1
      BY <3>2, <1>1, <1>4, <1>5, <2>2, <2>3 DEF DefaultAlignment
    <3> QED BY <3>1, <3>2, <1>5
  <2>5. ASSUME NEW i \in 1..Len(entries'), NEW j \in 1..Len(entries'), i < j
        PROVE  End(entries'[i]) <= entries'[j].metadataOffset
    <3>1. i \in 1..Len(entries)
      BY <2>5, <1>5
    <3>2. CASE j \in 1..Len(entries)
      BY <3>1, <3>2, <2>5, <1>5 DEF IInv, Layout
    <3>3. CASE j = Len(entries) + 1
      BY <3>1, <3>3, <1>5, <2>2 DEF IInv, Layout
    <3> QED BY <3>2, <3>3, <1>5
  <2>6. DefaultAlignment <= offset'
    BY <1>1, <1>4, <2>3 DEF DefaultAlignment
  <2> QED BY <1>4, <2>4, <2>5, <2>6 DEF Layout, End
<1>8. OnDiskUnlessFailed'
  <2>1. \A i \in 1..Len(entries) : /\ Metadata(entries'[i]) = Metadata(entries[i])
                                   /\ Data(entries'[i]) = Data(entries[i])
    BY <1>5
  <2>2. CASE pc = "failed"
    <3>1. 1..Len(entries) \subseteq 1..Len(entries')
      BY <1>5
    <3>2. /\ metas \subseteq {Metadata(entries[i]) : i \in 1..Len(entries)}
          /\ datas \subseteq {Data(entries[i]) : i \in 1..Len(entries)}
      BY <2>2 DEF IInv, OnDiskUnlessFailed
    <3>3. /\ metas \subseteq {Metadata(entries'[i]) : i \in 1..Len(entries')}
          /\ datas \subseteq {Data(entries'[i]) : i \in 1..Len(entries')}
      BY <3>1, <3>2, <2>1
    <3> QED BY <3>3, <2>2, <1>3 DEF OnDiskUnlessFailed, Metadata, Data
  <2>3. CASE pc # "failed"
    <3>1. OnDisk
      BY <2>3 DEF IInv, OnDiskUnlessFailed
    <3>2. next \in Nat /\ MetasDone = next - 1 /\ MetasDone' = next - 1
      BY <1>3 DEF IInv, TypeOK, MetasDone
    <3>3. 1..next - 1 \subseteq 1..Len(entries) /\ next - 1 <= Len(entries')
      BY <3>1, <3>2, <1>5 DEF OnDisk
    <3>4. {Metadata(entries'[i]) : i \in 1..next - 1} = metas
      BY <3>1, <3>2, <3>3, <2>1 DEF OnDisk
    <3>5. {Data(entries'[i]) : i \in 1..next - 1} = datas
      BY <3>1, <3>2, <3>3, <2>1 DEF OnDisk
    <3>6. OnDisk'
      BY <3>1, <3>2, <3>3, <3>4, <3>5, <1>3 DEF OnDisk, Metadata, Data
    <3> QED BY <3>6, <2>3, <1>3 DEF OnDiskUnlessFailed
  <2> QED BY <2>2, <2>3
<1> QED BY <1>6, <1>7, <1>8 DEF IInv

(* The write of the header keeps the invariant.                              *)
LEMMA WriteHeaderIInv ==
  ASSUME IInv, WriteHeader
  PROVE  IInv'
<1>1. /\ pc = "open" /\ header' = Len(entries)
      /\ pc' = IF entries = <<>> THEN "closing" ELSE "metadata"
      /\ UNCHANGED <<offset, entries, next, metas, datas>>
  BY DEF WriteHeader
<1>2. next = 1 /\ Len(entries) \in Nat /\ (entries # <<>> => Len(entries) >= 1)
  BY <1>1 DEF IInv, TypeOK, OnDiskUnlessFailed, OnDisk
<1>3. MetasDone = 0 /\ MetasDone' = 0
  BY <1>1, <1>2 DEF MetasDone
<1>4. TypeOK'
  BY <1>1, <1>2 DEF IInv, TypeOK
<1>5. Layout'
  BY <1>1 DEF IInv, Layout, End
<1>6. OnDisk'
  BY <1>1, <1>2, <1>3 DEF IInv, OnDiskUnlessFailed, OnDisk, Metadata, Data
<1> QED BY <1>1, <1>4, <1>5, <1>6 DEF IInv, OnDiskUnlessFailed

(* One more entry in a set built from the first entries.                     *)
LEMMA OneMore ==
  ASSUME NEW n \in Nat
  PROVE  1..n + 1 = 1..n \union {n + 1}
OBVIOUS

(* The write of one entry's metadata keeps the invariant.                    *)
LEMMA WriteMetadataIInv ==
  ASSUME IInv, WriteMetadata
  PROVE  IInv'
<1>1. /\ pc = "metadata" /\ pc' = "data"
      /\ metas' = metas \union {Metadata(entries[next])}
      /\ UNCHANGED <<offset, entries, next, header, datas>>
  BY DEF WriteMetadata
<1>2. OnDisk
  BY <1>1 DEF IInv, OnDiskUnlessFailed
<1>3. next \in Nat \ {0} /\ next <= Len(entries) /\ Len(entries) \in Nat
      /\ MetasDone = next - 1 /\ MetasDone' = next
  BY <1>1, <1>2 DEF IInv, TypeOK, OnDisk, MetasDone
<1>4. metas' = {Metadata(entries[i]) : i \in 1..next}
  <2>1. 1..next = (1..next - 1) \union {next}
    BY <1>3
  <2> QED BY <2>1, <1>1, <1>2, <1>3 DEF OnDisk
<1>5. TypeOK'
  <2>1. entries[next] \in Entries
    BY <1>3 DEF IInv, TypeOK
  <2>2. Metadata(entries[next]) \in [at : Nat, offset : Nat, size : Nat]
    BY <2>1, SizeAssumption DEF Metadata, Entries
  <2> QED BY <2>2, <1>1 DEF IInv, TypeOK
<1>6. Layout'
  BY <1>1 DEF IInv, Layout, End
<1>7. OnDisk'
  BY <1>1, <1>2, <1>3, <1>4 DEF OnDisk, Metadata, Data
<1> QED BY <1>1, <1>5, <1>6, <1>7 DEF IInv, OnDiskUnlessFailed

(* The write of one entry's data keeps the invariant.                        *)
LEMMA WriteDataIInv ==
  ASSUME IInv, WriteData
  PROVE  IInv'
<1>1. /\ pc = "data"
      /\ datas' = datas \union {Data(entries[next])}
      /\ next' = next + 1
      /\ pc' = IF next = Len(entries) THEN "closing" ELSE "metadata"
      /\ UNCHANGED <<offset, entries, header, metas>>
  BY DEF WriteData
<1>2. OnDisk
  BY <1>1 DEF IInv, OnDiskUnlessFailed
<1>3. next \in Nat \ {0} /\ next <= Len(entries) /\ Len(entries) \in Nat
      /\ MetasDone = next /\ MetasDone' = next /\ header = Len(entries)
  BY <1>1, <1>2 DEF IInv, TypeOK, OnDisk, MetasDone
<1>4. datas' = {Data(entries[i]) : i \in 1..next}
  <2>1. 1..next = (1..next - 1) \union {next}
    BY <1>3
  <2> QED BY <2>1, <1>1, <1>2, <1>3 DEF OnDisk
<1>5. TypeOK'
  <2>1. entries[next] \in Entries
    BY <1>3 DEF IInv, TypeOK
  <2>2. Data(entries[next]) \in [at : Nat, data : Blobs]
    BY <2>1 DEF Data, Entries
  <2> QED BY <2>2, <1>1, <1>3 DEF IInv, TypeOK
<1>6. Layout'
  BY <1>1 DEF IInv, Layout, End
<1>7. OnDisk'
  BY <1>1, <1>2, <1>3, <1>4 DEF OnDisk, Metadata, Data
<1> QED BY <1>1, <1>5, <1>6, <1>7 DEF IInv, OnDiskUnlessFailed

(* Closing the file changes nothing on disk.                                 *)
LEMMA CloseFileIInv ==
  ASSUME IInv, CloseFile
  PROVE  IInv'
<1>1. /\ pc = "closing" /\ pc' = "saved"
      /\ UNCHANGED <<offset, entries, next, header, metas, datas>>
  BY DEF CloseFile
<1>2. OnDisk /\ Len(entries) \in Nat
  BY <1>1 DEF IInv, TypeOK, OnDiskUnlessFailed
<1>3. MetasDone' = MetasDone
  BY <1>1 DEF MetasDone
<1>4. TypeOK' /\ Layout'
  BY <1>1 DEF IInv, TypeOK, Layout, End
<1>5. OnDisk'
  BY <1>1, <1>2, <1>3 DEF OnDisk, Metadata, Data
<1> QED BY <1>1, <1>4, <1>5 DEF IInv, OnDiskUnlessFailed

(* A failure leaves a part of the sections on disk.                          *)
LEMMA FailIInv ==
  ASSUME IInv, Fail
  PROVE  IInv'
<1>1. /\ pc # "failed" /\ pc' = "failed"
      /\ UNCHANGED <<offset, entries, next, header, metas, datas>>
  BY DEF Fail
<1>2. OnDisk /\ Len(entries) \in Nat /\ next \in Nat \ {0}
  BY <1>1 DEF IInv, TypeOK, OnDiskUnlessFailed
<1>3. 1..MetasDone \subseteq 1..Len(entries) /\ 1..next - 1 \subseteq 1..Len(entries)
  BY <1>2 DEF OnDisk, MetasDone
<1>4. /\ metas \subseteq {Metadata(entries[i]) : i \in 1..Len(entries)}
      /\ datas \subseteq {Data(entries[i]) : i \in 1..Len(entries)}
  BY <1>2, <1>3 DEF OnDisk
<1>5. TypeOK' /\ Layout'
  BY <1>1 DEF IInv, TypeOK, Layout, End
<1> QED BY <1>1, <1>4, <1>5 DEF IInv, OnDiskUnlessFailed, Metadata, Data

(* IInv is inductive.                                                        *)
THEOREM IInvHolds == Spec => []IInv
<1>1. IInv /\ [Next]_vars => IInv'
  <2> SUFFICES ASSUME IInv, [Next]_vars PROVE IInv'
    OBVIOUS
  <2>1. ASSUME NEW b \in Blobs, AddBlob(b) PROVE IInv'
    BY <2>1, AddBlobIInv
  <2>2. CASE WriteHeader
    BY <2>2, WriteHeaderIInv
  <2>3. CASE WriteMetadata
    BY <2>3, WriteMetadataIInv
  <2>4. CASE WriteData
    BY <2>4, WriteDataIInv
  <2>5. CASE CloseFile
    BY <2>5, CloseFileIInv
  <2>6. CASE Fail
    BY <2>6, FailIInv
  <2>7. CASE UNCHANGED vars
    BY <2>7 DEF vars, IInv, TypeOK, Layout, End, OnDiskUnlessFailed, OnDisk, MetasDone,
            Metadata, Data
  <2> QED BY <2>1, <2>2, <2>3, <2>4, <2>5, <2>6, <2>7 DEF Next
<1> QED BY <1>1, InitIInv, PTL DEF Spec

-----------------------------------------------------------------------------
(* What is on disk belongs to entries, whatever happened.                    *)
LEMMA SectionsOfEntries ==
  ASSUME IInv
  PROVE  /\ Len(entries) \in Nat
         /\ metas \subseteq {Metadata(entries[i]) : i \in 1..Len(entries)}
         /\ datas \subseteq {Data(entries[i]) : i \in 1..Len(entries)}
<1>1. CASE pc = "failed"
  BY <1>1 DEF IInv, TypeOK, OnDiskUnlessFailed
<1>2. CASE pc # "failed"
  <2>1. OnDisk /\ Len(entries) \in Nat /\ next \in Nat \ {0}
    BY <1>2 DEF IInv, TypeOK, OnDiskUnlessFailed
  <2>2. 1..MetasDone \subseteq 1..Len(entries) /\ 1..next - 1 \subseteq 1..Len(entries)
    BY <2>1 DEF OnDisk, MetasDone
  <2> QED BY <2>1, <2>2 DEF OnDisk
<1> QED BY <1>1, <1>2

(* An entry's fields, with what Layout says of them.                         *)
LEMMA EntryLayout ==
  ASSUME IInv, NEW i \in 1..Len(entries)
  PROVE  /\ entries[i].metadataOffset \in Nat /\ entries[i].data \in Blobs
         /\ Size[entries[i].data] \in Nat
         /\ DefaultAlignment <= entries[i].metadataOffset
         /\ entries[i].metadataOffset % DefaultAlignment = 0
         /\ entries[i].dataOffset = entries[i].metadataOffset + DefaultAlignment
         /\ End(entries[i]) <= offset
<1>1. entries[i] \in Entries
  BY DEF IInv, TypeOK
<1>2. entries[i].metadataOffset \in Nat /\ entries[i].data \in Blobs
  BY <1>1 DEF Entries
<1> QED BY <1>2, SizeAssumption DEF IInv, Layout

(* Everything laid out for entry i ends before everything laid out for j > i. *)
LEMMA EntriesApart ==
  ASSUME IInv, NEW i \in 1..Len(entries), NEW j \in 1..Len(entries), i < j
  PROVE  entries[i].dataOffset + Size[entries[i].data] <= entries[j].metadataOffset
BY DEF IInv, Layout, End

(* SectionsApart, the part about two entries i and j or an entry and itself.  *)
LEMMA PairApart ==
  ASSUME IInv, NEW i \in 1..Len(entries), NEW j \in 1..Len(entries)
  PROVE  LET m == Metadata(entries[i])  n == Metadata(entries[j])
             d == Data(entries[i])      e == Data(entries[j])
         IN  /\ i # j => Apart(m.at, m.at + MetadataSize, n.at, n.at + MetadataSize)
             /\ i # j => Apart(d.at, d.at + Size[d.data], e.at, e.at + Size[e.data])
             /\ Apart(m.at, m.at + MetadataSize, e.at, e.at + Size[e.data])
<1> DEFINE mi == entries[i].metadataOffset
           mj == entries[j].metadataOffset
           di == entries[i].dataOffset
           dj == entries[j].dataOffset
           si == Size[entries[i].data]
           sj == Size[entries[j].data]
<1>1. mi \in Nat /\ si \in Nat /\ di = mi + 64
  BY EntryLayout DEF DefaultAlignment
<1>2. mj \in Nat /\ sj \in Nat /\ dj = mj + 64
  BY EntryLayout DEF DefaultAlignment
<1>3. i < j \/ j < i \/ i = j
  BY DEF IInv, TypeOK
<1>4. i < j => di + si <= mj
  BY EntriesApart
<1>5. j < i => dj + sj <= mi
  BY EntriesApart
<1>6. i = j => mi = mj
  OBVIOUS
<1> HIDE DEF mi, mj, di, dj, si, sj
<1>7. /\ i # j => Apart(mi, mi + 64, mj, mj + 64)
      /\ i # j => Apart(di, di + si, dj, dj + sj)
      /\ Apart(mi, mi + 64, dj, dj + sj)
  BY <1>1, <1>2, <1>3, <1>4, <1>5, <1>6 DEF Apart
<1> QED BY <1>7 DEF Metadata, Data, MetadataSize, mi, mj, di, dj, si, sj

(* No write of the file destroys a byte of another one.                      *)
LEMMA IInvApart ==
  ASSUME IInv
  PROVE  SectionsApart
<1>1. ASSUME NEW m \in metas
      PROVE  \E i \in 1..Len(entries) : m = Metadata(entries[i])
  BY SectionsOfEntries
<1>2. ASSUME NEW d \in datas
      PROVE  \E i \in 1..Len(entries) : d = Data(entries[i])
  BY SectionsOfEntries
<1>3. ASSUME NEW m \in metas PROVE HeaderSize <= m.at
  <2>1. PICK i \in 1..Len(entries) : m = Metadata(entries[i])
    BY <1>1
  <2> QED BY <2>1, EntryLayout DEF Metadata, HeaderSize, DefaultAlignment
<1>4. ASSUME NEW d \in datas PROVE HeaderSize <= d.at
  <2>1. PICK i \in 1..Len(entries) : d = Data(entries[i])
    BY <1>2
  <2> QED BY <2>1, EntryLayout DEF Data, HeaderSize, DefaultAlignment
<1>5. ASSUME NEW m \in metas, NEW n \in metas, m # n
      PROVE  Apart(m.at, m.at + MetadataSize, n.at, n.at + MetadataSize)
  <2>1. PICK i \in 1..Len(entries) : m = Metadata(entries[i])
    BY <1>1
  <2>2. PICK j \in 1..Len(entries) : n = Metadata(entries[j])
    BY <1>1
  <2> QED BY <1>5, <2>1, <2>2, PairApart
<1>6. ASSUME NEW m \in metas, NEW d \in datas
      PROVE  Apart(m.at, m.at + MetadataSize, d.at, d.at + Size[d.data])
  <2>1. PICK i \in 1..Len(entries) : m = Metadata(entries[i])
    BY <1>1
  <2>2. PICK j \in 1..Len(entries) : d = Data(entries[j])
    BY <1>2
  <2> QED BY <2>1, <2>2, PairApart
<1>7. ASSUME NEW d \in datas, NEW e \in datas, d # e
      PROVE  Apart(d.at, d.at + Size[d.data], e.at, e.at + Size[e.data])
  <2>1. PICK i \in 1..Len(entries) : d = Data(entries[i])
    BY <1>2
  <2>2. PICK j \in 1..Len(entries) : e = Data(entries[j])
    BY <1>2
  <2> QED BY <1>7, <2>1, <2>2, PairApart
<1> QED BY <1>3, <1>4, <1>5, <1>6, <1>7 DEF SectionsApart

(* Every section starts at a multiple of 64.                                 *)
LEMMA IInvAligned ==
  ASSUME IInv
  PROVE  SectionsAligned
<1>1. ASSUME NEW m \in metas PROVE m.at % DefaultAlignment = 0
  <2>1. PICK i \in 1..Len(entries) : m = Metadata(entries[i])
    BY SectionsOfEntries
  <2> QED BY <2>1, EntryLayout DEF Metadata
<1>2. ASSUME NEW d \in datas PROVE d.at % DefaultAlignment = 0
  <2>1. PICK i \in 1..Len(entries) : d = Data(entries[i])
    BY SectionsOfEntries
  <2> QED BY <2>1, EntryLayout DEF Data, DefaultAlignment
<1> QED BY <1>1, <1>2 DEF SectionsAligned

(* The entries Close has gone through can be read back.                      *)
LEMMA WrittenReadsBack ==
  ASSUME IInv, pc # "failed", NEW k \in 1..next - 1
  PROVE  ReadsBack(entries[k].metadataOffset, entries[k].data)
<1>1. OnDisk /\ next \in Nat /\ k \in 1..MetasDone
  BY DEF IInv, TypeOK, OnDiskUnlessFailed, MetasDone
<1>2. Metadata(entries[k]) \in metas /\ Data(entries[k]) \in datas
  BY <1>1 DEF OnDisk
<1> QED BY <1>2 DEF ReadsBack, Metadata, Data

(* A successful Close has written every entry of its header.                 *)
LEMMA IInvComplete ==
  ASSUME IInv
  PROVE  SavedFileComplete
<1> SUFFICES ASSUME pc = "saved"
             PROVE  /\ header \in 0..Len(entries)
                    /\ \A k \in 1..header :
                         ReadsBack(entries[k].metadataOffset, entries[k].data)
  BY DEF SavedFileComplete
<1>1. OnDisk /\ header \in Nat /\ next = header + 1 /\ Len(entries) \in Nat
  BY DEF IInv, TypeOK, OnDiskUnlessFailed, OnDisk
<1>2. header <= Len(entries)
  BY <1>1 DEF OnDisk, MetasDone
<1> QED BY <1>1, <1>2, WrittenReadsBack

(* The writer's fields keep their types.                                     *)
THEOREM TypeCorrect == Spec => []TypeOK
<1>1. IInv => TypeOK
  BY DEF IInv
<1> QED BY <1>1, IInvHolds, PTL

(* blob.Writer.Close: no section overwrites another one.                     *)
THEOREM NoSectionOverwritten == Spec => []SectionsApart
BY IInvApart, IInvHolds, PTL

(* blob.Writer: metadata and data sections start at multiples of 64 bytes.   *)
THEOREM EverySectionAligned == Spec => []SectionsAligned
BY IInvAligned, IInvHolds, PTL

(* blob.Writer.Close: success means that every counted entry is readable.    *)
THEOREM CloseIsComplete == Spec => []SavedFileComplete
BY IInvComplete, IInvHolds, PTL

-----------------------------------------------------------------------------
(* No metadata has been written at offset yet.                               *)
LEMMA OffsetUnused ==
  ASSUME IInv, NEW b \in Blobs
  PROVE  ~ReadsBack(offset, b) /\ \A p \in Promised : p[1] # offset
<1>1. offset \in Nat
  BY DEF IInv, TypeOK
<1>2. ASSUME NEW i \in 1..Len(entries) PROVE entries[i].metadataOffset # offset
  BY <1>1, EntryLayout DEF End, DefaultAlignment
<1>3. ASSUME NEW m \in metas PROVE m.at # offset
  <2>1. PICK i \in 1..Len(entries) : m = Metadata(entries[i])
    BY SectionsOfEntries
  <2> QED BY <2>1, <1>2 DEF Metadata
<1>4. ~ReadsBack(offset, b)
  BY <1>3 DEF ReadsBack
<1>5. \A p \in Promised : p[1] # offset
  BY <1>2 DEF Promised
<1> QED BY <1>4, <1>5

(* AddBlob is one Promise.                                                   *)
LEMMA AddBlobPromises ==
  ASSUME IInv, NEW b \in Blobs, AddBlob(b)
  PROVE  Store!Promise(b)
<1> DEFINE p == <<offset, b>>
<1>1. /\ entries' = Append(entries, [metadataOffset |-> offset,
              dataOffset |-> alignTo(offset + DefaultAlignment, DefaultAlignment),
              data |-> b])
      /\ UNCHANGED <<pc, metas, datas>>
  BY DEF AddBlob
<1>2. /\ Len(entries) \in Nat /\ Len(entries') = Len(entries) + 1
      /\ entries'[Len(entries) + 1].metadataOffset = offset
      /\ entries'[Len(entries) + 1].data = b
      /\ \A i \in 1..Len(entries) : entries'[i] = entries[i]
  BY <1>1 DEF IInv, TypeOK
<1>3. Promised' = Promised \union {p}
  <2>1. 1..Len(entries') = (1..Len(entries)) \union {Len(entries) + 1}
    BY <1>2
  <2>2. Promised' = {<<entries'[k].metadataOffset, entries'[k].data>> : k \in 1..Len(entries')}
    BY DEF Promised
  <2> QED BY <2>1, <2>2, <1>2 DEF Promised
<1>4. p[1] = offset /\ p[2] = b
  OBVIOUS
<1>5. \A q \in Promised : q[1] # p[1]
  BY <1>4, OffsetUnused
<1>6. Readable' = Readable
  <2>1. ASSUME NEW q PROVE ReadsBack(q[1], q[2])' <=> ReadsBack(q[1], q[2])
    BY <1>1 DEF ReadsBack
  <2>2. ~ReadsBack(p[1], p[2])
    BY <1>4, OffsetUnused
  <2>3. {q \in Promised' : ReadsBack(q[1], q[2])'} = {q \in Promised : ReadsBack(q[1], q[2])}
    BY <2>1, <2>2, <1>3
  <2> QED BY <2>3, <1>1 DEF Readable
<1>7. Status' = Status
  BY <1>1 DEF Status
<1> QED BY <1>3, <1>4, <1>5, <1>6, <1>7 DEF Store!Promise

(* A step of Close that is not its last one is invisible to the caller.      *)
LEMMA CloseStepInvisible ==
  ASSUME pc \in {"open", "metadata", "data"}, UNCHANGED entries,
         pc' \in {"metadata", "data", "closing"}
  PROVE  UNCHANGED <<Promised, Readable, Status>>
BY DEF Promised, Readable, Status

(* The last step of Close makes readable all that was promised.              *)
LEMMA CloseFileSaves ==
  ASSUME IInv, CloseFile
  PROVE  Store!Save
<1>1. pc = "closing" /\ pc' = "saved" /\ UNCHANGED <<entries, metas, datas>>
  BY DEF CloseFile
<1>2. Len(entries) = next - 1
  BY <1>1 DEF IInv, TypeOK, OnDiskUnlessFailed, OnDisk
<1>3. \A k \in 1..Len(entries) : ReadsBack(entries[k].metadataOffset, entries[k].data)
  BY <1>1, <1>2, WrittenReadsBack
<1>4. \A p \in Promised : ReadsBack(p[1], p[2])
  BY <1>3 DEF Promised
<1>5. Promised' = Promised
  BY <1>1 DEF Promised
<1>6. \A p : ReadsBack(p[1], p[2])' <=> ReadsBack(p[1], p[2])
  BY <1>1 DEF ReadsBack
<1>7. Readable' = Promised
  BY <1>1, <1>4, <1>5, <1>6 DEF Readable
<1>8. Status = "writing" /\ Status' = "saved"
  BY <1>1 DEF Status
<1> QED BY <1>5, <1>7, <1>8 DEF Store!Save

(* A failing step of Close abandons the file.                                *)
LEMMA FailAbandons ==
  ASSUME Fail
  PROVE  Store!Abandon
<1>1. pc \in {"open", "metadata", "data", "closing"} /\ pc' = "failed" /\ UNCHANGED entries
  BY DEF Fail
<1>2. Status = "writing" /\ Status' = "failed"
  BY <1>1 DEF Status
<1>3. UNCHANGED <<Promised, Readable>>
  BY <1>1 DEF Promised, Readable
<1> QED BY <1>2, <1>3 DEF Store!Abandon

(* blob.Writer implements BlobStore: offsets are never shared, and a Close    *)
(* without error makes readable exactly what AddBlob had promised.           *)
THEOREM WriterKeepsPromise == Spec => KeepsPromise
<1>1. Init => Store!StoreInit
  BY DEF Init, Store!StoreInit, Promised, Readable, Status
<1>2. IInv /\ [Next]_vars => [Store!StoreNext]_(Store!storeVars)
  <2> SUFFICES ASSUME IInv, [Next]_vars
               PROVE  Store!StoreNext \/ UNCHANGED <<Promised, Readable, Status>>
    BY DEF Store!storeVars
  <2>1. ASSUME NEW b \in Blobs, AddBlob(b) PROVE Store!StoreNext
    BY <2>1, AddBlobPromises DEF Store!StoreNext
  <2>2. CASE WriteHeader
    BY <2>2, CloseStepInvisible DEF WriteHeader
  <2>3. CASE WriteMetadata
    BY <2>3, CloseStepInvisible DEF WriteMetadata
  <2>4. CASE WriteData
    BY <2>4, CloseStepInvisible DEF WriteData
  <2>5. CASE CloseFile
    BY <2>5, CloseFileSaves DEF Store!StoreNext
  <2>6. CASE Fail
    BY <2>6, FailAbandons DEF Store!StoreNext
  <2>7. CASE UNCHANGED vars
    <3>1. UNCHANGED <<pc, entries, metas, datas>>
      BY <2>7 DEF vars
    <3>2. \A p : ReadsBack(p[1], p[2])' <=> ReadsBack(p[1], p[2])
      BY <3>1 DEF ReadsBack
    <3> QED BY <3>1, <3>2 DEF Promised, Readable, Status
  <2> QED BY <2>1, <2>2, <2>3, <2>4, <2>5, <2>6, <2>7 DEF Next
<1> QED BY <1>1, <1>2, IInvHolds, PTL DEF Spec, KeepsPromise, Store!StoreSpec

=============================================================================
