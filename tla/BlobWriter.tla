------------------------------ MODULE BlobWriter ------------------------------
(***************************************************************************)
(* blob.Writer: the layout of a weight.bin file.  AddBlob only reserves     *)
(* room and answers with the offset of the blob's metadata; Close writes    *)
(* the header, then metadata and data of every entry, each write at its own *)
(* position, and any of them may fail.  Sections of the file are byte       *)
(* ranges [from, to).                                                       *)
(*                                                                          *)
(* Left out: the magic number, the version and the padding field.           *)
(* Offsets are uint64 in the code and the blobs are in memory: their sum    *)
(* cannot overflow.                                                         *)
(***************************************************************************)
EXTENDS Integers, Sequences

CONSTANTS
  Blobs,     \* the byte slices the caller adds
  Size,      \* their lengths
  MaxBlobs   \* bound: calls of AddBlob

ASSUME SizeAssumption == Size \in [Blobs -> Nat] /\ MaxBlobs \in Nat

VARIABLES
  offset,    \* Writer.offset: where the next entry goes
  entries,   \* Writer.entries
  pc,        \* "open"; in Close: "metadata", "data", "closing"; "saved", "failed"
  next,      \* the entry Close writes next
  header,    \* the count in the header on disk, NoHeader before it is written
  metas,     \* metadata sections on disk
  datas      \* data sections on disk

vars == <<offset, entries, pc, next, header, metas, datas>>

NoHeader == -1
DefaultAlignment == 64
HeaderSize == 56     \* StorageHeader: 4 + 4 + 48 bytes
MetadataSize == 64   \* BlobMetadata: 4 + 4 + 8 + 8 + 8 + 32 bytes

alignToDown(x, alignment) == x - (x % alignment)
alignToNone(x, alignment) == x
alignTo(x, alignment) ==
  IF x % alignment = 0 THEN x ELSE x + (alignment - (x % alignment))

Metadata(e) == [at |-> e.metadataOffset, offset |-> e.dataOffset, size |-> Size[e.data]]
Data(e) == [at |-> e.dataOffset, data |-> e.data]

InitFromZero ==
  /\ offset = DefaultAlignment /\ entries = <<>>
  /\ pc = "open" /\ next = 0
  /\ header = NoHeader /\ metas = {} /\ datas = {}
Init ==
  /\ offset = DefaultAlignment /\ entries = <<>>
  /\ pc = "open" /\ next = 1
  /\ header = NoHeader /\ metas = {} /\ datas = {}

AddBlobSharingOffset(b) ==
  LET dataOffset == alignTo(offset + DefaultAlignment, DefaultAlignment) IN
  /\ pc \in {"open", "saved", "failed"} /\ Len(entries) < MaxBlobs
  /\ entries' = Append(entries, [metadataOffset |-> offset, dataOffset |-> dataOffset,
                                 data |-> b])
  /\ offset' = IF Size[b] = 0 THEN offset
               ELSE alignTo(dataOffset + Size[b], DefaultAlignment)
  /\ UNCHANGED <<pc, next, header, metas, datas>>

(* Nothing refuses a blob after Close: it gets an offset and is lost.        *)
AddBlob(b) ==
  LET dataOffset == alignTo(offset + DefaultAlignment, DefaultAlignment) IN
  /\ pc \in {"open", "saved", "failed"} /\ Len(entries) < MaxBlobs
  /\ entries' = Append(entries, [metadataOffset |-> offset, dataOffset |-> dataOffset,
                                 data |-> b])
  /\ offset' = alignTo(dataOffset + Size[b], DefaultAlignment)
  /\ UNCHANGED <<pc, next, header, metas, datas>>

(* Close, step by step.  A second Close fails at its first seek, since the   *)
(* file is closed, and changes nothing.                                      *)
WriteHeader ==
  /\ pc = "open"
  /\ header' = Len(entries)
  /\ pc' = IF entries = <<>> THEN "closing" ELSE "metadata"
  /\ UNCHANGED <<offset, entries, next, metas, datas>>

WriteMetadata ==
  /\ pc = "metadata" /\ pc' = "data"
  /\ metas' = metas \union {Metadata(entries[next])}
  /\ UNCHANGED <<offset, entries, next, header, datas>>

WriteDataSkippingLast ==
  /\ pc = "data"
  /\ datas' = datas \union {Data(entries[next])}
  /\ next' = next + 1
  /\ pc' = IF next >= Len(entries) - 1 THEN "closing" ELSE "metadata"
  /\ UNCHANGED <<offset, entries, header, metas>>
WriteData ==
  /\ pc = "data"
  /\ datas' = datas \union {Data(entries[next])}
  /\ next' = next + 1
  /\ pc' = IF next = Len(entries) THEN "closing" ELSE "metadata"
  /\ UNCHANGED <<offset, entries, header, metas>>

CloseFile ==
  /\ pc = "closing" /\ pc' = "saved"
  /\ UNCHANGED <<offset, entries, next, header, metas, datas>>

(* Any write, or the close of the file, reports an error.                    *)
Fail ==
  /\ pc \in {"open", "metadata", "data", "closing"} /\ pc' = "failed"
  /\ UNCHANGED <<offset, entries, next, header, metas, datas>>

Next ==
  \/ \E b \in Blobs : AddBlob(b)
  \/ WriteHeader \/ WriteMetadata \/ WriteData \/ CloseFile
  \/ Fail

Spec == Init /\ [][Next]_vars

-----------------------------------------------------------------------------
(* Types of the writer's fields and of what is on disk.                      *)
Entries == [metadataOffset : Nat, dataOffset : Nat, data : Blobs]
TypeOK ==
  /\ offset \in Nat
  /\ entries \in Seq(Entries)
  /\ pc \in {"open", "metadata", "data", "closing", "saved", "failed"}
  /\ next \in Nat \ {0} /\ header \in Nat \union {NoHeader}
  /\ metas \subseteq [at : Nat, offset : Nat, size : Nat]
  /\ datas \subseteq [at : Nat, data : Blobs]

(* Two byte ranges have no byte in common.                                   *)
Apart(from1, to1, from2, to2) == to1 <= from2 \/ to2 <= from1

(* No write to the file destroys a byte of an earlier one: the header and    *)
(* every metadata and data section are pairwise apart.                       *)
SectionsApart ==
  /\ \A m \in metas : HeaderSize <= m.at
  /\ \A d \in datas : HeaderSize <= d.at
  /\ \A m, n \in metas : m # n =>
       Apart(m.at, m.at + MetadataSize, n.at, n.at + MetadataSize)
  /\ \A m \in metas, d \in datas :
       Apart(m.at, m.at + MetadataSize, d.at, d.at + Size[d.data])
  /\ \A d, e \in datas : d # e =>
       Apart(d.at, d.at + Size[d.data], e.at, e.at + Size[e.data])

(* The blob format's alignment: metadata and data start at multiples of 64.  *)
SectionsAligned ==
  /\ \A m \in metas : m.at % DefaultAlignment = 0
  /\ \A d \in datas : d.at % DefaultAlignment = 0

(* A reader that follows offset o finds metadata there, and through it data b *)
ReadsBack(o, b) ==
  \E m \in metas, d \in datas :
    m.at = o /\ m.size = Size[b] /\ m.offset = d.at /\ d.data = b

(* Close: when it reports success, every entry the header counts is read back *)
(* at the offset AddBlob answered for it.                                    *)
SavedFileComplete ==
  pc = "saved" =>
    /\ header \in 0..Len(entries)
    /\ \A k \in 1..header : ReadsBack(entries[k].metadataOffset, entries[k].data)

(* The writer keeps the promise of BlobStore.                                *)
Promised == {<<entries[k].metadataOffset, entries[k].data>> : k \in 1..Len(entries)}
Readable ==
  IF pc = "saved" THEN {p \in Promised : ReadsBack(p[1], p[2])} ELSE {}
Status == IF pc \in {"saved", "failed"} THEN pc ELSE "writing"

Store == INSTANCE BlobStore
           WITH promised <- Promised, readable <- Readable, status <- Status
KeepsPromise == Store!StoreSpec

=============================================================================
