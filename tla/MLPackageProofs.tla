--------------------------- MODULE MLPackageProofs ----------------------------
(***************************************************************************)
(* Proofs about MLPackage, for any tensors, packages and number of saves.   *)
(*                                                                          *)
(* A package nobody began to save has no file.  While the first save of a   *)
(* package runs, each step finds what the steps before it left: the blobs    *)
(* in memory, then in weight.bin, then a model file that refers to them; the *)
(* manifest comes last.                                                     *)
(***************************************************************************)
EXTENDS MLPackage, TLAPS, FiniteSetTheorems

States == {"absent", "torn", "whole"}
Lengths == 0..Cardinality(Tensors)
Blobs(S) == UNION {[1..n -> S] : n \in Lengths}
Saves == [path : Paths \union {"none"}, step : Steps \union {"idle"},
          blobs : Blobs(Tensors), withBlobs : BOOLEAN]

(* The types that a step keeps: TypeOK with the blobs of the running save.    *)
Types ==
  /\ mem \in Refs
  /\ weights \in [Paths -> [state : States, data : Blobs(Tensors \union {NoData})]]
  /\ modelFile \in [Paths -> [state : States, data : Refs]]
  /\ manifest \in [Paths -> [state : States, data : BOOLEAN]]
  /\ save \in Saves
  /\ save = Idle \/ (save.path \in Paths /\ save.step \in Steps)
  /\ returned \in [Paths -> {"none", "ok", "ok blobs", "error"}]
  /\ clean \subseteq begun /\ begun \subseteq Paths /\ saves \in 0..MaxSaves

(* A package that no save was begun for.                                     *)
Untouched(p) ==
  /\ weights[p].state = "absent" /\ modelFile[p].state = "absent"
  /\ manifest[p].state = "absent" /\ returned[p] = "none"

(* References of a model, to the blobs of a sequence that was written or will *)
(* be: each finds its tensor.                                                *)
Refer(refs, blobs) ==
  \A t \in Tensors : refs[t] = Inline \/ (refs[t] \in DOMAIN blobs /\ blobs[refs[t]] = t)
SomeRef(refs) == \E t \in Tensors : refs[t] # Inline

(* What the first save of package p, of a fresh model, has done at each step. *)
Progress(p) ==
  /\ returned[p] = "none" /\ ~Whole(manifest[p])
  /\ save.step = "create" => mem = Built
  /\ save.step = "weights" =>
       Refer(mem, [k \in DOMAIN save.blobs |-> BlobOf(save.blobs[k])])
  /\ save.step \in {"weights", "model", "model data"} =>
       (save.blobs # <<>> <=> SomeRef(mem))
  /\ save.step \in {"model", "model data"} =>
       \/ mem = Built
       \/ Whole(weights[p]) /\ Refer(mem, weights[p].data)
  /\ save.step \in {"manifest", "manifest data"} =>
       /\ Whole(modelFile[p]) /\ Resolves(p)
       /\ save.blobs # <<>> <=> SomeRef(modelFile[p].data)

PkgInv ==
  /\ Types
  /\ \A p \in Paths \ begun : Untouched(p)
  /\ save # Idle => save.path \in begun
  /\ \A p \in clean : save # Idle /\ save.path = p => Progress(p)
  /\ ManifestPublishesWhole /\ OkMeansPublished

(* With a threshold above 0, as DefaultBlobThreshold is, a tensor without     *)
(* bytes is never moved to the weight file.                                  *)
OpaqueStay == Opaque = {} \/ 0 \notin Thresholds

(***************************************************************************)
(* Operators of the model.                                                  *)
(***************************************************************************)

LEMMA LengthsAreNat == Cardinality(Tensors) \in Nat /\ 0 \in Lengths
  BY TensorsAssumption, FS_CardinalityType DEF Lengths

LEMMA BlobsAreSequences ==
  ASSUME NEW S, NEW s \in Blobs(S)
  PROVE  /\ s \in Seq(S) /\ Len(s) \in Lengths /\ DOMAIN s = 1..Len(s)
         /\ \A k \in DOMAIN s : s[k] \in S
<1>1. PICK n \in Lengths : s \in [1..n -> S]
      BY DEF Blobs
<1>2. n \in Nat
      BY LengthsAreNat DEF Lengths
<1>3. s \in Seq(S)
      BY <1>1, <1>2
<1>4. Len(s) = n
      BY <1>1, <1>2, <1>3
<1> QED BY <1>1, <1>3, <1>4

LEMMA NoBlobs == ASSUME NEW S PROVE <<>> \in Blobs(S)
<1>1. <<>> \in [1..0 -> S]
      OBVIOUS
<1> QED BY <1>1, LengthsAreNat DEF Blobs

LEMMA WrittenBlobs ==
  ASSUME NEW s \in Blobs(Tensors)
  PROVE  [k \in DOMAIN s |-> BlobOf(s[k])] \in Blobs(Tensors \union {NoData})
<1>1. PICK n \in Lengths : s \in [1..n -> Tensors]
      BY DEF Blobs
<1>2. [k \in DOMAIN s |-> BlobOf(s[k])] \in [1..n -> Tensors \union {NoData}]
      BY <1>1 DEF BlobOf
<1> QED BY <1>1, <1>2 DEF Blobs

LEMMA OrdersAreBlobs ==
  ASSUME NEW S \in SUBSET Tensors, NEW s \in Orders(S)
  PROVE  s \in Blobs(Tensors) /\ \A k \in DOMAIN s : s[k] \in S
<1>1. Cardinality(S) \in Lengths
      BY TensorsAssumption, FS_Subset, FS_CardinalityType DEF Lengths
<1>2. s \in [1..Cardinality(S) -> S]
      BY DEF Orders
<1>3. s \in [1..Cardinality(S) -> Tensors]
      BY <1>2
<1> QED BY <1>1, <1>2, <1>3 DEF Blobs

LEMMA FileTypes ==
  ASSUME NEW D, NEW f \in [state : States, data : D]
  PROVE  /\ Torn(f) \in [state : States, data : D] /\ Torn(f).data = f.data
         /\ ~Whole(Torn(f))
         /\ \A d \in D : /\ File("whole", d) \in [state : States, data : D]
                         /\ Whole(File("whole", d)) /\ File("whole", d).data = d
  BY DEF Torn, File, Whole, States

LEMMA BuiltIsInline == Built \in Refs /\ \A t \in Tensors : Built[t] = Inline
  BY LengthsAreNat DEF Built, Refs, Inline, Lengths

LEMMA SavesTypes ==
  /\ Idle \in Saves /\ Idle.step = "idle"
  /\ \A p \in Paths, step \in Steps, b \in BOOLEAN :
       /\ Saving(p, step, b) \in Saves /\ Saving(p, step, b).path = p
       /\ Saving(p, step, b).step = step /\ Saving(p, step, b).blobs = <<>>
  BY NoBlobs DEF Idle, Saving, Saves

(* The save after a step: the same package and the same blobs.                *)
LEMMA GotoTypes ==
  ASSUME Types, save # Idle, NEW step \in Steps, Goto(step)
  PROVE  /\ save' \in Saves /\ save' # Idle /\ save'.path = save.path /\ save'.step = step
         /\ save'.blobs = save.blobs /\ save.path \in Paths
<1>1. save \in Saves /\ save.path \in Paths
      BY DEF Types
<1>2. /\ save' \in Saves /\ save'.path = save.path /\ save'.step = step
      /\ save'.blobs = save.blobs
      BY <1>1 DEF Goto, Saves
<1>3. Idle.step \notin Steps
      BY SavesTypes DEF Steps
<1> QED BY <1>1, <1>2, <1>3

(***************************************************************************)
(* Types.                                                                   *)
(***************************************************************************)

LEMMA InitTypes == ASSUME Init PROVE Types
<1>1. /\ <<>> \in Blobs(Tensors \union {NoData}) /\ Built \in Refs /\ Idle \in Saves
      BY NoBlobs, BuiltIsInline, SavesTypes
<1>2. 0 \in 0..MaxSaves
      BY SizesAssumption
<1>3. weights \in [Paths -> [state : States, data : Blobs(Tensors \union {NoData})]]
      BY <1>1 DEF Init, File, States
<1>4. modelFile \in [Paths -> [state : States, data : Refs]]
      BY <1>1 DEF Init, File, States
<1>5. manifest \in [Paths -> [state : States, data : BOOLEAN]]
      BY DEF Init, File, States
<1> QED BY <1>1, <1>2, <1>3, <1>4, <1>5 DEF Init, Types

LEMMA BeginTypes ==
  ASSUME Types, NEW p \in Paths, NEW step \in Steps, NEW b \in BOOLEAN, Begin(p, step, b)
  PROVE  Types'
<1>1. save' = Saving(p, step, b) /\ save' \in Saves /\ save'.path = p /\ save'.step = step
      BY SavesTypes DEF Begin
<1>2. saves' \in 0..MaxSaves
  <2>1. saves \in 0..MaxSaves /\ saves < MaxSaves /\ saves' = saves + 1 /\ MaxSaves \in Nat
        BY SizesAssumption DEF Begin, Types
  <2> QED BY <2>1
<1>3. returned' \in [Paths -> {"none", "ok", "ok blobs", "error"}]
      BY DEF Begin, Types
<1>4. clean' \subseteq begun' /\ begun' \subseteq Paths
      BY DEF Begin, Types
<1>5. UNCHANGED <<mem, weights, modelFile, manifest>>
      BY DEF Begin
<1> QED BY <1>1, <1>2, <1>3, <1>4, <1>5 DEF Types

LEMMA CreateWeightsTypes ==
  ASSUME Types, NEW threshold \in Thresholds, CreateWeights(threshold)
  PROVE  Types'
<1>1. PICK blobs \in Orders(Extracted(threshold)) :
        /\ save.step = "create"
        /\ weights' = [weights EXCEPT ![WeightFile(save.path)] = Torn(@)]
        /\ mem' = [t \in Tensors |->
                     IF \E k \in DOMAIN blobs : blobs[k] = t
                     THEN CHOOSE k \in DOMAIN blobs : blobs[k] = t ELSE mem[t]]
        /\ save' = [save EXCEPT !.step = "weights", !.blobs = blobs]
      BY DEF CreateWeights
<1>2. blobs \in Blobs(Tensors)
      BY OrdersAreBlobs DEF Extracted
<1>3. save.path \in Paths /\ save \in Saves
      BY <1>1, SavesTypes DEF Types
<1>4. weights' \in [Paths -> [state : States, data : Blobs(Tensors \union {NoData})]]
      BY <1>1, <1>3, FileTypes DEF Types, WeightFile
<1>5. mem' \in Refs
  <2>1. DOMAIN blobs \subseteq Lengths
        BY <1>2, BlobsAreSequences, LengthsAreNat DEF Lengths
  <2>2. \A t \in Tensors : mem[t] \in Lengths
        BY DEF Types, Refs, Lengths
  <2>3. \A t \in Tensors : mem'[t] \in Lengths
        BY <1>1, <2>1, <2>2
  <2> QED BY <1>1, <2>3 DEF Refs, Lengths
<1>6. save' \in Saves /\ save'.path = save.path /\ save'.step = "weights"
      BY <1>1, <1>2, <1>3 DEF Saves, Steps
<1> QED BY <1>3, <1>4, <1>5, <1>6 DEF CreateWeights, GhostsKept, Types, Steps

LEMMA FinishTypes ==
  ASSUME Types, save # Idle, NEW result \in {"ok", "ok blobs", "error"}, Finish(result)
  PROVE  /\ save' = Idle /\ save' \in Saves
         /\ returned' \in [Paths -> {"none", "ok", "ok blobs", "error"}]
  BY SavesTypes DEF Finish, Types

LEMMA Orderings ==
  /\ StepAfter("weights") = "model"
  /\ AfterWriting("model") => Goto("manifest") /\ UNCHANGED returned
  /\ AfterWriting("manifest") => \E r \in {"ok", "ok blobs"} : Finish(r)
  BY DEF StepAfter, AfterWriting

LEMMA Running ==
  ASSUME Types, save.step # "idle"
  PROVE  save # Idle /\ save.path \in Paths /\ save \in Saves
  BY SavesTypes DEF Types

LEMMA CloseWeightsTypes == ASSUME Types, CloseWeights PROVE Types'
<1> DEFINE written == [k \in DOMAIN save.blobs |-> BlobOf(save.blobs[k])]
<1>1. save.step = "weights" /\ save # Idle /\ save.path \in Paths /\ save \in Saves
      BY Running DEF CloseWeights
<1>2. save' \in Saves /\ save'.path = save.path /\ save'.step = "model"
      BY <1>1, GotoTypes, Orderings DEF CloseWeights, Steps
<1>3. written \in Blobs(Tensors \union {NoData})
      BY <1>1, WrittenBlobs DEF Saves
<1>4. weights' = [weights EXCEPT ![save.path] = File("whole", written)]
      BY DEF CloseWeights, WeightFile
<1> HIDE DEF written
<1>5. File("whole", written) \in [state : States, data : Blobs(Tensors \union {NoData})]
      BY <1>3 DEF File, States
<1>6. weights' \in [Paths -> [state : States, data : Blobs(Tensors \union {NoData})]]
      BY <1>1, <1>4, <1>5 DEF Types
<1> QED BY <1>1, <1>2, <1>6 DEF CloseWeights, GhostsKept, Types, Steps

LEMMA TruncateModelTypes == ASSUME Types, TruncateModel PROVE Types'
<1>1. save.step = "model" /\ save # Idle /\ save.path \in Paths
      BY Running DEF TruncateModel
<1>2. save' \in Saves /\ save'.path = save.path /\ save'.step = "model data"
      BY <1>1, GotoTypes DEF TruncateModel, Steps
<1>3. modelFile' \in [Paths -> [state : States, data : Refs]]
      BY <1>1, FileTypes DEF TruncateModel, Types
<1> QED BY <1>1, <1>2, <1>3 DEF TruncateModel, GhostsKept, Types, Steps

LEMMA WriteModelTypes == ASSUME Types, WriteModel PROVE Types'
<1>1. save.step = "model data" /\ save # Idle /\ save.path \in Paths
      BY Running DEF WriteModel
<1>2. save' \in Saves /\ save'.path = save.path /\ save'.step = "manifest" /\ UNCHANGED returned
      BY <1>1, GotoTypes, Orderings DEF WriteModel, Steps
<1>3. File("whole", mem) \in [state : States, data : Refs]
      BY DEF Types, File, States
<1>4. modelFile' \in [Paths -> [state : States, data : Refs]]
      BY <1>1, <1>3 DEF WriteModel, Types
<1> QED BY <1>1, <1>2, <1>4 DEF WriteModel, GhostsKept, Types, Steps

LEMMA TruncateManifestTypes == ASSUME Types, TruncateManifest PROVE Types'
<1>1. save.step = "manifest" /\ save # Idle /\ save.path \in Paths
      BY Running DEF TruncateManifest
<1>2. save' \in Saves /\ save'.path = save.path /\ save'.step = "manifest data"
      BY <1>1, GotoTypes DEF TruncateManifest, Steps
<1>3. manifest' \in [Paths -> [state : States, data : BOOLEAN]]
      BY <1>1, FileTypes DEF TruncateManifest, Types
<1> QED BY <1>1, <1>2, <1>3 DEF TruncateManifest, GhostsKept, Types, Steps

LEMMA WriteManifestTypes == ASSUME Types, WriteManifest PROVE Types'
<1>1. save.step = "manifest data" /\ save # Idle /\ save.path \in Paths
      BY Running DEF WriteManifest
<1>2. /\ save' = Idle /\ save' \in Saves
      /\ returned' \in [Paths -> {"none", "ok", "ok blobs", "error"}]
      BY <1>1, FinishTypes, Orderings DEF WriteManifest
<1>3. File("whole", save.blobs # <<>>) \in [state : States, data : BOOLEAN]
      BY DEF File, States
<1>4. manifest' \in [Paths -> [state : States, data : BOOLEAN]]
      BY <1>1, <1>3 DEF WriteManifest, Types
<1> QED BY <1>1, <1>2, <1>4 DEF WriteManifest, GhostsKept, Types

LEMMA EndTypes == ASSUME Types, Fail \/ Crash PROVE Types'
<1>1. CASE Fail
  <2>1. /\ save' = Idle /\ save' \in Saves
        /\ returned' \in [Paths -> {"none", "ok", "ok blobs", "error"}]
        BY <1>1, FinishTypes DEF Fail
  <2> QED BY <1>1, <2>1 DEF Fail, GhostsKept, Types
<1>2. CASE Crash
  <2>1. save' = Idle /\ save' \in Saves /\ mem' \in Refs
        BY <1>2, SavesTypes, BuiltIsInline DEF Crash
  <2> QED BY <1>2, <2>1 DEF Crash, GhostsKept, Types
<1> QED BY <1>1, <1>2

LEMMA StepTypes == ASSUME Types, [Next]_vars PROVE Types'
<1>1. CASE UNCHANGED vars
      BY <1>1 DEF vars, Types
<1>2. ASSUME NEW p \in Paths, SaveMLPackage(p) \/ SaveMLPackageWithBlobs(p) PROVE Types'
      BY <1>2, BeginTypes DEF SaveMLPackage, SaveMLPackageWithBlobs, Steps
<1>3. ASSUME NEW threshold \in Thresholds, CreateWeights(threshold) PROVE Types'
      BY <1>3, CreateWeightsTypes
<1>4. CASE \/ CloseWeights \/ TruncateModel \/ WriteModel \/ TruncateManifest
           \/ WriteManifest \/ Fail \/ Crash
      BY <1>4, CloseWeightsTypes, TruncateModelTypes, WriteModelTypes,
         TruncateManifestTypes, WriteManifestTypes, EndTypes
<1> QED BY <1>1, <1>2, <1>3, <1>4 DEF Next

LEMMA TypesInvariant == Spec => []Types
<1>1. Init => Types
      BY InitTypes
<1>2. Types /\ [Next]_vars => Types'
      BY StepTypes
<1> QED BY <1>1, <1>2, PTL DEF Spec

LEMMA TypesAreTypeOK == Types => TypeOK
<1> SUFFICES ASSUME Types PROVE TypeOK
    OBVIOUS
<1>1. ASSUME NEW p \in Paths
      PROVE  /\ {weights[p].state, modelFile[p].state, manifest[p].state}
                  \subseteq {"absent", "torn", "whole"}
             /\ Len(weights[p].data) <= Cardinality(Tensors)
             /\ \A k \in DOMAIN weights[p].data : weights[p].data[k] \in Tensors \union {NoData}
             /\ modelFile[p].data \in Refs /\ manifest[p].data \in BOOLEAN
  <2>1. /\ weights[p] \in [state : States, data : Blobs(Tensors \union {NoData})]
        /\ modelFile[p] \in [state : States, data : Refs]
        /\ manifest[p] \in [state : States, data : BOOLEAN]
        BY DEF Types
  <2>2. weights[p].data \in Blobs(Tensors \union {NoData})
        BY <2>1
  <2>3. /\ Len(weights[p].data) \in Lengths
        /\ \A k \in DOMAIN weights[p].data : weights[p].data[k] \in Tensors \union {NoData}
        BY <2>2, BlobsAreSequences
  <2> QED BY <2>1, <2>3, LengthsAreNat DEF States, Lengths
<1> QED BY <1>1 DEF Types, TypeOK

(***************************************************************************)
(* The files.                                                               *)
(***************************************************************************)

Good(p) ==
  /\ Whole(manifest[p]) => Published(p)
  /\ returned[p] \in {"ok", "ok blobs"} =>
       Published(p) /\ manifest[p].data = SomeRef(modelFile[p].data)

LEMMA AllGood == ManifestPublishesWhole /\ OkMeansPublished <=> \A p \in clean : Good(p)
  BY DEF ManifestPublishesWhole, OkMeansPublished, Good, SomeRef

SameFiles(p) ==
  UNCHANGED <<weights[p], modelFile[p], manifest[p], returned[p]>>

LEMMA SameFilesSameState ==
  ASSUME NEW p \in Paths, SameFiles(p)
  PROVE  /\ Good(p)' <=> Good(p)
         /\ Untouched(p)' <=> Untouched(p)
         /\ Published(p)' <=> Published(p)
<1>1. Resolves(p)' <=> Resolves(p)
      BY DEF SameFiles, Resolves, WeightFile
<1>2. Published(p)' <=> Published(p)
      BY <1>1 DEF SameFiles, Published
<1> QED BY <1>1, <1>2 DEF SameFiles, Good, Untouched

(* A step of the running save leaves the other packages alone; for its own it *)
(* makes progress or ends.                                                   *)
LEMMA SaveStep ==
  ASSUME PkgInv, Types', NEW q \in Paths, save # Idle, q = save.path,
         \A p \in Paths : p # q => SameFiles(p),
         save' = Idle \/ save'.path = q,
         UNCHANGED <<begun, clean>>,
         q \in clean => Good(q)',
         q \in clean /\ save' # Idle => Progress(q)'
  PROVE  PkgInv'
<1>1. q \in begun /\ clean \subseteq Paths
      BY DEF PkgInv, Types
<1>2. \A p \in Paths \ begun' : Untouched(p)'
      BY <1>1, SameFilesSameState DEF PkgInv
<1>3. \A p \in clean' : Good(p)'
      BY <1>1, AllGood, SameFilesSameState DEF PkgInv
<1>4. (ManifestPublishesWhole /\ OkMeansPublished)'
  <2>1. ManifestPublishesWhole' /\ OkMeansPublished' <=> \A p \in clean' : Good(p)'
        BY DEF ManifestPublishesWhole, OkMeansPublished, Good, SomeRef
  <2> QED BY <1>3, <2>1
<1>5. \A p \in clean' : save' # Idle /\ save'.path = p => Progress(p)'
      OBVIOUS
<1> QED BY <1>1, <1>2, <1>4, <1>5 DEF PkgInv

(***************************************************************************)
(* The steps.                                                               *)
(***************************************************************************)

LEMMA BeginPkgInv ==
  ASSUME PkgInv, NEW p \in Paths, SaveMLPackage(p) \/ SaveMLPackageWithBlobs(p)
  PROVE  PkgInv'
<1>1. PICK step \in {"model", "create"}, b \in BOOLEAN : Begin(p, step, b)
      BY DEF SaveMLPackage, SaveMLPackageWithBlobs
<1>2. step \in Steps /\ Types /\ Types'
      BY <1>1, BeginTypes DEF PkgInv, Steps
<1>3. /\ save' # Idle /\ save'.path = p /\ save'.step = step /\ save'.blobs = <<>>
      /\ UNCHANGED <<mem, weights, modelFile, manifest>>
      /\ returned' = [returned EXCEPT ![p] = "none"] /\ begun' = begun \union {p}
  <2>1. save' = Saving(p, step, b)
        BY <1>1 DEF Begin
  <2>2. Idle.step # step
        BY SavesTypes
  <2> QED BY <1>1, <1>2, <2>1, <2>2, SavesTypes DEF Begin
<1>4. \A o \in Paths : o # p => SameFiles(o)
      BY <1>2, <1>3 DEF SameFiles, Types
<1>5. \A o \in Paths \ begun' : Untouched(o)'
      BY <1>3, <1>4, SameFilesSameState DEF PkgInv
<1>6. \A o \in clean' : o # p => Good(o)'
  <2>1. \A o \in clean' : o # p => o \in clean
        BY <1>1 DEF Begin
  <2>2. \A o \in clean : Good(o) /\ o \in Paths
        BY AllGood DEF PkgInv, Types
  <2> QED BY <1>4, <2>1, <2>2, SameFilesSameState
<1>7. p \in clean' => mem = Built /\ Untouched(p)
      BY <1>1 DEF Begin, PkgInv
<1>8. ASSUME p \in clean' PROVE Progress(p)' /\ Good(p)'
  <2>1. returned'[p] = "none" /\ ~Whole(manifest'[p]) /\ mem' = Built
        BY <1>2, <1>3, <1>7, <1>8 DEF Untouched, Whole, Types
  <2>2. ~SomeRef(mem')
        BY <2>1, BuiltIsInline DEF SomeRef
  <2>3. Good(p)'
        BY <2>1 DEF Good
  <2> QED BY <1>3, <2>1, <2>2, <2>3 DEF Progress
<1>9. \A o \in clean' : Good(o)'
      BY <1>6, <1>8
<1>10. (ManifestPublishesWhole /\ OkMeansPublished)'
  <2>1. ManifestPublishesWhole' /\ OkMeansPublished' <=> \A o \in clean' : Good(o)'
        BY DEF ManifestPublishesWhole, OkMeansPublished, Good, SomeRef
  <2> QED BY <1>9, <2>1
<1> QED BY <1>2, <1>3, <1>5, <1>8, <1>10 DEF PkgInv

(* What CreateWeights moves out of memory it will find in weight.bin.         *)
LEMMA CreateWeightsPkgInv ==
  ASSUME PkgInv, OpaqueStay, NEW threshold \in Thresholds, CreateWeights(threshold)
  PROVE  PkgInv'
<1>1. PICK blobs \in Orders(Extracted(threshold)) :
        /\ save.step = "create"
        /\ weights' = [weights EXCEPT ![WeightFile(save.path)] = Torn(@)]
        /\ mem' = [t \in Tensors |->
                     IF \E k \in DOMAIN blobs : blobs[k] = t
                     THEN CHOOSE k \in DOMAIN blobs : blobs[k] = t ELSE mem[t]]
        /\ save' = [save EXCEPT !.step = "weights", !.blobs = blobs]
      BY DEF CreateWeights
<1>2. Types /\ Types'
      BY CreateWeightsTypes DEF PkgInv
<1>3. save # Idle /\ save.path \in Paths /\ save \in Saves
      BY <1>1, <1>2, Running
<1>4. PICK q \in Paths : q = save.path
      BY <1>3
<1>5. save'.path = q /\ save'.step = "weights" /\ save'.blobs = blobs
      BY <1>1, <1>3, <1>4 DEF Saves
<1>6. UNCHANGED <<modelFile, manifest, returned, begun, clean>>
      BY DEF CreateWeights, GhostsKept
<1>7. \A p \in Paths : p # q => SameFiles(p)
      BY <1>1, <1>2, <1>4, <1>6 DEF SameFiles, Types, WeightFile
<1>8. blobs \in Blobs(Tensors) /\ \A k \in DOMAIN blobs : blobs[k] \in Extracted(threshold)
      BY OrdersAreBlobs DEF Extracted
<1>9. \A k \in DOMAIN blobs : BlobOf(blobs[k]) = blobs[k]
  <2> SUFFICES ASSUME NEW k \in DOMAIN blobs, blobs[k] \in Opaque PROVE FALSE
      BY DEF BlobOf
  <2>1. Size[blobs[k]] = 0 /\ Size[blobs[k]] >= threshold
        BY <1>8, SizesAssumption DEF Extracted
  <2>2. threshold \in Nat /\ threshold # 0
        BY SizesAssumption DEF OpaqueStay
  <2> QED BY <2>1, <2>2
<1>10. DOMAIN blobs = 1..Len(blobs) /\ blobs \in Seq(Tensors)
       BY <1>8, BlobsAreSequences
<1>11. ASSUME mem = Built
       PROVE  /\ Refer(mem', [k \in DOMAIN blobs |-> BlobOf(blobs[k])])
              /\ blobs # <<>> <=> SomeRef(mem')
  <2>1. \A t \in Tensors : \/ mem'[t] = Inline
                           \/ mem'[t] \in DOMAIN blobs /\ blobs[mem'[t]] = t
        BY <1>1, <1>11, BuiltIsInline
  <2>2. Refer(mem', [k \in DOMAIN blobs |-> BlobOf(blobs[k])])
        BY <1>9, <2>1 DEF Refer
  <2>3. ASSUME blobs # <<>> PROVE SomeRef(mem')
    <3>1. 1 \in DOMAIN blobs /\ blobs[1] \in Tensors
          BY <1>10, <2>3
    <3>2. mem'[blobs[1]] \in DOMAIN blobs
          BY <1>1, <3>1
    <3> QED BY <1>10, <3>1, <3>2 DEF SomeRef, Inline
  <2>4. ASSUME blobs = <<>> PROVE ~SomeRef(mem')
    <3>1. DOMAIN blobs = {}
          BY <2>4
    <3> QED BY <2>1, <3>1 DEF SomeRef
  <2> QED BY <2>2, <2>3, <2>4
<1>12. ASSUME q \in clean PROVE Progress(q)' /\ Good(q)'
  <2>1. Progress(q)
        BY <1>3, <1>4, <1>12 DEF PkgInv
  <2>2. returned'[q] = "none" /\ ~Whole(manifest'[q]) /\ mem = Built
        BY <1>1, <1>6, <2>1 DEF Progress
  <2>3. Good(q)'
        BY <2>2 DEF Good
  <2> QED BY <1>5, <1>11, <2>2, <2>3 DEF Progress
<1> QED BY <1>2, <1>3, <1>4, <1>5, <1>6, <1>7, <1>12, SaveStep

LEMMA CloseWeightsPkgInv == ASSUME PkgInv, CloseWeights PROVE PkgInv'
<1> DEFINE written == [k \in DOMAIN save.blobs |-> BlobOf(save.blobs[k])]
<1>1. Types /\ Types' /\ save.step = "weights"
      BY CloseWeightsTypes DEF PkgInv, CloseWeights
<1>2. PICK q \in Paths : q = save.path
      BY <1>1, Running
<1>3. /\ save # Idle /\ save' # Idle /\ save'.path = q /\ save'.step = "model"
      /\ save'.blobs = save.blobs
      BY <1>1, <1>2, Running, GotoTypes, Orderings DEF CloseWeights, Steps
<1>4. /\ weights' = [weights EXCEPT ![q] = File("whole", written)]
      /\ UNCHANGED <<mem, modelFile, manifest, returned, begun, clean>>
      BY <1>2 DEF CloseWeights, WeightFile, GhostsKept
<1> HIDE DEF written
<1>5. \A p \in Paths : p # q => SameFiles(p)
      BY <1>1, <1>4 DEF SameFiles, Types
<1>6. Whole(weights'[q]) /\ weights'[q].data = written
      BY <1>1, <1>4 DEF Types, File, Whole
<1>7. ASSUME q \in clean PROVE Progress(q)' /\ Good(q)'
  <2>1. Progress(q)
        BY <1>2, <1>3, <1>7 DEF PkgInv
  <2>2. /\ returned[q] = "none" /\ ~Whole(manifest[q]) /\ Refer(mem, written)
        /\ save.blobs # <<>> <=> SomeRef(mem)
        BY <1>1, <2>1 DEF Progress, written
  <2>3. Good(q)'
        BY <1>4, <2>2 DEF Good
  <2> QED BY <1>3, <1>4, <1>6, <2>2, <2>3 DEF Progress
<1> QED BY <1>1, <1>2, <1>3, <1>4, <1>5, <1>7, SaveStep

LEMMA TruncateModelPkgInv == ASSUME PkgInv, TruncateModel PROVE PkgInv'
<1>1. Types /\ Types' /\ save.step = "model"
      BY TruncateModelTypes DEF PkgInv, TruncateModel
<1>2. PICK q \in Paths : q = save.path
      BY <1>1, Running
<1>3. /\ save # Idle /\ save' # Idle /\ save'.path = q /\ save'.step = "model data"
      /\ save'.blobs = save.blobs
      BY <1>1, <1>2, Running, GotoTypes DEF TruncateModel, Steps
<1>4. /\ modelFile' = [modelFile EXCEPT ![q] = Torn(@)]
      /\ UNCHANGED <<mem, weights, manifest, returned, begun, clean>>
      BY <1>2 DEF TruncateModel, GhostsKept
<1>5. \A p \in Paths : p # q => SameFiles(p)
      BY <1>1, <1>4 DEF SameFiles, Types
<1>6. ASSUME q \in clean PROVE Progress(q)' /\ Good(q)'
  <2>1. Progress(q)
        BY <1>2, <1>3, <1>6 DEF PkgInv
  <2>2. returned'[q] = "none" /\ ~Whole(manifest'[q])
        BY <1>4, <2>1 DEF Progress
  <2>3. Good(q)'
        BY <2>2 DEF Good
  <2> QED BY <1>1, <1>3, <1>4, <2>1, <2>2, <2>3 DEF Progress
<1> QED BY <1>1, <1>2, <1>3, <1>4, <1>5, <1>6, SaveStep

LEMMA WriteModelPkgInv == ASSUME PkgInv, WriteModel PROVE PkgInv'
<1>1. Types /\ Types' /\ save.step = "model data"
      BY WriteModelTypes DEF PkgInv, WriteModel
<1>2. PICK q \in Paths : q = save.path
      BY <1>1, Running
<1>3. /\ save # Idle /\ save' # Idle /\ save'.path = q /\ save'.step = "manifest"
      /\ save'.blobs = save.blobs /\ UNCHANGED returned
      BY <1>1, <1>2, Running, GotoTypes, Orderings DEF WriteModel, Steps
<1>4. /\ modelFile' = [modelFile EXCEPT ![q] = File("whole", mem)]
      /\ UNCHANGED <<mem, weights, manifest, begun, clean>>
      BY <1>2 DEF WriteModel, GhostsKept
<1>5. \A p \in Paths : p # q => SameFiles(p)
      BY <1>1, <1>3, <1>4 DEF SameFiles, Types
<1>6. Whole(modelFile'[q]) /\ modelFile'[q].data = mem
      BY <1>1, <1>4 DEF Types, File, Whole
<1>7. ASSUME q \in clean PROVE Progress(q)' /\ Good(q)'
  <2>1. Progress(q)
        BY <1>2, <1>3, <1>7 DEF PkgInv
  <2>2. /\ returned'[q] = "none" /\ ~Whole(manifest'[q])
        /\ save.blobs # <<>> <=> SomeRef(mem)
        /\ mem = Built \/ (Whole(weights[q]) /\ Refer(mem, weights[q].data))
        BY <1>1, <1>3, <1>4, <2>1 DEF Progress
  <2>3. \A t \in Tensors :
          \/ mem[t] = Inline
          \/ /\ Whole(weights[q]) /\ mem[t] \in DOMAIN weights[q].data
             /\ weights[q].data[mem[t]] = t
        BY <2>2, BuiltIsInline DEF Refer
  <2>4. Resolves(q)'
        BY <1>4, <1>6, <2>3 DEF Resolves, WeightFile
  <2>5. Good(q)'
        BY <2>2 DEF Good
  <2> QED BY <1>3, <1>6, <2>2, <2>4, <2>5 DEF Progress
<1> QED BY <1>1, <1>2, <1>3, <1>4, <1>5, <1>7, SaveStep

LEMMA TruncateManifestPkgInv == ASSUME PkgInv, TruncateManifest PROVE PkgInv'
<1>1. Types /\ Types' /\ save.step = "manifest"
      BY TruncateManifestTypes DEF PkgInv, TruncateManifest
<1>2. PICK q \in Paths : q = save.path
      BY <1>1, Running
<1>3. /\ save # Idle /\ save' # Idle /\ save'.path = q /\ save'.step = "manifest data"
      /\ save'.blobs = save.blobs
      BY <1>1, <1>2, Running, GotoTypes DEF TruncateManifest, Steps
<1>4. /\ manifest' = [manifest EXCEPT ![q] = Torn(@)]
      /\ UNCHANGED <<mem, weights, modelFile, returned, begun, clean>>
      BY <1>2 DEF TruncateManifest, GhostsKept
<1>5. \A p \in Paths : p # q => SameFiles(p)
      BY <1>1, <1>4 DEF SameFiles, Types
<1>6. ~Whole(manifest'[q])
      BY <1>1, <1>4, FileTypes DEF Types
<1>7. ASSUME q \in clean PROVE Progress(q)' /\ Good(q)'
  <2>1. Progress(q)
        BY <1>2, <1>3, <1>7 DEF PkgInv
  <2>2. /\ returned'[q] = "none" /\ Whole(modelFile[q]) /\ Resolves(q)
        /\ save.blobs # <<>> <=> SomeRef(modelFile[q].data)
        BY <1>1, <1>4, <2>1 DEF Progress
  <2>3. Resolves(q)'
        BY <1>4, <2>2 DEF Resolves, WeightFile
  <2>4. Good(q)'
        BY <1>6, <2>2 DEF Good
  <2> QED BY <1>3, <1>4, <1>6, <2>2, <2>3, <2>4 DEF Progress
<1> QED BY <1>1, <1>2, <1>3, <1>4, <1>5, <1>7, SaveStep

(* The last file: what is published is complete.                             *)
LEMMA WriteManifestPkgInv == ASSUME PkgInv, WriteManifest PROVE PkgInv'
<1>1. Types /\ Types' /\ save.step = "manifest data"
      BY WriteManifestTypes DEF PkgInv, WriteManifest
<1>2. PICK q \in Paths : q = save.path
      BY <1>1, Running
<1>3. PICK r \in {"ok", "ok blobs"} : Finish(r)
      BY Orderings DEF WriteManifest
<1>4. /\ save # Idle /\ save' = Idle /\ returned' = [returned EXCEPT ![q] = r]
      /\ manifest' = [manifest EXCEPT ![q] = File("whole", save.blobs # <<>>)]
      /\ UNCHANGED <<mem, weights, modelFile, begun, clean>>
      BY <1>1, <1>2, <1>3, Running DEF WriteManifest, Finish, GhostsKept
<1>5. \A p \in Paths : p # q => SameFiles(p)
      BY <1>1, <1>4 DEF SameFiles, Types
<1>6. Whole(manifest'[q]) /\ manifest'[q].data = (save.blobs # <<>>)
      BY <1>1, <1>4 DEF Types, File, Whole
<1>7. ASSUME q \in clean PROVE Good(q)'
  <2>1. Progress(q)
        BY <1>2, <1>4, <1>7 DEF PkgInv
  <2>2. /\ Whole(modelFile[q]) /\ Resolves(q)
        /\ save.blobs # <<>> <=> SomeRef(modelFile[q].data)
        BY <1>1, <2>1 DEF Progress
  <2>3. Resolves(q)'
        BY <1>4, <2>2 DEF Resolves, WeightFile
  <2>4. Published(q)'
        BY <1>4, <1>6, <2>2, <2>3 DEF Published
  <2>5. manifest'[q].data = SomeRef(modelFile'[q].data)
        BY <1>4, <1>6, <2>2 DEF SomeRef
  <2> QED BY <2>4, <2>5 DEF Good
<1> QED BY <1>1, <1>2, <1>4, <1>5, <1>7, SaveStep

LEMMA FailPkgInv == ASSUME PkgInv, Fail PROVE PkgInv'
<1>1. Types /\ Types' /\ save # Idle
      BY EndTypes DEF PkgInv, Fail
<1>2. PICK q \in Paths : q = save.path
      BY <1>1 DEF Types
<1>3. /\ save' = Idle /\ returned' = [returned EXCEPT ![q] = "error"]
      /\ UNCHANGED <<mem, weights, modelFile, manifest, begun, clean>>
      BY <1>2 DEF Fail, Finish, GhostsKept
<1>4. \A p \in Paths : p # q => SameFiles(p)
      BY <1>1, <1>3 DEF SameFiles, Types
<1>5. ASSUME q \in clean PROVE Good(q)'
  <2>1. ~Whole(manifest'[q])
        BY <1>1, <1>2, <1>3, <1>5 DEF PkgInv, Progress
  <2>2. returned'[q] = "error"
        BY <1>1, <1>3 DEF Types
  <2> QED BY <2>1, <2>2 DEF Good
<1> QED BY <1>1, <1>2, <1>3, <1>4, <1>5, SaveStep

LEMMA CrashPkgInv == ASSUME PkgInv, Crash PROVE PkgInv'
<1>1. /\ save' = Idle
      /\ UNCHANGED <<weights, modelFile, manifest, returned, begun, clean>>
      BY DEF Crash, GhostsKept
<1>2. Types' /\ clean \subseteq Paths
      BY EndTypes DEF PkgInv, Types
<1>3. \A p \in Paths : SameFiles(p)
      BY <1>1 DEF SameFiles
<1>4. \A p \in Paths \ begun' : Untouched(p)'
      BY <1>1, <1>3, SameFilesSameState DEF PkgInv
<1>5. (ManifestPublishesWhole /\ OkMeansPublished)'
  <2>1. ManifestPublishesWhole' /\ OkMeansPublished' <=> \A p \in clean' : Good(p)'
        BY DEF ManifestPublishesWhole, OkMeansPublished, Good, SomeRef
  <2>2. \A p \in clean' : Good(p)'
        BY <1>1, <1>2, <1>3, AllGood, SameFilesSameState DEF PkgInv
  <2> QED BY <2>1, <2>2
<1> QED BY <1>1, <1>2, <1>4, <1>5 DEF PkgInv

LEMMA InitPkgInv == ASSUME Init PROVE PkgInv
<1>1. \A p \in Paths : Untouched(p)
      BY DEF Init, Untouched, File
<1>2. save = Idle /\ clean = {}
      BY DEF Init
<1> QED BY <1>1, <1>2, InitTypes DEF PkgInv, ManifestPublishesWhole, OkMeansPublished

LEMMA StepPkgInv ==
  ASSUME PkgInv, OpaqueStay, [Next]_vars
  PROVE  PkgInv'
<1>1. CASE UNCHANGED vars
  <2>1. /\ UNCHANGED <<mem, weights, modelFile, manifest, save, returned, begun, clean, saves>>
        BY <1>1 DEF vars
  <2>2. \A p \in Paths : SameFiles(p)
        BY <2>1 DEF SameFiles
  <2>3. Types' /\ clean \subseteq Paths
        BY <1>1, StepTypes DEF PkgInv, Types
  <2>4. \A p \in Paths : Progress(p)' <=> Progress(p)
        BY <2>1 DEF Progress, Resolves, WeightFile
  <2>5. (ManifestPublishesWhole /\ OkMeansPublished)'
    <3>1. ManifestPublishesWhole' /\ OkMeansPublished' <=> \A p \in clean' : Good(p)'
          BY DEF ManifestPublishesWhole, OkMeansPublished, Good, SomeRef
    <3>2. \A p \in clean' : Good(p)'
          BY <2>1, <2>2, <2>3, AllGood, SameFilesSameState DEF PkgInv
    <3> QED BY <3>1, <3>2
  <2>6. \A p \in Paths \ begun' : Untouched(p)'
        BY <2>1, <2>2, SameFilesSameState DEF PkgInv
  <2> QED BY <2>1, <2>3, <2>4, <2>5, <2>6 DEF PkgInv
<1>2. ASSUME NEW p \in Paths, SaveMLPackage(p) \/ SaveMLPackageWithBlobs(p) PROVE PkgInv'
      BY <1>2, BeginPkgInv
<1>3. ASSUME NEW threshold \in Thresholds, CreateWeights(threshold) PROVE PkgInv'
      BY <1>3, CreateWeightsPkgInv
<1>4. CASE \/ CloseWeights \/ TruncateModel \/ WriteModel \/ TruncateManifest
           \/ WriteManifest \/ Fail \/ Crash
      BY <1>4, CloseWeightsPkgInv, TruncateModelPkgInv, WriteModelPkgInv,
         TruncateManifestPkgInv, WriteManifestPkgInv, FailPkgInv, CrashPkgInv
<1> QED BY <1>1, <1>2, <1>3, <1>4 DEF Next

LEMMA PkgInvariant == ASSUME OpaqueStay PROVE Spec => []PkgInv
<1>1. Init => PkgInv
      BY InitPkgInv
<1>2. PkgInv /\ [Next]_vars => PkgInv'
      BY StepPkgInv
<1> QED BY <1>1, <1>2, PTL DEF Spec

(***************************************************************************)
(* A complete package of clean is not the one being saved: its manifest, the *)
(* last file, is whole.                                                     *)
(***************************************************************************)

LEMMA OtherPackagesStay ==
  ASSUME PkgInv, [Next]_vars, NEW p \in clean, p \in clean', Published(p)
  PROVE  Published(p)'
<1>1. Types /\ p \in Paths /\ Whole(manifest[p])
      BY DEF PkgInv, Types, Published
<1>2. ~(save # Idle /\ save.path = p)
      BY <1>1 DEF PkgInv, Progress
<1>3. SUFFICES UNCHANGED <<weights[p], modelFile[p], manifest[p]>>
  <2>1. Resolves(p)' <=> Resolves(p)
        BY <1>3 DEF Resolves, WeightFile
  <2> QED BY <1>3, <2>1 DEF Published
<1>4. ASSUME NEW q \in Paths, SaveMLPackage(q) \/ SaveMLPackageWithBlobs(q)
      PROVE  UNCHANGED <<weights[p], modelFile[p], manifest[p]>>
      BY <1>4 DEF SaveMLPackage, SaveMLPackageWithBlobs, Begin
<1>5. save.step # "idle" => save.path # p
      BY <1>1, <1>2, Running
<1>6. ASSUME NEW threshold \in Thresholds, CreateWeights(threshold)
      PROVE  UNCHANGED <<weights[p], modelFile[p], manifest[p]>>
      BY <1>1, <1>5, <1>6 DEF CreateWeights, WeightFile, Types
<1>7. CASE CloseWeights
      BY <1>1, <1>5, <1>7 DEF CloseWeights, WeightFile, Types
<1>8. CASE TruncateModel \/ WriteModel
      BY <1>1, <1>5, <1>8 DEF TruncateModel, WriteModel, Types
<1>9. CASE TruncateManifest \/ WriteManifest
      BY <1>1, <1>5, <1>9 DEF TruncateManifest, WriteManifest, Types
<1>10. CASE Fail \/ Crash \/ UNCHANGED vars
       BY <1>10 DEF Fail, Crash, vars
<1> QED BY <1>4, <1>6, <1>7, <1>8, <1>9, <1>10 DEF Next

-----------------------------------------------------------------------------
(* Every reachable state has the documented types, whatever the thresholds.   *)
THEOREM TypeCorrect == Spec => []TypeOK
  BY TypesInvariant, TypesAreTypeOK, PTL

(* SaveMLPackage and SaveMLPackageWithBlobs publish with the manifest: as long *)
(* as no threshold moves tensors without bytes, a whole manifest means that    *)
(* the model file is whole and finds its tensors, crashes included.           *)
THEOREM ManifestComesLast ==
  ASSUME OpaqueStay
  PROVE  Spec => []ManifestPublishesWhole
<1>1. PkgInv => ManifestPublishesWhole
      BY DEF PkgInv
<1> QED BY <1>1, PkgInvariant, PTL

(* A save that returned nil left a complete package.                         *)
THEOREM OkIsPublished ==
  ASSUME OpaqueStay
  PROVE  Spec => []OkMeansPublished
<1>1. PkgInv => OkMeansPublished
      BY DEF PkgInv
<1> QED BY <1>1, PkgInvariant, PTL

(* No step but a save of the same package touches a complete package.         *)
THEOREM PublishedPackagesStay ==
  ASSUME OpaqueStay
  PROVE  Spec => PublishedStays
<1>1. PkgInv /\ [Next]_vars =>
        [\A p \in clean : Published(p) /\ p \in clean' => Published(p)']_vars
      BY OtherPackagesStay
<1> QED BY <1>1, PkgInvariant, PTL DEF Spec, PublishedStays

=============================================================================
