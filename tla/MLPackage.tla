------------------------------ MODULE MLPackage ------------------------------
(***************************************************************************)
(* SaveMLPackage and SaveMLPackageWithBlobs: one model is written to        *)
(* .mlpackage directories.  A package has three files, written one after    *)
(* the other: weights/weight.bin, model.mlmodel, Manifest.json.  Each write *)
(* first truncates its file; any step may fail, and the process may crash   *)
(* and build the model anew.                                                *)
(*                                                                          *)
(* Saving with blobs moves the large tensors of the model IN MEMORY to the  *)
(* weight file: the model then holds offsets.  Build hands out the          *)
(* Builder's own constants, so every model of one Builder shares them: mem  *)
(* is the Builder's.  An offset is the position of the blob in the file     *)
(* (module BlobWriter shows that offsets do identify blobs).                *)
(*                                                                          *)
(* Left out: the identifiers in the manifest, SaveMLModel (a single file),  *)
(* several goroutines that save one model.                                  *)
(***************************************************************************)
EXTENDS Integers, Sequences, FiniteSets

CONSTANTS
  Tensors,     \* constant tensors of the model
  Size,        \* their sizes in weight.bin, in bytes
  Opaque,      \* those extractTensorData has no case for: Bool and String
  Thresholds,  \* values of BlobThreshold the caller uses
  Paths,       \* packages the caller writes
  MaxSaves     \* bound: calls of the two save functions

ASSUME SizesAssumption ==
  /\ Size \in [Tensors -> Nat] /\ Opaque \subseteq Tensors
  /\ \A t \in Opaque : Size[t] = 0
  /\ Thresholds \subseteq Nat /\ MaxSaves \in Nat
ASSUME TensorsAssumption == IsFiniteSet(Tensors)

VARIABLES
  mem,        \* tensor -> Inline, or the position of its blob
  weights,    \* package -> weight.bin: a sequence, what each blob holds
  modelFile,  \* package -> model.mlmodel: tensor -> Inline or a position
  manifest,   \* package -> Manifest.json: does it list weight.bin
  save,       \* the running save: its package, next step and blobs to write
  returned,   \* package -> what the last save of it returned
  begun,      \* ghost: packages some save was begun for
  clean,      \* ghost: those with one save only, of a model no save had touched
  saves       \* bound: saves begun

vars == <<mem, weights, modelFile, manifest, save, returned, begun, clean, saves>>

Inline == 0
NoData == "no data"

(* A file is absent, torn (truncated, its write not finished) or whole.      *)
File(state, data) == [state |-> state, data |-> data]
Whole(f) == f.state = "whole"
Torn(f) == [f EXCEPT !.state = "torn"]

(* withBlobs tells which of the two functions runs.                          *)
Saving(p, step, withBlobs) ==
  [path |-> p, step |-> step, blobs |-> <<>>, withBlobs |-> withBlobs]
Idle == Saving("none", "idle", FALSE)
Built == [t \in Tensors |-> Inline]

(* The weight.bin of a package.                                              *)
SharedWeightFile(p) == CHOOSE q \in Paths : TRUE
WeightFile(p) == p

(* The order in which a package's files are written.                         *)
ManifestFirst(step) == [weights |-> "manifest", manifest |-> "model", model |-> "done"][step]
StepAfter(step) == [weights |-> "model", model |-> "manifest", manifest |-> "done"][step]

(* maybeExtractValue: the tensors that move to the weight file, in any order *)
(* (an operation's attributes are visited in the order of a Go map).         *)
ExtractedAll(threshold) == {t \in Tensors : mem[t] = Inline}
Extracted(threshold) == {t \in Tensors : mem[t] = Inline /\ Size[t] >= threshold}
Orders(S) ==
  {s \in [1..Cardinality(S) -> S] : \A i, j \in DOMAIN s : i # j => s[i] # s[j]}
BlobOf(t) == IF t \in Opaque THEN NoData ELSE t

Init ==
  /\ mem = Built
  /\ weights = [p \in Paths |-> File("absent", <<>>)]
  /\ modelFile = [p \in Paths |-> File("absent", Built)]
  /\ manifest = [p \in Paths |-> File("absent", FALSE)]
  /\ save = Idle
  /\ returned = [p \in Paths |-> "none"]
  /\ begun = {} /\ clean = {} /\ saves = 0

-----------------------------------------------------------------------------
Begin(p, step, withBlobs) ==
  /\ save = Idle /\ saves < MaxSaves
  /\ save' = Saving(p, step, withBlobs)
  /\ returned' = [returned EXCEPT ![p] = "none"]
  /\ begun' = begun \union {p}
  /\ clean' = IF mem = Built /\ p \notin begun THEN clean \union {p} ELSE clean \ {p}
  /\ saves' = saves + 1
  /\ UNCHANGED <<mem, weights, modelFile, manifest>>

(* SaveMLPackage, which is also what runs when blob storage is off.          *)
SaveMLPackage(p) == Begin(p, "model", FALSE)
SaveMLPackageWithBlobs(p) == Begin(p, "create", TRUE)

Goto(step) == save' = [save EXCEPT !.step = step]
GhostsKept == UNCHANGED <<begun, clean, saves>>

(* NewWriter truncates weight.bin; then the tensors move, in memory only.     *)
CreateWeights(threshold) ==
  \E blobs \in Orders(Extracted(threshold)) :
    /\ save.step = "create"
    /\ weights' = [weights EXCEPT ![WeightFile(save.path)] = Torn(@)]
    /\ mem' = [t \in Tensors |->
                 IF \E k \in DOMAIN blobs : blobs[k] = t
                 THEN CHOOSE k \in DOMAIN blobs : blobs[k] = t ELSE mem[t]]
    /\ save' = [save EXCEPT !.step = "weights", !.blobs = blobs]
    /\ UNCHANGED <<modelFile, manifest, returned>> /\ GhostsKept

(* blobWriter.Close writes the file.                                         *)
CloseWeightsAppending ==
  /\ save.step = "weights" /\ Goto(StepAfter("weights"))
  /\ weights' = [weights EXCEPT ![WeightFile(save.path)] =
                   File("whole", @.data \o [k \in DOMAIN save.blobs |-> BlobOf(save.blobs[k])])]
  /\ UNCHANGED <<mem, modelFile, manifest, returned>> /\ GhostsKept
CloseWeights ==
  /\ save.step = "weights" /\ Goto(StepAfter("weights"))
  /\ weights' = [weights EXCEPT ![WeightFile(save.path)] =
                   File("whole", [k \in DOMAIN save.blobs |-> BlobOf(save.blobs[k])])]
  /\ UNCHANGED <<mem, modelFile, manifest, returned>> /\ GhostsKept

Finish(result) ==
  /\ save' = Idle /\ returned' = [returned EXCEPT ![save.path] = result]

(* After the last file the save returns nil.                                 *)
AfterWriting(file) ==
  IF StepAfter(file) = "done" THEN Finish(IF save.withBlobs THEN "ok blobs" ELSE "ok")
  ELSE Goto(StepAfter(file)) /\ UNCHANGED returned

TruncateModel ==
  /\ save.step = "model" /\ Goto("model data")
  /\ modelFile' = [modelFile EXCEPT ![save.path] = Torn(@)]
  /\ UNCHANGED <<mem, weights, manifest, returned>> /\ GhostsKept

WriteModel ==
  /\ save.step = "model data" /\ AfterWriting("model")
  /\ modelFile' = [modelFile EXCEPT ![save.path] = File("whole", mem)]
  /\ UNCHANGED <<mem, weights, manifest>> /\ GhostsKept

TruncateManifest ==
  /\ save.step = "manifest" /\ Goto("manifest data")
  /\ manifest' = [manifest EXCEPT ![save.path] = Torn(@)]
  /\ UNCHANGED <<mem, weights, modelFile, returned>> /\ GhostsKept

(* The weights are listed when the writer got at least one blob.             *)
WriteManifest ==
  /\ save.step = "manifest data" /\ AfterWriting("manifest")
  /\ manifest' = [manifest EXCEPT ![save.path] = File("whole", save.blobs # <<>>)]
  /\ UNCHANGED <<mem, weights, modelFile>> /\ GhostsKept

(* A directory or a file cannot be made or written: the save returns the      *)
(* error; what moved out of memory stays out.                                *)
Fail ==
  /\ save # Idle /\ Finish("error")
  /\ UNCHANGED <<mem, weights, modelFile, manifest>> /\ GhostsKept

(* The process dies; the next one builds the model again.                    *)
Crash ==
  /\ save' = Idle /\ mem' = Built
  /\ save # Idle \/ mem # Built
  /\ UNCHANGED <<weights, modelFile, manifest, returned>> /\ GhostsKept

Next ==
  \/ \E p \in Paths : SaveMLPackage(p) \/ SaveMLPackageWithBlobs(p)
  \/ \E threshold \in Thresholds : CreateWeights(threshold)
  \/ CloseWeights \/ TruncateModel \/ WriteModel \/ TruncateManifest \/ WriteManifest
  \/ Fail \/ Crash

Spec == Init /\ [][Next]_vars

-----------------------------------------------------------------------------
Steps == {"create", "weights", "model", "model data", "manifest", "manifest data"}
Refs == [Tensors -> 0..Cardinality(Tensors)]

(* Types; a weight file never holds more blobs than the model has tensors.   *)
TypeOK ==
  /\ mem \in Refs
  /\ \A p \in Paths :
       /\ {weights[p].state, modelFile[p].state, manifest[p].state}
            \subseteq {"absent", "torn", "whole"}
       /\ Len(weights[p].data) <= Cardinality(Tensors)
       /\ \A k \in DOMAIN weights[p].data : weights[p].data[k] \in Tensors \union {NoData}
       /\ modelFile[p].data \in Refs /\ manifest[p].data \in BOOLEAN
  /\ save = Idle \/ (save.path \in Paths /\ save.step \in Steps)
  /\ returned \in [Paths -> {"none", "ok", "ok blobs", "error"}]
  /\ clean \subseteq begun /\ begun \subseteq Paths /\ saves \in 0..MaxSaves

(* Every tensor the model file of package p refers to is in its weight file.  *)
Resolves(p) ==
  \A t \in Tensors :
    LET k == modelFile[p].data[t] IN
    \/ k = Inline
    \/ /\ Whole(weights[WeightFile(p)]) /\ k \in DOMAIN weights[WeightFile(p)].data
       /\ weights[WeightFile(p)].data[k] = t

(* A package a reader can load, with the tensors the model was built with.    *)
Published(p) == Whole(manifest[p]) /\ Whole(modelFile[p]) /\ Resolves(p)

(* SaveMLPackage(WithBlobs): at every moment, crashes included, a whole       *)
(* manifest means that the model file and the weights it refers to are whole. *)
ManifestPublishesWhole ==
  \A p \in clean : Whole(manifest[p]) => Published(p)

(* A save that returned nil left a complete package, whose manifest lists     *)
(* weight.bin exactly when some tensor refers to it.                          *)
OkMeansPublished ==
  \A p \in clean : returned[p] \in {"ok", "ok blobs"} =>
    /\ Published(p)
    /\ manifest[p].data = (\E t \in Tensors : modelFile[p].data[t] # Inline)

(* A complete package stays complete until a save of the same package begins: *)
(* later saves elsewhere, failures and crashes do not touch it.               *)
PublishedStays ==
  [][\A p \in clean : Published(p) /\ p \in clean' => Published(p)']_vars

(* serialize_blob.go:39: "saves a Model to an .mlpackage directory with blob  *)
(* storage. Large tensors are stored in an external weight.bin file": also    *)
(* when the model has been saved before.                                     *)
LargeTensorsStored == \A p \in Paths : returned[p] = "ok blobs" => Resolves(p)

=============================================================================
