# go-coreml in TLA+

Modules, model-checking configurations and proofs about go-coreml, a Go library
that builds Core ML programs (MIL), writes them to disk, runs them, and serves as a
backend of GoMLX. Paths below are relative to `src/`.

## The system

| Part | State | Operations | Talks to |
|---|---|---|---|
| MIL builder, `model/builder.go`, `model/ops.go` | inputs, operations, outputs, `values` by name, `nextID`, `err` | `Input`, `Const`, an operator per MIL operation, `Output`, `Build` | used by everything above it |
| Control flow, `model/ops_control_flow.go` | blocks with operations and names of their own | `Cond`, `WhileLoop`, `BlockBuilder` | calls back into the client, which calls the builder |
| Blob writer, `blob/writer.go`, `blob/format.go` | entries, offset, the file | `AddBlob`, `Close` | used by the packages |
| Packages, `model/serialize.go`, `model/serialize_blob.go` | three files per package, the model in memory | `SaveMLPackage`, `SaveMLPackageWithBlobs` | file system, blob writer |
| Runtime, `runtime/runtime.go`, `internal/bridge` | a native model, its directory, a mutex; process-wide compute units | `CompileProgram`, `Run`, `Close` | Core ML through the bridge |
| GoMLX executable, `gomlx/executable.go` | `runtime`, a mutex | `Execute`, `Finalize` | runtime, buffers |
| GoMLX buffers, `gomlx/buffer.go`, `gomlx/backend.go` | pools by type and size, `isFinalized` | `BufferFromFlatData`, `NewSharedBuffer`, `BufferFinalize`, `Finalize` | the garbage collector |
| GoMLX graph, `gomlx/builder.go`, `gomlx/function.go` | nodes, inputs, outputs, `compiled`; closures | operators, closures, `While`, `If`, `Compile` | MIL builder, runtime |
| Capabilities, registration, generated protobuf code | none | none | none |

What is hard in each part, and what correct means there:

- **Builder and control flow.** Operations refer to values by name; callbacks nest,
  and alternate between their block and the main builder. Correct means: a name
  means the value the client passed, declared types are those of definitions, and a
  rejected call leaves no trace.
- **Blob writer.** Offsets are promised before anything is written; each write may
  fail. Correct means: no two sections overlap, and a file that was closed without
  error has every blob at its promised offset.
- **Packages.** Three files, a failure or a crash between any two steps, and a model
  that changes in memory when it is saved. Correct means: the manifest is a commit
  record.
- **Runtime and executable.** Goroutines run, close and finalize one model under two
  mutexes; `Run` has many early returns. Correct means: no prediction on a freed
  model, one release, no lost tensors, every call returns.
- **Buffers.** Pools without a lock, an unsynchronised `isFinalized`. Correct means:
  a buffer has one user.
- **Graph.** A closure records nodes that `While` and `If` replay into a block,
  next to operations that are emitted the moment they are called. Correct means: a
  program that defines everything it refers to computes what the client asked for.
- **Lowering.** Many GoMLX operations become several MIL operations, and three
  parties count shapes: GoMLX, `ops.go` and Core ML. Correct means: they agree.
- **Compile.** Goroutines share the file system and one process-wide setting; any
  stage may fail and be tried again. Correct means: no directory is lost or shared,
  no model loses its files.

`PROJECT.json` lists each hazard at its line, with the properties that cover it.

## Modules

Each module's header says what it leaves out; `PROJECT.json` maps each definition to
the lines it models. `MC*` modules give the constants of the runs.

### `MILBuilder`, `MILBuilderProofs` - programs and names

`inputs`, `operations`, `outputs`, `values`, `nextID` and `err` are the fields of
`Builder`; `handles` is every value the client was ever given, by the main builder or
by a block. An active `Cond` or `WhileLoop` is an entry of the stack `frames`, with
the block its callback is filling; a callback that starts another one pushes a frame.
Every value has a ghost `home`: the scope that owns it, or the reason why nothing
defines it (a placeholder, the indices of `TopK`, a constant).

The code takes any `*Value` anywhere and emits its name unchecked, and so does the
model: any call, of the main builder or of any active block, takes any of `handles`,
those of blocks that are finished or were dropped included. A program can therefore
refer to a value that is out of scope, and the runs reach both ways this goes wrong. A
block's value used in the main block, or in another block, may be a name that nothing
defines there; and since every block counts its names from 0, inside another block it
may be captured by the local value of the same name. `DefinedBeforeUse` says exactly
what remains true of every program: a name meets a definition of the main block if
and only if the value passed is a main value defined before, a block's own value
resolves to its definition, and what is captured by a block's definition is a value of
some block - never a main value, a placeholder or a constant. GoMLX, the repository's
own client, passes no value of another block: that is `BlocksApart` of `GomlxGraph`.
One name stands for the names a client gives to a block's constants; a constant
predicate of `Cond` refers to it. Calls on a `BlockBuilder` whose callback has returned
are left out.

The operators are reduced to the kinds of control they have: unary with none or
two attribute constants (`relu`, `reduce_sum`: the attributes consume names),
binary with broadcast (`add`, `less`), the variadic `concat` with its error, and
`topk`, `identity`. Remaining operators repeat these patterns. Reductions are over
all axes; `concat` is along axis 0, with operands of any type, since the code
does not compare them. The constant `Clients` says which programs are tried: each
client has its operators, how deep it nests control flow, how many calls it makes, and
how many values it passes to `Concat` and `WhileLoop` and returns from a callback.

### `GomlxGraph`, `GomlxGraphProofs`, `GomlxGraphComplete` - functions, closures and their replay

`functions`, `nodes`, `inputs`, `mainFn` are the fields of the GoMLX `Builder` and
its `Function`s; `program` is the main block of the MIL program. What a node is
*for* is a term over the operations, `asked`; what the program computes for it is
the term its MIL value `means`. A MIL value also has a `home` (the main block, a
block of operation *i*, or nowhere: a placeholder) and is `whole` when everything
it is computed from is defined. In a closure most operations only record a node
with a placeholder (`Operation`); those without the closure check (`EagerOps`) emit
into the main program on whatever value their operands have. `While` and `If` are
the whole handlers: `topologicalSort` of the closure's outputs, one fresh block per
closure, and `replayClosureInBlock`, which takes block inputs for parameters,
recomputes the operations it knows and lets any other node stand for itself.

`Good` states, from the recorded graph alone, which nodes a client may rely on: loops
and branches keep to the operations the replay supports, to bound parameters and to
values of the main program, and the predicate of an `If` is no constant (`Cond` would
refer to it by a name nothing defines, the first of the disagreements below).
`SupportedIsComplete` compares it with what the replay produced.

### `Tensors`, `GomlxLowering` - what operations mean

`Tensors` defines tensors of integers and the meaning of transposition, slicing,
contraction, gathering, convolution and pooling. `GomlxLowering` has the handlers
of `function.go` that emit more than one MIL operation or turn one set of arguments
into another: reductions, `ArgMinMax`, `Slice`, `Pad`, `Reverse`, `Iota`,
`Concatenate`, `Where`, `Dot`, `DotGeneral`, `Gather`, `DynamicUpdateSlice`,
`ConvGeneral`, `ReduceWindow`. Each node has three results: `ref`, what GoMLX asks
for; `mil.shape`, what `ops.go` declares, translated formula by formula; and
`mil.real`, what the emitted operations compute. A node whose arguments are among
the disagreements below is marked `excused`; `DisagreementsAreReal` checks that
none is excused without need. Products are taken modulo a prime, to stay within
TLC's integers.

### `GomlxCompile`, `GomlxCompileProofs` - from a graph to a loaded model

Each goroutine has a runtime and a builder; `pc` is the stage of its `Compile`:
make a directory, save, compile, move, load. `marked` counts the outputs a builder has
listed, again on every call. `dirs` is what the file system has,
`coremlDirs` the directories Core ML makes on its own, `globalUnits` the variable
of `bridge.m`. Each stage may fail, which removes the temporary directory and
returns; the client may call again. `Close` of an executable removes its directory.
The order of the steps within a save, and within `Close`, is the subject of
`MLPackage` and `RuntimeExec`: here each is one step, since no other goroutine
knows the directory's name.

### `BlobStore`, `BlobWriter`, `BlobWriterProofs` - the weight file

`BlobStore` is the promise: every `AddBlob` answers with an offset no other blob has,
and a save makes every promised blob readable. `BlobWriter` is the code: `AddBlob`
reserves room, `Close` writes the header, then metadata and data of every entry
(`pc`, `next`), and any write may fail. The refinement maps entries to `promised`, and
`readable` to what the file yields; `KeepsPromise` is the abstract specification.

### `MLPackage`, `MLPackageProofs` - saving a model

`mem` is the model in memory: for each tensor, inline or an offset. `weights`,
`modelFile` and `manifest` are the files of each package: absent, torn or whole, with
their content. A save goes through its steps one write at a time, each of which first
truncates; `Fail` returns an error, `Crash` ends the process. `clean` and `begun` are
ghosts: packages that were saved once, from a fresh model.

### `RuntimeExec`, `RuntimeExecProofs` - one model, many goroutines

`pc` is where each goroutine is in `Execute`/`Run` or `Finalize`/`Close`; `outer` and
`inner` are the two mutexes, `layer` the API the client uses. `ins` and `outs` count
a call's open tensors; `leakedBy` collects the ends of `Run` that lost some.

### `BufferPool`, `BufferPoolProofs` - buffers

`heap` has the fields of each `Buffer`, `pools` the pairs of a pool's generation and
type with a buffer, `job` what each call knows. Reading `isFinalized`, loading the
pool, taking and putting are steps of their own. The collector may empty a pool.

## Runs

| Run | Expected | What it asks |
|---|---|---|
| `builder_results` | pass | programs of 3 calls of any kind and of 4 that add, compare and branch, with any value ever handed out as argument, control flow nested 2 deep; and 2 calls, or 3 of `Cond`, with two values each: names resolve as far as scopes allow, types agree, failures leave no trace |
| `builder_cond_predicate` | violation | a constant predicate becomes a reference to nothing |
| `builder_topk_indices` | violation | the indices of `TopK` can be used although nothing produces them |
| `blob_writer` | pass | layout, and refinement of `BlobStore`, with a failure at any write |
| `package_saves` | pass | 3 saves, 2 packages, failures and crashes at any step |
| `package_resave` | violation | a second save of one model writes a package without its tensors |
| `runtime_exec` | pass | 3 goroutines on one model, all error paths; every call returns |
| `runtime_missing_input` | violation | a missing input leaks the tensors created before it |
| `buffer_pool` | pass | 2 goroutines, 3 shapes, `Finalize` and the collector at any time |
| `gomlx_graph` | pass | loops over one and two variables, branches, control flow inside closures, captured values: a value whose names are all defined is the one asked for, and exactly the graphs that keep to what the replay supports, and branch on no constant, are complete |
| `gomlx_lowering` | pass | every call of a lowered operation over axes, permutations, windows and index patterns of small tensors: GoMLX, `ops.go` and Core ML agree but for the named disagreements |
| `gomlx_compile` | pass | 2 goroutines, 2 compiles each, a failure at any stage, closes at any time |

### Bounds, and why they suffice

Builder: two types, a Bool scalar and a Float32 vector, let every validation of `Cond`
and `WhileLoop` succeed and fail. Nesting of 2 is the least at which a callback's
main-builder calls happen inside another callback, and at which a callback can fill the
block of the call around it. Two values per call are the least that can be swapped or
misnumbered; since any value may be passed anywhere, the clients that do so make two
calls of any kind, or three of `Cond`. The client with three calls of any kind and the
one with four that add, compare, rename and branch pass one value, which is enough for a
value of one branch to be captured in the other. Blobs: sizes 0, 1, 63, 64 and 65 are
those at which `alignTo` changes its answer; four blobs give three gaps. Packages: three
saves are the least for a save after a save that failed, and a third of another package.
Two packages and the shared memory are the least for one save to lose data (below).
Thresholds are 1 and 1024 in `package_saves`, so that the small tensor is moved in one
case and stays in the other. Runtime: a third goroutine can come between two others; two
inputs and outputs are the least for a loop that fails half-way. Buffers: two buffers in
one pool and a shape with a pool of its own (the buffers are symmetric: they are only
compared and used: they are interchangeable and no property names one). Graph: each
outline in `MCGomlxGraph` declares functions and parameters first, in the order that
makes the named construct possible, and leaves every other choice open: operands,
captures, outputs, which closure is condition, body or branch. Two variables are the
least a loop can swap. Lowering: one operation per function, since a handler reads
nothing of its operands but dtype, shape and MIL value, and those of an operand agree as
soon as the properties hold for it (that a declared shape is used by a later operation
is argued this way, not run); elements differ from each other, so that one in the wrong
place is seen, and no two dimensions of a tensor that is permuted or contracted play the
same part. Compile: two goroutines and two calls each are the least that can disturb one
another and be tried again. Where there are theorems, they lift these bounds.

Deadlock is not checked: every model has a bounded number of calls, after which it
stops. That no goroutine waits for ever is the property `CallsReturn`.

### Fairness

Only `RuntimeExec` states fairness: weak fairness of each goroutine's steps inside a
call. The Go scheduler runs every runnable goroutine, and `sync.Mutex` hands the lock
to a waiter that has starved. A call is never forced to begin. Core ML's prediction is
taken to return.

## What is proved

The proofs are checked by TLAPS, for every value of the constants; the runs show the
same properties on small instances. 33 of the 38 properties the passing runs check
are theorems. Each proof module states an inductive invariant, proves that `Init`
implies it and that every action keeps it, and derives the properties.

`BlobWriterProofs`, from `SizeAssumption` (sizes are natural numbers): `TypeCorrect`,
`NoSectionOverwritten`, `EverySectionAligned`, `CloseIsComplete`, and
`WriterKeepsPromise`, the refinement of `BlobStore`. The invariant `IInv` says that
entries occupy aligned, increasing ranges below `offset` (`Layout`) and that the disk
has exactly the sections of the entries `Close` has gone through (`OnDisk`); the
second is needed because the header announces all entries before any is written.

`RuntimeExecProofs`, from `NobodyAssumption` and `CountsAssumption`: `TypeCorrect`,
`NoPredictionOnFreedModel`, `ModelFreedOnce`, `FinalizedIsAnError`,
`ErrorPathsCloseTensors`. The argument is mutual exclusion: `InnerHeld` and
`OuterHeld` say at which stages a goroutine holds which mutex, `ModelState` and
`GomlxState` what it knows of the model meanwhile, `TensorsOpen` which tensors are
open at which stage.

`GomlxCompileProofs` proves all five properties of `gomlx_compile`, for any set of
goroutines, any number of calls and units, under `CompileAssumption` (the default is one
of the units, "not set" is none of them, counts are natural): `TypeCorrect`,
`NoDirectoryLost`, `ModelsStayOnDisk`, `UnitsAsAskedFor`, `OnlyFailedMovesLeaveFiles`. A
directory is named by the goroutine and the number of the call that made it. The
invariant `DirInv` says that beyond `mkdir` a goroutine's directory is that of its
current call (`Calls`) and that the calls of executables are behind the counter of their
goroutine, all with different directories (`Stored`); so a call that begins has a name
nobody used, and removing one directory removes no other's. `UnitsInv` needs that an
executable was made by a goroutine with a runtime; `LeftInv` counts the directories of
Core ML's own with the library's facts on cardinalities: the one of a call under way is
there exactly while its move is due.

`BufferPoolProofs`, from `PoolKeyAssumption` and `NoneAssumption`: `TypeCorrect`,
`OneOwner`, `HandlesKeepTheirData`, `NoFalseAlarms`. A buffer is in one place: not
allocated, in one pool, in the hands of one call, in one handle, or dropped. `BufInv`
joins the three properties with `Places` and `Knows`, what a call knows at each stage
(a creation its shape, later a buffer whose slice fits it; a finalization a buffer
that is valid until it is checked): none of the properties is inductive alone, since
what a call does next depends on what it read before.

`MLPackageProofs`, from `SizesAssumption` and `TensorsAssumption`: `TypeCorrect`;
and under `OpaqueStay` - there are no tensors without bytes, or no threshold is 0 -
`ManifestComesLast`, `OkIsPublished` and `PublishedPackagesStay`. The hypothesis holds
for the documented default and is needed: with threshold 0 a Bool tensor is moved
without data. `PkgInv` says of a package being saved for the first time what each step
has left for the next one (`Progress`), and that a package nobody began has no files.

`MILBuilderProofs`: `TypeCorrect` and the action property `FailuresLeaveNoTrace` need no
hypothesis; `NamesAreUnique`, `UsesAreDefined`, `FlowsAgree` and `OutputSpecsAreRight`
assume `PlainNames`: no name the client gives is one that `genName`, `Cond` or
`WhileLoop` make up or one it gives to a block's constant. The builder documents no such
rule; without it the properties are false (a client's `add_0` is taken over by the first
addition). No theorem restricts which values the client passes where. `NameInv` has four
parts: the finished program is sound and the values map knows every definition
(`MainInv`), with each operation related to what the client held when it was added
(`ScopeBefore`); a value the client holds is a main value that is defined, or one whose
name the main block does not define and never will (`HeldInv`); each active callback has
a block that is sound as far as it goes (`FramesInv`) - needed because a callback's
main-builder calls extend the main block while the block waits; and a value that belongs
to a block being filled has a name that block defines (`OwnInv`), which is what makes a
block's own values resolve although values of other blocks may be passed beside them.

`GomlxGraphProofs`, from `BoundsAssumption` (a parent is created before its closures;
uses are counted in natural numbers): `TypeCorrect`, `NeverWrong`, `BlocksStayApart`,
for any functions, closures and nesting of loops and branches. The invariant
`GraphInv` has four parts: `Typed`; `FunctionsOK` (a closure that has returned replays
recorded nodes only) and `NodesOK` (a node refers to earlier ones, and its value
answers for it: when whole it means what was asked, and lives in the main block);
`ProgramOK` (every operation keeps to its block and the main block). The step that
carries them is that of a replay: if every value in `valueMap` answers for its node at
this block, then so does the value `replayNodeInBlock` adds, whether it recomputes the
node or lets it stand for itself. That the recursive functions `Sorted` and `Replayed`
exist, with the equations that define them, is proved by least counterexample.

`GomlxGraphComplete` extends it and proves `SupportedComplete`: a node is whole exactly
when `Good` says so. Soundness alone does not say what a closure replays, so the
invariant adds `Shaped`: the sorted nodes of a closure that has returned are in order of
creation, contain its outputs and are closed under inputs, and a `While` or `If` node
refers to closures that have returned. `Reach` and `Good` recur along nodes
(`ReachEquation`, `GoodEquation`); a step that appends a node or returns from a closure
changes for no older node where it may be relied on (`GoodStays`); and `ReplayWhole`
shows by induction over the sorted nodes that a value is whole in the block exactly
where `Good` has the block's closure.

Model-checked only: `GomlxLowering` (`TypeOK`, `ShapesAgree`,
`LoweringMeansTheSame`, `DisagreementsAreReal`) and liveness (`CallsReturn`), which is
out of the proof system's reach. Each handler of `GomlxLowering` is stated with folds,
sorted sets of axes and sums over the elements of tensors. What its operations compute
is an induction over that data. Its shapes are within reach in principle, but need a
theory of the folds and of sorting first, and for `DynamicUpdateSlice` also the
elements of the indices; nothing of it is proved. The inductions of the other modules
are over numbers and go through the least number in a set that refutes the claim; the
library's general induction theorems take an operator as a parameter, which the
installed provers cannot instantiate.

## Disagreements with the documentation

1. `Cond` refers to a constant predicate by a name nothing defines
   (`model/ops_control_flow.go:378`), although any scalar Bool value is allowed.
2. `TopK` returns indices that no operation produces (`model/ops.go:529`).
3. A second save of a model in memory writes a package without the tensors the first
   save moved out, and returns nil (`model/serialize_blob.go:164`).
4. `Run` leaks on a missing input (`runtime/runtime.go:160`).

Each has a violation run. The extraction error in `Run` (`runtime/runtime.go:212`)
leaks as well; `CleanupCoversPaths` lists it with the panics as the paths that do
not release everything. Some other hazards are modelled without a property that
would catch them, because no document says what should happen: an `AddBlob` after
`Close` answers with an offset (`BlobStore` permits it), runtimes that ask for
different compute units disturb one another (`OneSettingHolds` supposes that they ask
for the same), and a second `Compile` lists the outputs again. Nor does a run overwrite
an entry of `Builder.values`: the client's names are kept apart from generated ones.

What `LIMITATIONS.md` says about `While` and `If` is older than the code that is
modelled here.

The lowering disagrees with the meaning of the operation in these cases, each
*excused* in `GomlxLowering` and checked to be real by `DisagreementsAreReal`:

- `DynamicUpdateSlice` passes start indices on as they are, although its comment
  (`gomlx/function.go:2147`) says they are clamped.
- `ReduceWindow` makes a sum out of an average that leaves padding out, times the
  size of the whole window (`gomlx/function.go:2666`: "for correctness when
  padding"): where a window reaches into the padding the sum is too large. Strides
  and padding of the batch and channel axes are ignored.
- `Gather` leaves `offsetOutputAxes` and the sizes of the axes that are not
  gathered out (`gomlx/function.go:1929`). `TestGatherSlicesNonZeroAxis`
  (`gomlx/gather_test.go:657`) expects the order the code gives, while the comment
  on the shape in the same test supports the reference: here a test sides with the
  code against the operation's definition.
- `Pad` ignores `fillValue` and pads with zero.
- `Where` declares the branches' shape: with two scalar branches and a condition
  that is not scalar, the declared shape is a scalar.
- `ArgMinMax` records the dtype asked for on the node, while the MIL value is Int32.

`Dot` of vectors panics (`gomlx/function.go:843`), and so does `ConvGeneral` on
rank 3; `DotGeneral` does not reject duplicate axes.

Observations about the graph, which the properties take as they are: the replay's
cases for `LogicalAnd` cannot be reached, since no operation records one; `If` does
not check that its branches have no parameters; `Neg`, `Expm1`, `Log1p`, `Where`
and the reductions emit into the main program when called in a closure, although
the comment at `gomlx/function.go:325` says that closures build nothing eagerly, and
so does a `While` or `If` inside a closure; captured operations of the parent are
computed again in the block; `checkOps` checks neither the scope of an operand nor
whether the function has returned; parameters of every function made with
`NewFunction` become inputs of the model; a second `Compile` is not refused and
lists the outputs twice. Packages: an unset `BlobThreshold` is compared as 0,
although a default of 1024 is documented (`model/serialize_blob.go:26`, `:153`), and
Bool tensors are then moved without data.

## Not modelled, and why

- `ToModel`'s feature descriptions, `SaveMLModel`, `SetOpset`, `Build`: they copy
  fields into protobuf messages, no property is about the layout of those.
- Operators of `ops.go` that GoMLX never emits (Einsum, ConvTranspose, the
  normalisations): their naming repeats `MILBuilder`'s patterns, and nothing in the
  repository says what they are to compute except Core ML.
- Conversions between Go slices and native tensors (`createTensor`,
  `extractTensorData`, `fillFromRuntimeOutput`): their content is unsafe memory
  access, which is outside what a state machine over values says.
- `Call` and `Sort` only return an error; calls rejected by `checkOps` change
  nothing.
- Lowering: negative padding, dimensions of zero, a rank-0 operand of
  `DynamicUpdateSlice` and the rejections of GoMLX's own shape inference are not
  enumerated.
- Core ML is external: compiling, loading and predicting succeed or fail.
- Capability tables, build-tag stubs and generated code have no state.

## Plan

1. A theory of `Tensors` for proofs: `Size` of a concatenation, the sorted sequence of
   `Rest`, the inverse of a permutation; with it `GomlxLowering.TypeOK`.
2. The lowering's shape formulas (`ShapesAgree`) operation by operation, for any shape:
   linear arithmetic for slices and padding, division for windows.
3. `Run`'s element conversions as a model of lengths and types, if the properties
   find something to say beyond a copy.
