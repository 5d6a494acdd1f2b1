----------------------------- MODULE RuntimeExec -----------------------------
(***************************************************************************)
(* One compiled model while goroutines use it: runtime.Executable (Run,     *)
(* Close) and, around it, gomlx.Executable (Execute, Finalize).  Each has a *)
(* mutex, taken for the whole call; Execute holds both.  The client uses    *)
(* one of the two layers.  Native tensors live until they are closed: a     *)
(* tensor still open when its Run returns is lost.                          *)
(*                                                                          *)
(* Left out: the data in the tensors, errors of os.RemoveAll (ignored by    *)
(* the code).  CoreML's predict call is taken to return.                    *)
(***************************************************************************)
EXTENDS Integers, FiniteSets

CONSTANTS
  Threads,   \* goroutines
  NInputs,   \* inputs of the model
  NOutputs,  \* outputs of the model
  MaxCalls   \* bound: calls the goroutines make

ASSUME CountsAssumption == NInputs \in Nat /\ NOutputs \in Nat /\ MaxCalls \in Nat

VARIABLES
  layer,       \* the API the client uses: "gomlx" or "runtime"
  runtimeSet,  \* gomlx.Executable.runtime # nil
  modelSet,    \* runtime.Executable.model # nil
  handle,      \* the native model: "loaded" or "freed"
  frees,       \* ghost: how often it was freed
  tempDir,     \* the directory of the compiled model exists
  outer,       \* holder of gomlx.Executable.mu
  inner,       \* holder of runtime.Executable.mu
  pc,          \* goroutine -> where it is in its call
  supplied,    \* goroutine -> how many of the inputs its caller passed
  ins, outs,   \* goroutine -> native tensors its Run has open
  result,      \* goroutine -> how its last Run ended
  leakedBy,    \* ghost: the results of the Runs that lost tensors
  calls        \* bound: calls made

vars == <<layer, runtimeSet, modelSet, handle, frees, tempDir, outer, inner, pc,
          supplied, ins, outs, result, leakedBy, calls>>

owner == <<layer, runtimeSet, modelSet, handle, frees, tempDir>>
locks == <<outer, inner>>
tensors == <<ins, outs>>

Nobody == "nobody"

ASSUME NobodyAssumption == Nobody \notin Threads

Init ==
  /\ layer \in {"gomlx", "runtime"}
  /\ runtimeSet = TRUE /\ modelSet = TRUE /\ handle = "loaded" /\ frees = 0
  /\ tempDir = TRUE /\ outer = Nobody /\ inner = Nobody
  /\ pc = [t \in Threads |-> "idle"]
  /\ supplied = [t \in Threads |-> NInputs]
  /\ ins = [t \in Threads |-> 0] /\ outs = [t \in Threads |-> 0]
  /\ result = [t \in Threads |-> "none"]
  /\ leakedBy = {} /\ calls = 0

Goto(t, stage) == pc' = [pc EXCEPT ![t] = stage]

-----------------------------------------------------------------------------
(* Execute checks that it has one buffer per input; Run takes a map, which   *)
(* may lack any input: the first missing one is number supplied + 1.          *)
BeginExecute(t) ==
  /\ pc[t] = "idle" /\ calls < MaxCalls /\ calls' = calls + 1
  /\ Goto(t, IF layer = "gomlx" THEN "lock outer" ELSE "lock inner")
  /\ \E n \in 0..NInputs :
       /\ layer = "gomlx" => n = NInputs
       /\ supplied' = [supplied EXCEPT ![t] = n]
  /\ UNCHANGED <<owner, locks, tensors, result, leakedBy>>

BeginFinalize(t) ==
  /\ pc[t] = "idle" /\ calls < MaxCalls /\ calls' = calls + 1
  /\ Goto(t, IF layer = "gomlx" THEN "finalize: lock outer" ELSE "close: lock")
  /\ UNCHANGED <<owner, locks, tensors, supplied, result, leakedBy>>

(* gomlx.Executable.mu.Lock, in Execute and in Finalize.                     *)
LockOuter(t) ==
  /\ pc[t] \in {"lock outer", "finalize: lock outer"}
  /\ outer = Nobody /\ outer' = t
  /\ Goto(t, IF pc[t] = "lock outer" THEN "check" ELSE "finalize: check")
  /\ UNCHANGED <<owner, inner, tensors, supplied, result, leakedBy, calls>>

(* A finalized executable, or inputs that do not fit: Execute ends.           *)
CheckFails(t) ==
  /\ pc[t] = "check" /\ Goto(t, "idle") /\ outer' = Nobody
  /\ UNCHANGED <<owner, inner, tensors, supplied, result, leakedBy, calls>>

CheckNothing(t) ==
  /\ pc[t] = "check" /\ Goto(t, "lock inner")
  /\ UNCHANGED <<owner, locks, tensors, supplied, result, leakedBy, calls>>
CheckPasses(t) ==
  /\ pc[t] = "check" /\ runtimeSet /\ Goto(t, "lock inner")
  /\ UNCHANGED <<owner, locks, tensors, supplied, result, leakedBy, calls>>

-----------------------------------------------------------------------------
(* runtime.Executable.Run.                                                   *)

(* Run returns, or panics, having closed some of its tensors: the deferred    *)
(* Unlock runs either way.                                                   *)
ReturnFromRun(t, how, closedIns, closedOuts) ==
  /\ result' = [result EXCEPT ![t] = how]
  /\ leakedBy' = IF closedIns < ins[t] \/ closedOuts < outs[t]
                 THEN leakedBy \union {how} ELSE leakedBy
  /\ ins' = [ins EXCEPT ![t] = 0] /\ outs' = [outs EXCEPT ![t] = 0]
  /\ inner' = Nobody
  /\ Goto(t, IF layer = "gomlx" THEN "convert" ELSE "idle")
  /\ UNCHANGED <<owner, outer, supplied, calls>>

LockInnerFree(t) ==
  /\ pc[t] \in {"lock inner", "close: lock"}
  /\ inner' = t
  /\ Goto(t, IF pc[t] = "lock inner" THEN "inputs" ELSE "close: free")
  /\ UNCHANGED <<owner, outer, tensors, supplied, result, leakedBy, calls>>
LockInner(t) ==
  /\ pc[t] \in {"lock inner", "close: lock"}
  /\ inner = Nobody /\ inner' = t
  /\ Goto(t, IF pc[t] = "lock inner" THEN "inputs" ELSE "close: free")
  /\ UNCHANGED <<owner, outer, tensors, supplied, result, leakedBy, calls>>

CreateInputOffByOne(t) ==
  /\ pc[t] = "inputs" /\ ins[t] <= supplied[t]
  /\ ins' = [ins EXCEPT ![t] = @ + 1]
  /\ UNCHANGED <<owner, locks, pc, outs, supplied, result, leakedBy, calls>>
CreateInput(t) ==
  /\ pc[t] = "inputs" /\ ins[t] < supplied[t]
  /\ ins' = [ins EXCEPT ![t] = @ + 1]
  /\ UNCHANGED <<owner, locks, pc, outs, supplied, result, leakedBy, calls>>

(* An input tensor cannot be created: those before it are closed.             *)
InputFails(t) ==
  /\ pc[t] = "inputs" /\ ins[t] < supplied[t]
  /\ ReturnFromRun(t, "bad input", ins[t], 0)

(* An input the caller did not pass: those before it stay open.               *)
InputMissing(t) ==
  /\ pc[t] = "inputs" /\ ins[t] = supplied[t] /\ supplied[t] < NInputs
  /\ ReturnFromRun(t, "missing input", 0, 0)

(* createTensor takes the address of the first element: an empty slice, which *)
(* no gomlx buffer holds, makes it panic.                                    *)
InputEmpty(t) ==
  /\ pc[t] = "inputs" /\ layer = "runtime" /\ ins[t] < supplied[t]
  /\ ReturnFromRun(t, "panic", 0, 0)

InputsDone(t) ==
  /\ pc[t] = "inputs" /\ ins[t] = NInputs /\ Goto(t, "outputs")
  /\ UNCHANGED <<owner, locks, tensors, supplied, result, leakedBy, calls>>

CreateOutput(t) ==
  /\ pc[t] = "outputs" /\ outs[t] < NOutputs
  /\ outs' = [outs EXCEPT ![t] = @ + 1]
  /\ UNCHANGED <<owner, locks, pc, ins, supplied, result, leakedBy, calls>>

OutputFailsKeepingInputs(t) ==
  /\ pc[t] = "outputs" /\ outs[t] < NOutputs
  /\ ReturnFromRun(t, "no output", 0, outs[t])
OutputFails(t) ==
  /\ pc[t] = "outputs" /\ outs[t] < NOutputs
  /\ ReturnFromRun(t, "no output", NInputs, outs[t])

OutputsDone(t) ==
  /\ pc[t] = "outputs" /\ outs[t] = NOutputs /\ Goto(t, "predict")
  /\ UNCHANGED <<owner, locks, tensors, supplied, result, leakedBy, calls>>

(* Predict on a closed Executable dereferences a nil model.                   *)
Predict(t) ==
  /\ pc[t] = "predict"
  /\ \/ /\ modelSet /\ Goto(t, "predicting")
        /\ UNCHANGED <<owner, locks, tensors, supplied, result, leakedBy, calls>>
     \/ /\ ~modelSet /\ ReturnFromRun(t, "panic", 0, 0)

PredictionFails(t) ==
  /\ pc[t] = "predicting" /\ ReturnFromRun(t, "failed", NInputs, NOutputs)

PredictionReturns(t) ==
  /\ pc[t] = "predicting" /\ Goto(t, "extract")
  /\ ins' = [ins EXCEPT ![t] = 0]
  /\ UNCHANGED <<owner, locks, outs, supplied, result, leakedBy, calls>>

(* Outputs are extracted and closed one by one; the first whose element type  *)
(* cannot be extracted is closed too, and ends the loop.                      *)
ExtractOutput(t) ==
  /\ pc[t] = "extract" /\ outs[t] > 0
  /\ outs' = [outs EXCEPT ![t] = @ - 1]
  /\ UNCHANGED <<owner, locks, pc, ins, supplied, result, leakedBy, calls>>

ExtractFails(t) ==
  /\ pc[t] = "extract" /\ outs[t] > 0 /\ ReturnFromRun(t, "extract", 0, 1)

ExtractDone(t) ==
  /\ pc[t] = "extract" /\ outs[t] = 0 /\ ReturnFromRun(t, "ok", 0, 0)

(* Execute turns the results into buffers, or fails to, and unlocks.          *)
Convert(t) ==
  /\ pc[t] = "convert" /\ Goto(t, "idle") /\ outer' = Nobody
  /\ UNCHANGED <<owner, inner, tensors, supplied, result, leakedBy, calls>>

-----------------------------------------------------------------------------
(* runtime.Executable.Close, with gomlx.Executable.Finalize around it.        *)

FinalizeChecks(t) ==
  /\ pc[t] = "finalize: check"
  /\ \/ runtimeSet /\ Goto(t, "close: lock") /\ UNCHANGED outer
     \/ ~runtimeSet /\ Goto(t, "idle") /\ outer' = Nobody
  /\ UNCHANGED <<owner, inner, tensors, supplied, result, leakedBy, calls>>

FreeModelAgain(t) ==
  /\ pc[t] = "close: free" /\ Goto(t, "close: remove")
  /\ handle' = "freed" /\ frees' = frees + 1 /\ UNCHANGED modelSet
  /\ UNCHANGED <<layer, runtimeSet, tempDir, locks, tensors, supplied, result, leakedBy, calls>>
FreeModel(t) ==
  /\ pc[t] = "close: free" /\ Goto(t, "close: remove")
  /\ IF modelSet
     THEN handle' = "freed" /\ frees' = frees + 1 /\ modelSet' = FALSE
     ELSE UNCHANGED <<handle, frees, modelSet>>
  /\ UNCHANGED <<layer, runtimeSet, tempDir, locks, tensors, supplied, result, leakedBy, calls>>

RemoveTempDir(t) ==
  /\ pc[t] = "close: remove"
  /\ tempDir' = FALSE /\ inner' = Nobody
  /\ Goto(t, IF layer = "gomlx" THEN "finalize: clear" ELSE "idle")
  /\ UNCHANGED <<layer, runtimeSet, modelSet, handle, frees, outer, tensors, supplied,
                 result, leakedBy, calls>>

ClearRuntimeKeepingLock(t) ==
  /\ pc[t] = "finalize: clear" /\ Goto(t, "idle")
  /\ runtimeSet' = FALSE
  /\ UNCHANGED <<layer, modelSet, handle, frees, tempDir, locks, tensors, supplied,
                 result, leakedBy, calls>>
ClearRuntime(t) ==
  /\ pc[t] = "finalize: clear" /\ Goto(t, "idle")
  /\ runtimeSet' = FALSE /\ outer' = Nobody
  /\ UNCHANGED <<layer, modelSet, handle, frees, tempDir, inner, tensors, supplied,
                 result, leakedBy, calls>>

-----------------------------------------------------------------------------
(* What goroutine t does next once its call has begun.                       *)
Proceed(t) ==
  \/ LockOuter(t) \/ CheckFails(t) \/ CheckPasses(t) \/ LockInner(t)
  \/ CreateInput(t) \/ InputFails(t) \/ InputMissing(t) \/ InputEmpty(t) \/ InputsDone(t)
  \/ CreateOutput(t) \/ OutputFails(t) \/ OutputsDone(t)
  \/ Predict(t) \/ PredictionFails(t) \/ PredictionReturns(t)
  \/ ExtractOutput(t) \/ ExtractFails(t) \/ ExtractDone(t) \/ Convert(t)
  \/ FinalizeChecks(t) \/ FreeModel(t) \/ RemoveTempDir(t) \/ ClearRuntime(t)

Next == \E t \in Threads : BeginExecute(t) \/ BeginFinalize(t) \/ Proceed(t)

(* The scheduler runs every goroutine that can run, and a mutex is handed to  *)
(* a waiter: Go's mutex does not starve one.                                 *)
Spec == Init /\ [][Next]_vars /\ \A t \in Threads : WF_vars(Proceed(t))

-----------------------------------------------------------------------------
Stages == {"idle", "lock outer", "check", "lock inner", "inputs", "outputs", "predict",
           "predicting", "extract", "convert", "finalize: lock outer", "finalize: check",
           "close: lock", "close: free", "close: remove", "finalize: clear"}
Results == {"none", "ok", "bad input", "missing input", "no output", "failed", "extract",
            "panic"}

(* Types; a Run never has more tensors open than the model has inputs and     *)
(* outputs.                                                                  *)
TypeOK ==
  /\ layer \in {"gomlx", "runtime"} /\ handle \in {"loaded", "freed"}
  /\ runtimeSet \in BOOLEAN /\ modelSet \in BOOLEAN /\ tempDir \in BOOLEAN
  /\ frees \in Nat /\ calls \in 0..MaxCalls
  /\ outer \in Threads \union {Nobody} /\ inner \in Threads \union {Nobody}
  /\ pc \in [Threads -> Stages] /\ supplied \in [Threads -> 0..NInputs]
  /\ ins \in [Threads -> 0..NInputs] /\ outs \in [Threads -> 0..NOutputs]
  /\ result \in [Threads -> Results] /\ leakedBy \subseteq Results

(* Run against Close: a model is not freed, and its files are not removed,    *)
(* while a prediction runs on it.                                            *)
ModelAliveInPrediction ==
  \A t \in Threads : pc[t] = "predicting" => handle = "loaded" /\ tempDir

(* Close and Finalize, called by any goroutines in any order, free the native *)
(* model once, and its files outlive it.                                     *)
ReleasedOnceInOrder == frees <= 1 /\ (~tempDir => handle = "freed")

(* gomlx Execute racing Finalize reports an error: the nil model of a closed   *)
(* runtime.Executable is never reached.                                      *)
ExecuteNeverPanics == layer = "gomlx" => \A t \in Threads : result[t] # "panic"

(* Run: the paths that report a bad input, a bad output, a failed prediction  *)
(* or success close every native tensor.                                     *)
CleanupCoversPaths == leakedBy \subseteq {"missing input", "extract", "panic"}

(* Every call returns: the two mutexes are always taken in the same order and *)
(* released on every path.                                                   *)
CallsReturn == \A t \in Threads : pc[t] # "idle" ~> pc[t] = "idle"

(* runtime.go:165: Run, leaving its input loop early, is to "Clean up already  *)
(* created tensors".                                                         *)
EarlyReturnCleansUp == {"bad input", "missing input"} \cap leakedBy = {}

=============================================================================
