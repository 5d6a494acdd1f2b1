--------------------------- MODULE RuntimeExecProofs ---------------------------
(***************************************************************************)
(* The safety properties of RuntimeExec, for any number of goroutines,      *)
(* calls, inputs and outputs.  The argument is mutual exclusion: what a     *)
(* goroutine has learned about the model stays true as long as it holds the *)
(* mutex, since only the holder frees the model.                            *)
(***************************************************************************)
EXTENDS RuntimeExec, TLAPS

(* The stages of a call during which it holds a mutex.                       *)
Running == {"inputs", "outputs", "predict", "predicting", "extract"}
InnerStages == Running \union {"close: free", "close: remove"}
OuterOnly == {"check", "convert", "finalize: check", "finalize: clear"}
OuterStages == InnerStages \union OuterOnly \union {"lock inner", "close: lock"}

(* The inner mutex is held exactly between Lock and Unlock.                   *)
InnerHeld == \A t \in Threads : pc[t] \in InnerStages <=> inner = t

(* So is the outer one, when the client uses the outer layer.                 *)
OuterHeld ==
  \A t \in Threads :
    /\ layer = "gomlx" => (pc[t] \in OuterStages <=> outer = t)
    /\ layer = "runtime" => pc[t] \notin OuterOnly \union {"lock outer", "finalize: lock outer"}

(* The native model is loaded as long as it is set, and set when a prediction *)
(* runs; it is gone before its directory is.                                 *)
ModelState ==
  /\ handle = (IF modelSet THEN "loaded" ELSE "freed")
  /\ frees = (IF modelSet THEN 0 ELSE 1)
  /\ ~tempDir => ~modelSet
  /\ \A t \in Threads : /\ pc[t] = "predicting" => modelSet
                        /\ pc[t] = "close: remove" => ~modelSet

(* Through the outer layer, the model is set from Execute's check on, since    *)
(* Finalize clears runtime before it lets go of the mutex.                    *)
GomlxState ==
  layer = "gomlx" =>
    /\ \A t \in Threads : pc[t] \in {"lock inner"} \union Running => modelSet
    /\ runtimeSet /\ ~modelSet =>
         \E t \in Threads : pc[t] \in {"close: remove", "finalize: clear"}
    /\ \A t \in Threads : result[t] # "panic"

(* Where a call cannot have tensors open.                                     *)
TensorsOpen ==
  \A t \in Threads :
    /\ pc[t] \notin {"inputs", "outputs", "predict", "predicting"} => ins[t] = 0
    /\ pc[t] \notin {"outputs", "predict", "predicting", "extract"} => outs[t] = 0

IInv == /\ TypeOK /\ InnerHeld /\ OuterHeld /\ ModelState /\ GomlxState /\ TensorsOpen
        /\ CleanupCoversPaths

-----------------------------------------------------------------------------
LEMMA InitIInv == Init => IInv
  BY NobodyAssumption, CountsAssumption
  DEF Init, IInv, TypeOK, InnerHeld, OuterHeld, ModelState, GomlxState, TensorsOpen,
      CleanupCoversPaths, Stages, Results, Running, InnerStages, OuterOnly, OuterStages

-----------------------------------------------------------------------------
(* A call begins, and passes the outer mutex.                                *)

LEMMA BeginExecuteStep ==
  ASSUME NEW t \in Threads, IInv, BeginExecute(t)
  PROVE  IInv'
<1>1. TypeOK'
  <2>1. calls < MaxCalls
    BY DEF BeginExecute
  <2>2. calls + 1 \in 0..MaxCalls
    BY <2>1, CountsAssumption DEF IInv, TypeOK
  <2> QED
    BY ZenonT(40), <2>2 DEF IInv, TypeOK, Stages, Results, BeginExecute, owner, locks, tensors, Goto
<1>2. InnerHeld' /\ OuterHeld'
  BY NobodyAssumption DEF IInv, TypeOK, InnerHeld, OuterHeld, OuterStages, OuterOnly, InnerStages, Running,
           BeginExecute, owner, locks, tensors, Goto
<1>3. ModelState'
  BY NobodyAssumption DEF IInv, TypeOK, ModelState, InnerHeld, InnerStages, Running,
           BeginExecute, owner, locks, tensors, Goto
<1>4. GomlxState'
  BY NobodyAssumption DEF IInv, TypeOK, GomlxState, ModelState, OuterHeld, OuterStages, OuterOnly,
           InnerStages, Running,
           BeginExecute, owner, locks, tensors, Goto
<1>5. TensorsOpen' /\ CleanupCoversPaths'
  BY DEF IInv, TypeOK, TensorsOpen,
           CleanupCoversPaths,
           BeginExecute, owner, locks, tensors, Goto
<1> QED
  BY <1>1, <1>2, <1>3, <1>4, <1>5 DEF IInv

LEMMA BeginFinalizeStep ==
  ASSUME NEW t \in Threads, IInv, BeginFinalize(t)
  PROVE  IInv'
<1>1. TypeOK'
  <2>1. calls < MaxCalls
    BY DEF BeginFinalize
  <2>2. calls + 1 \in 0..MaxCalls
    BY <2>1, CountsAssumption DEF IInv, TypeOK
  <2> QED
    BY <2>2 DEF IInv, TypeOK, Stages, Results, BeginFinalize, owner, locks, tensors, Goto
<1>2. InnerHeld' /\ OuterHeld'
  BY NobodyAssumption DEF IInv, TypeOK, InnerHeld, OuterHeld, OuterStages, OuterOnly, InnerStages, Running,
           BeginFinalize, owner, locks, tensors, Goto
<1>3. ModelState'
  BY NobodyAssumption DEF IInv, TypeOK, ModelState, InnerHeld, InnerStages, Running,
           BeginFinalize, owner, locks, tensors, Goto
<1>4. GomlxState'
  BY NobodyAssumption DEF IInv, TypeOK, GomlxState, ModelState, OuterHeld, OuterStages, OuterOnly,
           InnerStages, Running,
           BeginFinalize, owner, locks, tensors, Goto
<1>5. TensorsOpen' /\ CleanupCoversPaths'
  BY DEF IInv, TypeOK, TensorsOpen,
           CleanupCoversPaths,
           BeginFinalize, owner, locks, tensors, Goto
<1> QED
  BY <1>1, <1>2, <1>3, <1>4, <1>5 DEF IInv

LEMMA LockOuterStep ==
  ASSUME NEW t \in Threads, IInv, LockOuter(t)
  PROVE  IInv'
<1>1. TypeOK'
  BY CountsAssumption DEF IInv, TypeOK, Stages, Results,
           LockOuter, owner, locks, tensors, Goto
<1>2. InnerHeld' /\ OuterHeld'
  BY NobodyAssumption DEF IInv, TypeOK, InnerHeld, OuterHeld, OuterStages, OuterOnly, InnerStages, Running,
           LockOuter, owner, locks, tensors, Goto
<1>3. ModelState'
  BY NobodyAssumption DEF IInv, TypeOK, ModelState, InnerHeld, InnerStages, Running,
           LockOuter, owner, locks, tensors, Goto
<1>4. GomlxState'
  BY NobodyAssumption DEF IInv, TypeOK, GomlxState, ModelState, OuterHeld, OuterStages, OuterOnly,
           InnerStages, Running,
           LockOuter, owner, locks, tensors, Goto
<1>5. TensorsOpen' /\ CleanupCoversPaths'
  BY DEF IInv, TypeOK, TensorsOpen,
           CleanupCoversPaths,
           LockOuter, owner, locks, tensors, Goto
<1> QED
  BY <1>1, <1>2, <1>3, <1>4, <1>5 DEF IInv

LEMMA CheckFailsStep ==
  ASSUME NEW t \in Threads, IInv, CheckFails(t)
  PROVE  IInv'
<1>1. TypeOK'
  BY CountsAssumption DEF IInv, TypeOK, Stages, Results,
           CheckFails, owner, locks, tensors, Goto
<1>2. InnerHeld' /\ OuterHeld'
  BY NobodyAssumption DEF IInv, TypeOK, InnerHeld, OuterHeld, OuterStages, OuterOnly, InnerStages, Running,
           CheckFails, owner, locks, tensors, Goto
<1>3. ModelState'
  BY NobodyAssumption DEF IInv, TypeOK, ModelState, InnerHeld, InnerStages, Running,
           CheckFails, owner, locks, tensors, Goto
<1>4. GomlxState'
  BY NobodyAssumption DEF IInv, TypeOK, GomlxState, ModelState, OuterHeld, OuterStages, OuterOnly,
           InnerStages, Running,
           CheckFails, owner, locks, tensors, Goto
<1>5. TensorsOpen' /\ CleanupCoversPaths'
  BY DEF IInv, TypeOK, TensorsOpen,
           CleanupCoversPaths,
           CheckFails, owner, locks, tensors, Goto
<1> QED
  BY <1>1, <1>2, <1>3, <1>4, <1>5 DEF IInv

LEMMA CheckPassesStep ==
  ASSUME NEW t \in Threads, IInv, CheckPasses(t)
  PROVE  IInv'
<1>1. TypeOK'
  BY CountsAssumption DEF IInv, TypeOK, Stages, Results,
           CheckPasses, owner, locks, tensors, Goto
<1>2. InnerHeld' /\ OuterHeld'
  BY NobodyAssumption DEF IInv, TypeOK, InnerHeld, OuterHeld, OuterStages, OuterOnly, InnerStages, Running,
           CheckPasses, owner, locks, tensors, Goto
<1>3. ModelState'
  BY NobodyAssumption DEF IInv, TypeOK, ModelState, InnerHeld, InnerStages, Running,
           CheckPasses, owner, locks, tensors, Goto
<1>4. GomlxState'
  BY NobodyAssumption DEF IInv, TypeOK, GomlxState, ModelState, OuterHeld, OuterStages, OuterOnly,
           InnerStages, Running,
           CheckPasses, owner, locks, tensors, Goto
<1>5. TensorsOpen' /\ CleanupCoversPaths'
  BY DEF IInv, TypeOK, TensorsOpen,
           CleanupCoversPaths,
           CheckPasses, owner, locks, tensors, Goto
<1> QED
  BY <1>1, <1>2, <1>3, <1>4, <1>5 DEF IInv

-----------------------------------------------------------------------------
(* Run.  All its ways to return release the inner mutex; those that may be    *)
(* taken with tensors open and unclosed are the ones CleanupCoversPaths names. *)

LEMMA NotLess == \A n \in Nat : ~(n < n)
  OBVIOUS

LEMMA ZeroIsACount == 0 \in 0..NInputs /\ 0 \in 0..NOutputs
  BY CountsAssumption

LEMMA ReturnFromRunStep ==
  ASSUME NEW t \in Threads, IInv, NEW how \in Results, NEW closedIns, NEW closedOuts,
         ReturnFromRun(t, how, closedIns, closedOuts),
         pc[t] \in Running,
         how = "panic" => layer = "runtime",
         closedIns < ins[t] \/ closedOuts < outs[t] =>
           how \in {"missing input", "extract", "panic"}
  PROVE  IInv'
<1> USE ZeroIsACount
<1>1. TypeOK'
  BY CountsAssumption DEF IInv, TypeOK, Stages, Results,
           ReturnFromRun, owner, Goto, Running
<1>2. InnerHeld' /\ OuterHeld'
  BY NobodyAssumption DEF IInv, TypeOK, InnerHeld, OuterHeld, OuterStages, OuterOnly, InnerStages, Running,
           ReturnFromRun, owner, Goto
<1>3. ModelState'
  BY NobodyAssumption DEF IInv, TypeOK, ModelState, InnerHeld, InnerStages, Running,
           ReturnFromRun, owner, Goto
<1>4. GomlxState'
  BY NobodyAssumption DEF IInv, TypeOK, GomlxState, ModelState, OuterHeld, OuterStages, OuterOnly,
           InnerStages, Running,
           ReturnFromRun, owner, Goto
<1>5. TensorsOpen' /\ CleanupCoversPaths'
  BY DEF IInv, TypeOK, TensorsOpen,
           CleanupCoversPaths,
           ReturnFromRun, owner, Goto, Running
<1> QED
  BY <1>1, <1>2, <1>3, <1>4, <1>5 DEF IInv

LEMMA LockInnerStep ==
  ASSUME NEW t \in Threads, IInv, LockInner(t)
  PROVE  IInv'
<1>1. TypeOK'
  BY CountsAssumption DEF IInv, TypeOK, Stages, Results,
           LockInner, owner, locks, tensors, Goto
<1>2. InnerHeld' /\ OuterHeld'
  BY NobodyAssumption DEF IInv, TypeOK, InnerHeld, OuterHeld, OuterStages, OuterOnly, InnerStages, Running,
           LockInner, owner, locks, tensors, Goto
<1>3. ModelState'
  BY NobodyAssumption DEF IInv, TypeOK, ModelState, InnerHeld, InnerStages, Running,
           LockInner, owner, locks, tensors, Goto
<1>4. GomlxState'
  BY NobodyAssumption DEF IInv, TypeOK, GomlxState, ModelState, OuterHeld, OuterStages, OuterOnly,
           InnerStages, Running,
           LockInner, owner, locks, tensors, Goto
<1>5. TensorsOpen' /\ CleanupCoversPaths'
  BY DEF IInv, TypeOK, TensorsOpen,
           CleanupCoversPaths,
           LockInner, owner, locks, tensors, Goto
<1> QED
  BY <1>1, <1>2, <1>3, <1>4, <1>5 DEF IInv

LEMMA CreateInputStep ==
  ASSUME NEW t \in Threads, IInv, CreateInput(t)
  PROVE  IInv'
<1>1. TypeOK'
  <2>1. ins[t] < supplied[t]
    BY DEF CreateInput
  <2>2. ins[t] + 1 \in 0..NInputs
    BY <2>1, CountsAssumption DEF IInv, TypeOK
  <2> QED
    BY <2>2 DEF IInv, TypeOK, Stages, Results, CreateInput, owner, locks, tensors, Goto
<1>2. InnerHeld' /\ OuterHeld'
  BY NobodyAssumption DEF IInv, TypeOK, InnerHeld, OuterHeld, OuterStages, OuterOnly, InnerStages, Running,
           CreateInput, owner, locks, tensors, Goto
<1>3. ModelState'
  BY NobodyAssumption DEF IInv, TypeOK, ModelState, InnerHeld, InnerStages, Running,
           CreateInput, owner, locks, tensors, Goto
<1>4. GomlxState'
  BY NobodyAssumption DEF IInv, TypeOK, GomlxState, ModelState, OuterHeld, OuterStages, OuterOnly,
           InnerStages, Running,
           CreateInput, owner, locks, tensors, Goto
<1>5. TensorsOpen' /\ CleanupCoversPaths'
  BY DEF IInv, TypeOK, TensorsOpen,
           CleanupCoversPaths,
           CreateInput, owner, locks, tensors, Goto
<1> QED
  BY <1>1, <1>2, <1>3, <1>4, <1>5 DEF IInv

LEMMA InputFailsStep ==
  ASSUME NEW t \in Threads, IInv, InputFails(t)
  PROVE  IInv'
<1>1. /\ ins[t] \in Nat /\ ins[t] <= NInputs
      /\ outs[t] \in Nat /\ outs[t] <= NOutputs
  BY CountsAssumption DEF IInv, TypeOK
<1>2. ~(ins[t] < ins[t])
  BY <1>1, NotLess
<1>3. ~(0 < outs[t])
  <2>1. outs[t] = 0
    BY DEF IInv, TensorsOpen, InputFails
  <2> QED
    BY <2>1, NotLess
<1> QED
  BY <1>2, <1>3, ReturnFromRunStep DEF InputFails, Running, Results

LEMMA InputMissingStep ==
  ASSUME NEW t \in Threads, IInv, InputMissing(t)
  PROVE  IInv'
  BY ReturnFromRunStep DEF InputMissing, Running, Results

LEMMA InputEmptyStep ==
  ASSUME NEW t \in Threads, IInv, InputEmpty(t)
  PROVE  IInv'
  BY ReturnFromRunStep DEF InputEmpty, Running, Results

LEMMA InputsDoneStep ==
  ASSUME NEW t \in Threads, IInv, InputsDone(t)
  PROVE  IInv'
<1>1. TypeOK'
  BY CountsAssumption DEF IInv, TypeOK, Stages, Results,
           InputsDone, owner, locks, tensors, Goto
<1>2. InnerHeld' /\ OuterHeld'
  BY NobodyAssumption DEF IInv, TypeOK, InnerHeld, OuterHeld, OuterStages, OuterOnly, InnerStages, Running,
           InputsDone, owner, locks, tensors, Goto
<1>3. ModelState'
  BY NobodyAssumption DEF IInv, TypeOK, ModelState, InnerHeld, InnerStages, Running,
           InputsDone, owner, locks, tensors, Goto
<1>4. GomlxState'
  BY NobodyAssumption DEF IInv, TypeOK, GomlxState, ModelState, OuterHeld, OuterStages, OuterOnly,
           InnerStages, Running,
           InputsDone, owner, locks, tensors, Goto
<1>5. TensorsOpen' /\ CleanupCoversPaths'
  BY DEF IInv, TypeOK, TensorsOpen,
           CleanupCoversPaths,
           InputsDone, owner, locks, tensors, Goto
<1> QED
  BY <1>1, <1>2, <1>3, <1>4, <1>5 DEF IInv

LEMMA CreateOutputStep ==
  ASSUME NEW t \in Threads, IInv, CreateOutput(t)
  PROVE  IInv'
<1>1. TypeOK'
  <2>1. outs[t] < NOutputs
    BY DEF CreateOutput
  <2>2. outs[t] + 1 \in 0..NOutputs
    BY <2>1, CountsAssumption DEF IInv, TypeOK
  <2> QED
    BY <2>2 DEF IInv, TypeOK, Stages, Results, CreateOutput, owner, locks, tensors, Goto
<1>2. InnerHeld' /\ OuterHeld'
  BY NobodyAssumption DEF IInv, TypeOK, InnerHeld, OuterHeld, OuterStages, OuterOnly, InnerStages, Running,
           CreateOutput, owner, locks, tensors, Goto
<1>3. ModelState'
  BY NobodyAssumption DEF IInv, TypeOK, ModelState, InnerHeld, InnerStages, Running,
           CreateOutput, owner, locks, tensors, Goto
<1>4. GomlxState'
  BY NobodyAssumption DEF IInv, TypeOK, GomlxState, ModelState, OuterHeld, OuterStages, OuterOnly,
           InnerStages, Running,
           CreateOutput, owner, locks, tensors, Goto
<1>5. TensorsOpen' /\ CleanupCoversPaths'
  BY DEF IInv, TypeOK, TensorsOpen,
           CleanupCoversPaths,
           CreateOutput, owner, locks, tensors, Goto
<1> QED
  BY <1>1, <1>2, <1>3, <1>4, <1>5 DEF IInv

LEMMA OutputFailsStep ==
  ASSUME NEW t \in Threads, IInv, OutputFails(t)
  PROVE  IInv'
<1>1. /\ ins[t] \in Nat /\ ins[t] <= NInputs
      /\ outs[t] \in Nat /\ outs[t] <= NOutputs
  BY CountsAssumption DEF IInv, TypeOK
<1>2. ~(NInputs < ins[t])
  BY <1>1, CountsAssumption
<1>3. ~(outs[t] < outs[t])
  BY <1>1, NotLess
<1> QED
  BY <1>2, <1>3, ReturnFromRunStep DEF OutputFails, Running, Results

LEMMA OutputsDoneStep ==
  ASSUME NEW t \in Threads, IInv, OutputsDone(t)
  PROVE  IInv'
<1>1. TypeOK'
  BY CountsAssumption DEF IInv, TypeOK, Stages, Results,
           OutputsDone, owner, locks, tensors, Goto
<1>2. InnerHeld' /\ OuterHeld'
  BY NobodyAssumption DEF IInv, TypeOK, InnerHeld, OuterHeld, OuterStages, OuterOnly, InnerStages, Running,
           OutputsDone, owner, locks, tensors, Goto
<1>3. ModelState'
  BY NobodyAssumption DEF IInv, TypeOK, ModelState, InnerHeld, InnerStages, Running,
           OutputsDone, owner, locks, tensors, Goto
<1>4. GomlxState'
  BY NobodyAssumption DEF IInv, TypeOK, GomlxState, ModelState, OuterHeld, OuterStages, OuterOnly,
           InnerStages, Running,
           OutputsDone, owner, locks, tensors, Goto
<1>5. TensorsOpen' /\ CleanupCoversPaths'
  BY DEF IInv, TypeOK, TensorsOpen,
           CleanupCoversPaths,
           OutputsDone, owner, locks, tensors, Goto
<1> QED
  BY <1>1, <1>2, <1>3, <1>4, <1>5 DEF IInv

LEMMA ModelIsSet ==
  ASSUME NEW t \in Threads, IInv, Predict(t)
  PROVE  layer = "gomlx" => modelSet
  BY DEF IInv, GomlxState, Predict, Running

LEMMA PredictStep ==
  ASSUME NEW t \in Threads, IInv, Predict(t)
  PROVE  IInv'
<1>1. CASE ~modelSet
  <2>1. ReturnFromRun(t, "panic", 0, 0)
    BY <1>1 DEF Predict
  <2>2. layer = "runtime"
    BY <1>1, ModelIsSet DEF IInv, TypeOK
  <2> QED
    BY <2>1, <2>2, ReturnFromRunStep DEF Predict, Running, Results
<1>2. CASE modelSet
  <2>1. TypeOK'
    BY <1>2, CountsAssumption DEF IInv, TypeOK, Stages, Results,
             Predict, owner, locks, tensors, Goto
  <2>2. InnerHeld' /\ OuterHeld'
    BY <1>2, NobodyAssumption DEF IInv, TypeOK, InnerHeld, OuterHeld, OuterStages, OuterOnly, InnerStages, Running,
             Predict, owner, locks, tensors, Goto
  <2>3. ModelState'
    BY <1>2, NobodyAssumption DEF IInv, TypeOK, ModelState, InnerHeld, InnerStages, Running,
             Predict, owner, locks, tensors, Goto
  <2>4. GomlxState'
    BY <1>2, NobodyAssumption DEF IInv, TypeOK, GomlxState, ModelState, OuterHeld, OuterStages, OuterOnly,
           InnerStages, Running,
             Predict, owner, locks, tensors, Goto
  <2>5. TensorsOpen' /\ CleanupCoversPaths'
    BY <1>2 DEF IInv, TypeOK, TensorsOpen,
           CleanupCoversPaths,
             Predict, owner, locks, tensors, Goto
  <2> QED
    BY <2>1, <2>2, <2>3, <2>4, <2>5 DEF IInv
<1> QED
  BY <1>1, <1>2

LEMMA PredictionFailsStep ==
  ASSUME NEW t \in Threads, IInv, PredictionFails(t)
  PROVE  IInv'
<1>1. /\ ins[t] \in Nat /\ ins[t] <= NInputs
      /\ outs[t] \in Nat /\ outs[t] <= NOutputs
  BY CountsAssumption DEF IInv, TypeOK
<1>2. ~(NInputs < ins[t])
  BY <1>1, CountsAssumption
<1>3. ~(NOutputs < outs[t])
  BY <1>1, CountsAssumption
<1> QED
  BY <1>2, <1>3, ReturnFromRunStep DEF PredictionFails, Running, Results

LEMMA PredictionReturnsStep ==
  ASSUME NEW t \in Threads, IInv, PredictionReturns(t)
  PROVE  IInv'
<1>1. TypeOK'
  <2>1. pc[t] = "predicting"
    BY DEF PredictionReturns
  <2>2. 0 \in 0..NInputs
    BY <2>1, CountsAssumption DEF IInv, TypeOK
  <2> QED
    BY <2>2 DEF IInv, TypeOK, Stages, Results, PredictionReturns, owner, locks, tensors, Goto
<1>2. InnerHeld' /\ OuterHeld'
  BY NobodyAssumption DEF IInv, TypeOK, InnerHeld, OuterHeld, OuterStages, OuterOnly, InnerStages, Running,
           PredictionReturns, owner, locks, tensors, Goto
<1>3. ModelState'
  BY NobodyAssumption DEF IInv, TypeOK, ModelState, InnerHeld, InnerStages, Running,
           PredictionReturns, owner, locks, tensors, Goto
<1>4. GomlxState'
  BY NobodyAssumption DEF IInv, TypeOK, GomlxState, ModelState, OuterHeld, OuterStages, OuterOnly,
           InnerStages, Running,
           PredictionReturns, owner, locks, tensors, Goto
<1>5. TensorsOpen' /\ CleanupCoversPaths'
  BY DEF IInv, TypeOK, TensorsOpen,
           CleanupCoversPaths,
           PredictionReturns, owner, locks, tensors, Goto
<1> QED
  BY <1>1, <1>2, <1>3, <1>4, <1>5 DEF IInv

LEMMA ExtractOutputStep ==
  ASSUME NEW t \in Threads, IInv, ExtractOutput(t)
  PROVE  IInv'
<1>1. TypeOK'
  <2>1. outs[t] > 0
    BY DEF ExtractOutput
  <2>2. outs[t] - 1 \in 0..NOutputs
    BY <2>1, CountsAssumption DEF IInv, TypeOK
  <2> QED
    BY <2>2 DEF IInv, TypeOK, Stages, Results, ExtractOutput, owner, locks, tensors, Goto
<1>2. InnerHeld' /\ OuterHeld'
  BY NobodyAssumption DEF IInv, TypeOK, InnerHeld, OuterHeld, OuterStages, OuterOnly, InnerStages, Running,
           ExtractOutput, owner, locks, tensors, Goto
<1>3. ModelState'
  BY NobodyAssumption DEF IInv, TypeOK, ModelState, InnerHeld, InnerStages, Running,
           ExtractOutput, owner, locks, tensors, Goto
<1>4. GomlxState'
  BY NobodyAssumption DEF IInv, TypeOK, GomlxState, ModelState, OuterHeld, OuterStages, OuterOnly,
           InnerStages, Running,
           ExtractOutput, owner, locks, tensors, Goto
<1>5. TensorsOpen' /\ CleanupCoversPaths'
  BY DEF IInv, TypeOK, TensorsOpen,
           CleanupCoversPaths,
           ExtractOutput, owner, locks, tensors, Goto
<1> QED
  BY <1>1, <1>2, <1>3, <1>4, <1>5 DEF IInv

LEMMA ExtractFailsStep ==
  ASSUME NEW t \in Threads, IInv, ExtractFails(t)
  PROVE  IInv'
  BY ReturnFromRunStep DEF ExtractFails, Running, Results

LEMMA ExtractDoneStep ==
  ASSUME NEW t \in Threads, IInv, ExtractDone(t)
  PROVE  IInv'
<1>1. /\ ins[t] \in Nat /\ ins[t] <= NInputs
      /\ outs[t] \in Nat /\ outs[t] <= NOutputs
  BY CountsAssumption DEF IInv, TypeOK
<1>2. ~(0 < ins[t])
  <2>1. ins[t] = 0
    BY DEF IInv, TensorsOpen, ExtractDone
  <2> QED
    BY <2>1, NotLess
<1>3. ~(0 < outs[t])
  <2>1. outs[t] = 0
    BY DEF IInv, TensorsOpen, ExtractDone
  <2> QED
    BY <2>1, NotLess
<1> QED
  BY <1>2, <1>3, ReturnFromRunStep DEF ExtractDone, Running, Results

LEMMA ConvertStep ==
  ASSUME NEW t \in Threads, IInv, Convert(t)
  PROVE  IInv'
<1>1. TypeOK'
  BY CountsAssumption DEF IInv, TypeOK, Stages, Results,
           Convert, owner, locks, tensors, Goto
<1>2. InnerHeld' /\ OuterHeld'
  BY NobodyAssumption DEF IInv, TypeOK, InnerHeld, OuterHeld, OuterStages, OuterOnly, InnerStages, Running,
           Convert, owner, locks, tensors, Goto
<1>3. ModelState'
  BY NobodyAssumption DEF IInv, TypeOK, ModelState, InnerHeld, InnerStages, Running,
           Convert, owner, locks, tensors, Goto
<1>4. GomlxState'
  BY NobodyAssumption DEF IInv, TypeOK, GomlxState, ModelState, OuterHeld, OuterStages, OuterOnly,
           InnerStages, Running,
           Convert, owner, locks, tensors, Goto
<1>5. TensorsOpen' /\ CleanupCoversPaths'
  BY DEF IInv, TypeOK, TensorsOpen,
           CleanupCoversPaths,
           Convert, owner, locks, tensors, Goto
<1> QED
  BY <1>1, <1>2, <1>3, <1>4, <1>5 DEF IInv

-----------------------------------------------------------------------------
(* Close and Finalize.                                                        *)

LEMMA FinalizeChecksStep ==
  ASSUME NEW t \in Threads, IInv, FinalizeChecks(t)
  PROVE  IInv'
<1>1. TypeOK'
  BY CountsAssumption DEF IInv, TypeOK, Stages, Results,
           FinalizeChecks, owner, locks, tensors, Goto
<1>2. InnerHeld' /\ OuterHeld'
  BY ZenonT(40), NobodyAssumption
  DEF IInv, TypeOK, InnerHeld, OuterHeld, OuterStages, OuterOnly, InnerStages, Running,
           FinalizeChecks, owner, locks, tensors, Goto
<1>3. ModelState'
  BY NobodyAssumption DEF IInv, TypeOK, ModelState, InnerHeld, InnerStages, Running,
           FinalizeChecks, owner, locks, tensors, Goto
<1>4. GomlxState'
  BY NobodyAssumption DEF IInv, TypeOK, GomlxState, ModelState, OuterHeld, OuterStages, OuterOnly,
           InnerStages, Running,
           FinalizeChecks, owner, locks, tensors, Goto
<1>5. TensorsOpen' /\ CleanupCoversPaths'
  BY DEF IInv, TypeOK, TensorsOpen,
           CleanupCoversPaths,
           FinalizeChecks, owner, locks, tensors, Goto
<1> QED
  BY <1>1, <1>2, <1>3, <1>4, <1>5 DEF IInv

LEMMA FreeModelStep ==
  ASSUME NEW t \in Threads, IInv, FreeModel(t)
  PROVE  IInv'
<1>1. TypeOK'
  <2>1. frees \in Nat
    BY DEF IInv, TypeOK
  <2>2. frees + 1 \in Nat
    BY <2>1
  <2> QED
    BY <2>2 DEF IInv, TypeOK, Stages, Results, FreeModel, owner, locks, tensors, Goto
<1>2. InnerHeld' /\ OuterHeld'
  BY NobodyAssumption DEF IInv, TypeOK, InnerHeld, OuterHeld, OuterStages, OuterOnly, InnerStages, Running,
           FreeModel, owner, locks, tensors, Goto
<1>3. ModelState'
  <2>1. \A u \in Threads : pc'[u] = "predicting" => u = t
    BY DEF IInv, InnerHeld, InnerStages, Running, FreeModel, TypeOK, Goto
  <2>2. pc'[t] = "close: remove"
    BY DEF IInv, TypeOK, FreeModel, Goto
  <2>3. CASE modelSet
    <3>1. handle' = "freed" /\ modelSet' = FALSE
      BY <2>3 DEF FreeModel
    <3>2. frees = 0 /\ frees' = frees + 1
      BY <2>3 DEF IInv, ModelState, FreeModel
    <3>3. frees' = 1
      BY <3>2
    <3> QED
      BY <2>1, <2>2, <3>1, <3>3 DEF ModelState
  <2>4. CASE ~modelSet
    <3>1. UNCHANGED <<handle, frees, modelSet, tempDir>>
      BY <2>4 DEF FreeModel
    <3> QED
      BY <2>1, <2>2, <2>4, <3>1 DEF IInv, ModelState
  <2> QED
    BY <2>3, <2>4
<1>4. GomlxState'
  BY NobodyAssumption DEF IInv, TypeOK, GomlxState, ModelState, OuterHeld, OuterStages, OuterOnly,
           InnerStages, Running,
           FreeModel, owner, locks, tensors, Goto
<1>5. TensorsOpen' /\ CleanupCoversPaths'
  BY DEF IInv, TypeOK, TensorsOpen,
           CleanupCoversPaths,
           FreeModel, owner, locks, tensors, Goto
<1> QED
  BY <1>1, <1>2, <1>3, <1>4, <1>5 DEF IInv

LEMMA RemoveTempDirStep ==
  ASSUME NEW t \in Threads, IInv, RemoveTempDir(t)
  PROVE  IInv'
<1>1. TypeOK'
  BY CountsAssumption DEF IInv, TypeOK, Stages, Results,
           RemoveTempDir, owner, locks, tensors, Goto
<1>2. InnerHeld' /\ OuterHeld'
  BY NobodyAssumption DEF IInv, TypeOK, InnerHeld, OuterHeld, OuterStages, OuterOnly, InnerStages, Running,
           RemoveTempDir, owner, locks, tensors, Goto
<1>3. ModelState'
  BY NobodyAssumption DEF IInv, TypeOK, ModelState, InnerHeld, InnerStages, Running,
           RemoveTempDir, owner, locks, tensors, Goto
<1>4. GomlxState'
  BY NobodyAssumption DEF IInv, TypeOK, GomlxState, ModelState, OuterHeld, OuterStages, OuterOnly,
           InnerStages, Running,
           RemoveTempDir, owner, locks, tensors, Goto
<1>5. TensorsOpen' /\ CleanupCoversPaths'
  BY DEF IInv, TypeOK, TensorsOpen,
           CleanupCoversPaths,
           RemoveTempDir, owner, locks, tensors, Goto
<1> QED
  BY <1>1, <1>2, <1>3, <1>4, <1>5 DEF IInv

LEMMA ClearRuntimeStep ==
  ASSUME NEW t \in Threads, IInv, ClearRuntime(t)
  PROVE  IInv'
<1>1. TypeOK'
  BY CountsAssumption DEF IInv, TypeOK, Stages, Results,
           ClearRuntime, owner, locks, tensors, Goto
<1>2. InnerHeld' /\ OuterHeld'
  BY NobodyAssumption DEF IInv, TypeOK, InnerHeld, OuterHeld, OuterStages, OuterOnly, InnerStages, Running,
           ClearRuntime, owner, locks, tensors, Goto
<1>3. ModelState'
  BY NobodyAssumption DEF IInv, TypeOK, ModelState, InnerHeld, InnerStages, Running,
           ClearRuntime, owner, locks, tensors, Goto
<1>4. GomlxState'
  BY NobodyAssumption DEF IInv, TypeOK, GomlxState, ModelState, OuterHeld, OuterStages, OuterOnly,
           InnerStages, Running,
           ClearRuntime, owner, locks, tensors, Goto
<1>5. TensorsOpen' /\ CleanupCoversPaths'
  BY DEF IInv, TypeOK, TensorsOpen,
           CleanupCoversPaths,
           ClearRuntime, owner, locks, tensors, Goto
<1> QED
  BY <1>1, <1>2, <1>3, <1>4, <1>5 DEF IInv

-----------------------------------------------------------------------------
LEMMA StutterIInv ==
  ASSUME IInv, UNCHANGED vars
  PROVE  IInv'
  BY DEF IInv, TypeOK, InnerHeld, OuterHeld, ModelState, GomlxState, TensorsOpen,
         CleanupCoversPaths, vars

(* The invariant behind the properties: who holds which mutex, what that says  *)
(* about the model, and which tensors are open at which stage of a call.       *)
THEOREM IInvHolds == Spec => []IInv
<1>1. Init => IInv
  BY InitIInv
<1>2. IInv /\ [Next]_vars => IInv'
  <2>1. SUFFICES ASSUME IInv, [Next]_vars PROVE IInv'
    OBVIOUS
  <2>2. CASE UNCHANGED vars
    BY <2>1, <2>2, StutterIInv
  <2>3. CASE Next
    <3>1. PICK t \in Threads : BeginExecute(t) \/ BeginFinalize(t) \/ Proceed(t)
      BY <2>3 DEF Next
    <3>2. CASE BeginExecute(t)
      BY <2>1, <3>2, BeginExecuteStep
    <3>3. CASE BeginFinalize(t)
      BY <2>1, <3>3, BeginFinalizeStep
    <3>4. CASE LockOuter(t)
      BY <2>1, <3>4, LockOuterStep
    <3>5. CASE CheckFails(t)
      BY <2>1, <3>5, CheckFailsStep
    <3>6. CASE CheckPasses(t)
      BY <2>1, <3>6, CheckPassesStep
    <3>7. CASE LockInner(t)
      BY <2>1, <3>7, LockInnerStep
    <3>8. CASE CreateInput(t)
      BY <2>1, <3>8, CreateInputStep
    <3>9. CASE InputFails(t)
      BY <2>1, <3>9, InputFailsStep
    <3>10. CASE InputMissing(t)
      BY <2>1, <3>10, InputMissingStep
    <3>11. CASE InputEmpty(t)
      BY <2>1, <3>11, InputEmptyStep
    <3>12. CASE InputsDone(t)
      BY <2>1, <3>12, InputsDoneStep
    <3>13. CASE CreateOutput(t)
      BY <2>1, <3>13, CreateOutputStep
    <3>14. CASE OutputFails(t)
      BY <2>1, <3>14, OutputFailsStep
    <3>15. CASE OutputsDone(t)
      BY <2>1, <3>15, OutputsDoneStep
    <3>16. CASE Predict(t)
      BY <2>1, <3>16, PredictStep
    <3>17. CASE PredictionFails(t)
      BY <2>1, <3>17, PredictionFailsStep
    <3>18. CASE PredictionReturns(t)
      BY <2>1, <3>18, PredictionReturnsStep
    <3>19. CASE ExtractOutput(t)
      BY <2>1, <3>19, ExtractOutputStep
    <3>20. CASE ExtractFails(t)
      BY <2>1, <3>20, ExtractFailsStep
    <3>21. CASE ExtractDone(t)
      BY <2>1, <3>21, ExtractDoneStep
    <3>22. CASE Convert(t)
      BY <2>1, <3>22, ConvertStep
    <3>23. CASE FinalizeChecks(t)
      BY <2>1, <3>23, FinalizeChecksStep
    <3>24. CASE FreeModel(t)
      BY <2>1, <3>24, FreeModelStep
    <3>25. CASE RemoveTempDir(t)
      BY <2>1, <3>25, RemoveTempDirStep
    <3>26. CASE ClearRuntime(t)
      BY <2>1, <3>26, ClearRuntimeStep
    <3> QED
            BY <3>1, <3>2, <3>3, <3>4, <3>5, <3>6, <3>7, <3>8, <3>9, <3>10, <3>11,
         <3>12, <3>13, <3>14, <3>15, <3>16, <3>17, <3>18, <3>19, <3>20, <3>21,
         <3>22, <3>23, <3>24, <3>25, <3>26
         DEF Proceed
  <2> QED
    BY <2>1, <2>2, <2>3
<1> QED
  BY <1>1, <1>2, PTL DEF Spec

(* RuntimeExec: the counts of open tensors stay within the model's inputs and *)
(* outputs, and every call stays on its path.                                 *)
THEOREM TypeCorrect == Spec => []TypeOK
<1>1. IInv => TypeOK
  BY DEF IInv, TypeOK
<1> QED
  BY IInvHolds, <1>1, PTL

(* Run against Close: whatever the goroutines do, a prediction runs on a       *)
(* loaded model whose files exist.                                           *)
THEOREM NoPredictionOnFreedModel == Spec => []ModelAliveInPrediction
<1>1. IInv => ModelAliveInPrediction
  BY DEF IInv, ModelState, ModelAliveInPrediction, TypeOK
<1> QED
  BY IInvHolds, <1>1, PTL

(* Close, Finalize: the native model is freed at most once, and before its    *)
(* files are removed.                                                        *)
THEOREM ModelFreedOnce == Spec => []ReleasedOnceInOrder
<1>1. IInv => ReleasedOnceInOrder
  <2>1. ModelState => frees \in {0, 1}
    BY DEF ModelState
  <2>2. ModelState => (~tempDir => handle = "freed")
    BY DEF ModelState
  <2> QED
    BY <2>1, <2>2 DEF IInv, ReleasedOnceInOrder
<1> QED
  BY IInvHolds, <1>1, PTL

(* Execute: after a concurrent Finalize it reports an error; it never reaches  *)
(* the nil model.                                                            *)
THEOREM FinalizedIsAnError == Spec => []ExecuteNeverPanics
<1>1. IInv => ExecuteNeverPanics
  BY DEF IInv, GomlxState, ExecuteNeverPanics
<1> QED
  BY IInvHolds, <1>1, PTL

(* Run: only a missing input, a failed extraction and a panic lose tensors.    *)
THEOREM ErrorPathsCloseTensors == Spec => []CleanupCoversPaths
<1>1. IInv => CleanupCoversPaths
  BY DEF IInv, CleanupCoversPaths
<1> QED
  BY IInvHolds, <1>1, PTL

=============================================================================
