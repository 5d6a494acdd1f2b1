------------------------------ MODULE BufferPool ------------------------------
(***************************************************************************)
(* The buffers of gomlx.Backend.  A buffer that the client finalizes goes to *)
(* a pool and is handed out again, by goroutines that run concurrently and   *)
(* take no lock; Backend.Finalize may come at any moment.  The client here   *)
(* keeps the documented rule: it finalizes a buffer once and does not use    *)
(* it afterwards.                                                           *)
(*                                                                          *)
(* Each read of Backend.isFinalized is a step of its own: the field is not   *)
(* synchronised.  What a buffer holds is the number of the call that filled  *)
(* it, or NoFlat.  Left out: device numbers, flat slices of a wrong length,  *)
(* cloneBuffer and getBufferForShape, which nothing calls.                   *)
(***************************************************************************)
EXTENDS Integers, FiniteSets

CONSTANTS
  Threads,   \* goroutines
  Buffers,   \* bound: Buffer objects that can be allocated
  Shapes,    \* shapes the client asks for
  PoolKey,   \* shape -> its element type and number of elements
  MaxCalls   \* bound: calls the goroutines make

NoFlat == 0
NoBuffer == "none"
NoKey == -1
NoShape == "invalid shape"

ASSUME PoolKeyAssumption == PoolKey \in [Shapes -> Nat] /\ MaxCalls \in Nat
ASSUME NoneAssumption == NoBuffer \notin Buffers /\ NoShape \notin Shapes

VARIABLES
  heap,       \* buffer -> its fields; key tells the type and length of flat
  pools,      \* which pool holds each buffer: a set of <<pool, buffer>> pairs
  generation, \* how often bufferPools was cleared: old pools are out of reach
  finalized,  \* Backend.isFinalized
  job,        \* goroutine -> the call it is in
  live,       \* ghost: the handles the client holds, with what it put in them
  alarms,     \* ghost: calls of BufferFinalize that found the buffer finalized
  crashed,    \* a goroutine dereferenced nil: the process is dead
  calls       \* bound: calls made

vars == <<heap, pools, generation, finalized, job, live, alarms, crashed, calls>>

Idle == [stage |-> "idle", buffer |-> NoBuffer, shape |-> NoShape, call |-> 0,
         generation |-> 0, output |-> FALSE]

Unallocated == [key |-> NoKey, flat |-> NoFlat, shape |-> NoShape, valid |-> FALSE]

KeyByNothing(shape) == CHOOSE k \in {PoolKey[s] : s \in Shapes} : TRUE
KeyOf(shape) == PoolKey[shape]
Pool(gen, key) == [generation |-> gen, key |-> key]

Init ==
  /\ heap = [b \in Buffers |-> Unallocated]
  /\ pools = {} /\ generation = 0 /\ finalized = FALSE
  /\ job = [t \in Threads |-> Idle]
  /\ live = {} /\ alarms = 0 /\ crashed = FALSE /\ calls = 0

-----------------------------------------------------------------------------
Goto(t, stage) == job' = [job EXCEPT ![t].stage = stage]
Return(t) == job' = [job EXCEPT ![t] = Idle]
Backend == <<pools, generation, finalized>>
Ghosts == <<live, alarms, calls>>

Call(t, j) ==
  /\ ~crashed /\ job[t] = Idle /\ calls < MaxCalls /\ calls' = calls + 1
  /\ job' = [job EXCEPT ![t] = [j EXCEPT !.call = calls + 1]]

(* BufferFromFlatData and NewSharedBuffer check the backend first (a call that *)
(* is refused changes nothing) and use what NewBuffer returns unseen.          *)
BufferFromFlatData(t, shape) ==
  /\ ~finalized
  /\ Call(t, [Idle EXCEPT !.stage = "new", !.shape = shape])
  /\ UNCHANGED <<heap, Backend, live, alarms, crashed>>

(* runtimeDataToBuffer, for an output of Execute, checks for nil instead.      *)
RuntimeDataToBuffer(t, shape) ==
  /\ Call(t, [Idle EXCEPT !.stage = "new", !.shape = shape, !.output = TRUE])
  /\ UNCHANGED <<heap, Backend, live, alarms, crashed>>

Panic(t) ==
  /\ crashed' = TRUE /\ Return(t)
  /\ UNCHANGED <<heap, Backend, Ghosts>>

(* NewBuffer.                                                                 *)
NewBufferChecks(t) ==
  /\ ~crashed /\ job[t].stage = "new"
  /\ \/ ~finalized /\ Goto(t, "get") /\ UNCHANGED <<heap, Backend, Ghosts, crashed>>
     \/ finalized /\ ~job[t].output /\ Panic(t)
     \/ /\ finalized /\ job[t].output /\ Return(t)
        /\ UNCHANGED <<heap, Backend, Ghosts, crashed>>

(* getBuffer: NewBuffer does not expect it to return nil.                      *)
GetBufferChecks(t) ==
  /\ ~crashed /\ job[t].stage = "get"
  /\ \/ ~finalized /\ Goto(t, "load") /\ UNCHANGED <<heap, Backend, Ghosts, crashed>>
     \/ finalized /\ Panic(t)

(* getBufferPool: the pool that bufferPools holds now.                         *)
LoadPool(t) ==
  /\ ~crashed /\ job[t].stage \in {"load", "load to put"}
  /\ job' = [job EXCEPT ![t].generation = generation,
                        ![t].stage = IF @ = "load" THEN "take" ELSE "put"]
  /\ UNCHANGED <<heap, Backend, Ghosts, crashed>>

(* sync.Pool.Get: any buffer of the pool, or a new one.                        *)
TakeKeeping(t) ==
  LET pool == Pool(job[t].generation, KeyOf(job[t].shape)) IN
  /\ ~crashed /\ job[t].stage = "take"
  /\ \E b \in Buffers :
       /\ \/ <<pool, b>> \in pools /\ UNCHANGED <<pools, heap>>
          \/ /\ heap[b].key = NoKey /\ UNCHANGED pools
             /\ heap' = [heap EXCEPT ![b].key = pool.key]
       /\ job' = [job EXCEPT ![t].stage = "fill", ![t].buffer = b]
  /\ UNCHANGED <<generation, finalized, Ghosts, crashed>>
Take(t) ==
  LET pool == Pool(job[t].generation, KeyOf(job[t].shape)) IN
  /\ ~crashed /\ job[t].stage = "take"
  /\ \E b \in Buffers :
       /\ \/ <<pool, b>> \in pools /\ pools' = pools \ {<<pool, b>>} /\ UNCHANGED heap
          \/ /\ heap[b].key = NoKey /\ UNCHANGED pools
             /\ heap' = [heap EXCEPT ![b].key = pool.key]
       /\ job' = [job EXCEPT ![t].stage = "fill", ![t].buffer = b]
  /\ UNCHANGED <<generation, finalized, Ghosts, crashed>>

(* The buffer is marked valid, gets its shape and the caller's data.           *)
Fill(t) ==
  LET j == job[t] IN
  /\ ~crashed /\ j.stage = "fill"
  /\ heap' = [heap EXCEPT ![j.buffer] = [@ EXCEPT !.valid = TRUE, !.shape = j.shape,
                                                  !.flat = j.call]]
  /\ live' = live \union {[buffer |-> j.buffer, shape |-> j.shape, flat |-> j.call]}
  /\ Return(t)
  /\ UNCHANGED <<Backend, alarms, crashed, calls>>

(* An output whose data does not fit: the buffer is dropped, not put back.     *)
FillFails(t) ==
  LET j == job[t] IN
  /\ ~crashed /\ j.stage = "fill" /\ j.output
  /\ heap' = [heap EXCEPT ![j.buffer] = [@ EXCEPT !.valid = TRUE, !.shape = j.shape]]
  /\ Return(t)
  /\ UNCHANGED <<Backend, Ghosts, crashed>>

-----------------------------------------------------------------------------
(* BufferFinalize, then putBuffer.                                            *)
StageAfterPutFirst(stage) ==
  [check |-> "load to put", put |-> "invalidate", invalidate |-> "idle"][stage]
StageAfter(stage) ==
  [check |-> "invalidate", invalidate |-> "load to put", put |-> "idle"][stage]

Advance(t) ==
  IF StageAfter(job[t].stage) = "idle" THEN Return(t)
  ELSE Goto(t, StageAfter(job[t].stage))

(* On a finalized backend the buffer loses its data and the call fails.        *)
BufferFinalize(t, h) ==
  /\ live' = live \ {h}
  /\ \/ /\ ~finalized
        /\ Call(t, [Idle EXCEPT !.stage = "valid?", !.buffer = h.buffer])
        /\ UNCHANGED heap
     \/ /\ finalized /\ ~crashed /\ job[t] = Idle /\ calls < MaxCalls
        /\ calls' = calls + 1
        /\ heap' = [heap EXCEPT ![h.buffer].flat = NoFlat]
        /\ UNCHANGED job
  /\ UNCHANGED <<Backend, alarms, crashed>>

CheckValid(t) ==
  /\ ~crashed /\ job[t].stage = "valid?"
  /\ LET buffer == heap[job[t].buffer] IN
     IF buffer.valid /\ buffer.flat # NoFlat /\ buffer.shape # NoShape
     THEN Goto(t, "check") /\ UNCHANGED alarms
     ELSE Return(t) /\ alarms' = alarms + 1
  /\ UNCHANGED <<heap, Backend, live, crashed, calls>>

PutBufferChecks(t) ==
  /\ ~crashed /\ job[t].stage = "check"
  /\ IF finalized THEN Return(t) ELSE Advance(t)
  /\ UNCHANGED <<heap, Backend, Ghosts, crashed>>

Invalidate(t) ==
  /\ ~crashed /\ job[t].stage = "invalidate" /\ Advance(t)
  /\ heap' = [heap EXCEPT ![job[t].buffer].valid = FALSE]
  /\ UNCHANGED <<Backend, Ghosts, crashed>>

PutOfAnyShape(t) ==
  /\ ~crashed /\ job[t].stage = "put" /\ Advance(t)
  /\ \E s \in Shapes :
       pools' = pools \union {<<Pool(job[t].generation, KeyOf(s)), job[t].buffer>>}
  /\ UNCHANGED <<heap, generation, finalized, Ghosts, crashed>>
Put(t) ==
  /\ ~crashed /\ job[t].stage = "put" /\ Advance(t)
  /\ LET b == job[t].buffer IN
     pools' = pools \union {<<Pool(job[t].generation, KeyOf(heap[b].shape)), b>>}
  /\ UNCHANGED <<heap, generation, finalized, Ghosts, crashed>>

-----------------------------------------------------------------------------
(* Backend.Finalize: the flag, then the pools.                                *)
SetFinalized ==
  /\ ~crashed /\ ~finalized /\ finalized' = TRUE
  /\ UNCHANGED <<heap, pools, generation, job, Ghosts, crashed>>

ClearPools ==
  /\ ~crashed /\ finalized /\ generation = 0 /\ generation' = 1
  /\ UNCHANGED <<heap, pools, finalized, job, Ghosts, crashed>>

(* The collector may empty a sync.Pool at any time.                            *)
Collect ==
  /\ ~crashed /\ \E entry \in pools : pools' = pools \ {entry}
  /\ UNCHANGED <<heap, generation, finalized, job, Ghosts, crashed>>

Next ==
  \/ \E t \in Threads :
       \/ \E s \in Shapes : BufferFromFlatData(t, s) \/ RuntimeDataToBuffer(t, s)
       \/ NewBufferChecks(t) \/ GetBufferChecks(t) \/ LoadPool(t) \/ Take(t)
       \/ Fill(t) \/ FillFails(t)
       \/ \E h \in live : BufferFinalize(t, h)
       \/ CheckValid(t) \/ PutBufferChecks(t) \/ Invalidate(t) \/ Put(t)
  \/ SetFinalized \/ ClearPools \/ Collect

Spec == Init /\ [][Next]_vars

-----------------------------------------------------------------------------
Keys == {PoolKey[s] : s \in Shapes}
Handles == [buffer : Buffers, shape : Shapes, flat : 1..MaxCalls]
Fields == [key : Keys \union {NoKey}, flat : 0..MaxCalls, shape : Shapes \union {NoShape},
           valid : BOOLEAN]
Stages == {"idle", "new", "get", "load", "take", "fill", "valid?", "check", "invalidate",
           "load to put", "put"}
Jobs == [stage : Stages, buffer : Buffers \union {NoBuffer}, shape : Shapes \union {NoShape},
         call : 0..MaxCalls, generation : 0..1, output : BOOLEAN]

(* A pool only holds allocated buffers whose slice has its type and length.   *)
PoolsFit ==
  \A entry \in pools :
    /\ entry[2] \in Buffers /\ entry[1].generation \in 0..generation
    /\ entry[1].key = heap[entry[2]].key /\ entry[1].key # NoKey

(* Types; the buffers of a pool fit it.                                      *)
TypeOK ==
  /\ heap \in [Buffers -> Fields] /\ PoolsFit
  /\ generation \in 0..1 /\ finalized \in BOOLEAN /\ crashed \in BOOLEAN
  /\ job \in [Threads -> Jobs]
  /\ live \subseteq Handles /\ alarms \in Nat /\ calls \in 0..MaxCalls

InUse(b) == \E t \in Threads : job[t].buffer = b
Pooled(b) == \E entry \in pools : entry[2] = b

(* buffer.go: two handles never share a buffer, two calls never work on one,  *)
(* and the buffer of a handle is in no pool and in nobody's hands.            *)
NoSharing ==
  /\ \A h, i \in live : h.buffer = i.buffer => h = i
  /\ \A h \in live : ~InUse(h.buffer) /\ ~Pooled(h.buffer)
  /\ \A t, u \in Threads : job[t].buffer = job[u].buffer /\ t # u => job[t].buffer = NoBuffer

(* BufferFromFlatData, BufferToFlatData: whatever other goroutines create and *)
(* finalize, and after Backend.Finalize too, a handle keeps its data and its   *)
(* shape, the slice fits the shape, and the buffer stays valid.               *)
HandlesIntact ==
  \A h \in live : heap[h.buffer] =
    [key |-> PoolKey[h.shape], flat |-> h.flat, shape |-> h.shape, valid |-> TRUE]

(* BufferFinalize: a client that finalizes each buffer once is never told that *)
(* it was finalized before.                                                  *)
NoFalseAlarm == alarms = 0

=============================================================================
