--------------------------- MODULE BufferPoolProofs ---------------------------
(***************************************************************************)
(* Proofs about BufferPool, for any number of goroutines, buffers, shapes   *)
(* and calls.                                                               *)
(*                                                                          *)
(* A buffer is in one place: not yet allocated, in one pool, in the hands of *)
(* one call, in one handle, or dropped.  Each step moves it from one place   *)
(* to another; what a place guarantees about the fields (Places, Stage) is   *)
(* what the next place needs.                                               *)
(***************************************************************************)
EXTENDS BufferPool, TLAPS

Creating == {"new", "get", "load", "take"}
Finalizing == {"valid?", "check", "invalidate", "load to put", "put"}

(* A buffer is in one pool at most, and no call holds a buffer that a pool    *)
(* has or that was never allocated.                                          *)
Places ==
  /\ \A e, f \in pools : e[2] = f[2] => e = f
  /\ \A t \in Threads : job[t].buffer # NoBuffer =>
       ~Pooled(job[t].buffer) /\ heap[job[t].buffer].key # NoKey

(* What a call knows at each stage: a creation its shape and its number, and  *)
(* in the end a buffer whose slice fits the shape; a finalization a buffer    *)
(* whose slice fits the shape it has, and that is valid until it is checked.  *)
Fits(b, shape) == shape \in Shapes /\ heap[b].key = PoolKey[shape]
Knows(j) ==
  /\ j.generation <= generation
  /\ j.stage \in Creating \union {"idle"} <=> j.buffer = NoBuffer
  /\ j.stage \in Creating => j.shape \in Shapes /\ j.call # 0
  /\ j.stage = "fill" => Fits(j.buffer, j.shape) /\ j.call # 0
  /\ j.stage \in Finalizing => Fits(j.buffer, heap[j.buffer].shape)
  /\ j.stage = "valid?" => heap[j.buffer].valid /\ heap[j.buffer].flat # NoFlat

BufInv ==
  /\ TypeOK /\ NoSharing /\ HandlesIntact /\ NoFalseAlarm
  /\ Places /\ \A t \in Threads : Knows(job[t])

(***************************************************************************)
(* Steps that only change what one call knows.                              *)
(***************************************************************************)

LEMMA KeysAreKeys == \A s \in Shapes : PoolKey[s] # NoKey /\ PoolKey[s] \in Keys
  BY PoolKeyAssumption DEF Keys, NoKey

LEMMA JobStep ==
  ASSUME BufInv, NEW t \in Threads, NEW j \in Jobs,
         job' = [job EXCEPT ![t] = j], Knows(j), j.buffer \in {NoBuffer, job[t].buffer},
         UNCHANGED <<heap, pools, generation, live, alarms>>,
         finalized' \in BOOLEAN, crashed' \in BOOLEAN, calls' \in 0..MaxCalls
  PROVE  BufInv'
<1>1. job \in [Threads -> Jobs] /\ job' \in [Threads -> Jobs]
      BY DEF BufInv, TypeOK
<1>2. \A u \in Threads : job'[u] = IF u = t THEN j ELSE job[u]
      BY <1>1
<1>3. \A u \in Threads : job'[u].buffer \in {NoBuffer, job[u].buffer}
      BY <1>2
<1>4. TypeOK'
      BY <1>1 DEF BufInv, TypeOK, PoolsFit
<1>5. \A b \in Buffers : InUse(b)' => InUse(b)
      BY <1>3, NoneAssumption DEF InUse
<1>6. NoSharing'
  <2>1. \A h \in live : h.buffer \in Buffers
        BY DEF BufInv, TypeOK, Handles
  <2>2. \A h \in live : ~InUse(h.buffer)' /\ ~Pooled(h.buffer)'
        BY <1>5, <2>1 DEF BufInv, NoSharing, Pooled
  <2>3. \A u, v \in Threads :
          job'[u].buffer = job'[v].buffer /\ u # v => job'[u].buffer = NoBuffer
        BY <1>3 DEF BufInv, NoSharing
  <2> QED BY <2>2, <2>3 DEF BufInv, NoSharing
<1>7. HandlesIntact' /\ NoFalseAlarm'
      BY DEF BufInv, HandlesIntact, NoFalseAlarm
<1>8. Places'
      BY <1>3 DEF BufInv, Places, Pooled
<1>9. \A u \in Threads : Knows(job[u])'
      BY <1>2 DEF BufInv, Knows, Fits
<1> QED BY <1>4, <1>6, <1>7, <1>8, <1>9 DEF BufInv

LEMMA ReturnStep ==
  ASSUME BufInv, NEW t \in Threads, Return(t),
         UNCHANGED <<heap, pools, generation, live, alarms, finalized, calls>>,
         crashed' \in BOOLEAN
  PROVE  BufInv'
<1>1. /\ Idle \in Jobs /\ Idle.buffer = NoBuffer /\ Idle.stage = "idle"
      /\ Idle.generation = 0
      BY PoolKeyAssumption DEF Idle, Jobs, Stages
<1>2. 0 <= generation
      BY DEF BufInv, TypeOK
<1>3. Knows(Idle)
      BY <1>1, <1>2 DEF Knows, Creating, Finalizing
<1> QED BY <1>1, <1>3, JobStep DEF Return, BufInv, TypeOK

(* The next stage of a creation or a finalization, with the same buffer.      *)
LEMMA GotoStep ==
  ASSUME BufInv, NEW t \in Threads, NEW stage, Goto(t, stage),
         \/ job[t].stage \in Creating /\ stage \in Creating
         \/ job[t].stage \in Finalizing /\ stage \in Finalizing \ {"valid?"},
         UNCHANGED <<heap, pools, generation, live, alarms, finalized, crashed, calls>>
  PROVE  BufInv'
<1> DEFINE j == [job[t] EXCEPT !.stage = stage]
<1>1. job[t] \in Jobs /\ Knows(job[t])
      BY DEF BufInv, TypeOK
<1>2. stage \in Stages
      BY DEF Stages, Creating, Finalizing
<1>3. /\ j \in Jobs /\ j.stage = stage /\ j.buffer = job[t].buffer /\ j.shape = job[t].shape
      /\ j.call = job[t].call /\ j.generation = job[t].generation
      BY <1>1, <1>2 DEF Jobs
<1>4. job' = [job EXCEPT ![t] = j]
      BY DEF Goto
<1> HIDE DEF j
<1>5. Knows(j)
      BY <1>1, <1>3 DEF Knows, Creating, Finalizing
<1> QED BY <1>3, <1>4, <1>5, JobStep DEF BufInv, TypeOK

LEMMA CreationBufInv ==
  ASSUME BufInv, NEW t \in Threads, NEW s \in Shapes,
         BufferFromFlatData(t, s) \/ RuntimeDataToBuffer(t, s)
  PROVE  BufInv'
<1> USE DEF BufferFromFlatData, RuntimeDataToBuffer, Call
<1>1. PICK o \in BOOLEAN : job' = [job EXCEPT ![t] =
             [stage |-> "new", buffer |-> NoBuffer, shape |-> s, call |-> calls + 1,
              generation |-> 0, output |-> o]]
      BY DEF Idle
<1> DEFINE j == [stage |-> "new", buffer |-> NoBuffer, shape |-> s, call |-> calls + 1,
                 generation |-> 0, output |-> o]
<1>2. calls + 1 \in 1..MaxCalls
      BY PoolKeyAssumption DEF BufInv, TypeOK
<1>3. j \in Jobs
      BY <1>2, PoolKeyAssumption DEF Jobs, Stages
<1>4. /\ j.stage = "new" /\ j.buffer = NoBuffer /\ j.shape = s /\ j.call = calls + 1
      /\ j.generation = 0 /\ job' = [job EXCEPT ![t] = j]
      BY <1>1
<1>5. /\ UNCHANGED <<heap, pools, generation, live, alarms, finalized, crashed>>
      /\ calls' = calls + 1
      BY DEF Backend
<1> HIDE DEF j, BufferFromFlatData, RuntimeDataToBuffer, Call
<1>6. calls + 1 # 0 /\ 0 <= generation
      BY <1>2 DEF BufInv, TypeOK
<1>7. Knows(j)
      BY <1>4, <1>6 DEF Knows, Creating, Finalizing
<1>8. calls' \in 0..MaxCalls /\ finalized' \in BOOLEAN /\ crashed' \in BOOLEAN
      BY <1>2, <1>5, PoolKeyAssumption DEF BufInv, TypeOK
<1> QED BY <1>3, <1>4, <1>5, <1>7, <1>8, JobStep

LEMMA ChecksBufInv ==
  ASSUME BufInv, NEW t \in Threads, NewBufferChecks(t) \/ GetBufferChecks(t)
  PROVE  BufInv'
<1>1. job[t].stage \in Creating
      BY DEF NewBufferChecks, GetBufferChecks, Creating
<1>2. UNCHANGED <<heap, pools, generation, live, alarms, finalized, calls>>
      BY DEF NewBufferChecks, GetBufferChecks, Panic, Backend, Ghosts
<1>3. crashed' \in BOOLEAN
      BY DEF NewBufferChecks, GetBufferChecks, Panic, BufInv, TypeOK
<1>4. Return(t) \/ /\ Goto(t, "get") \/ Goto(t, "load")
                   /\ UNCHANGED crashed
      BY DEF NewBufferChecks, GetBufferChecks, Panic
<1> QED BY <1>1, <1>2, <1>3, <1>4, ReturnStep, GotoStep DEF Creating

LEMMA LoadPoolBufInv ==
  ASSUME BufInv, NEW t \in Threads, LoadPool(t)
  PROVE  BufInv'
<1> DEFINE j == [job[t] EXCEPT !.generation = generation,
                               !.stage = IF @ = "load" THEN "take" ELSE "put"]
<1>1. /\ job' = [job EXCEPT ![t] = j]
      /\ UNCHANGED <<heap, pools, generation, live, alarms, finalized, crashed, calls>>
      BY DEF LoadPool, Backend, Ghosts
<1>2. /\ job[t] \in Jobs /\ Knows(job[t]) /\ generation \in 0..1
      /\ job[t].stage \in {"load", "load to put"}
      BY DEF BufInv, TypeOK, LoadPool
<1>3. /\ j \in Jobs /\ j.stage = (IF job[t].stage = "load" THEN "take" ELSE "put")
      /\ j.buffer = job[t].buffer /\ j.shape = job[t].shape /\ j.call = job[t].call
      /\ j.generation = generation
      BY <1>2 DEF Jobs, Stages
<1> HIDE DEF j
<1>4. j.generation <= generation
  <2>1. j.generation = generation
        BY <1>3
  <2>2. generation \in 0..1
        BY <1>2
  <2> QED BY <2>1, <2>2
<1>5. Knows(j)
  <2>1. CASE job[t].stage = "load"
        BY <1>2, <1>3, <1>4, <2>1 DEF Knows, Creating, Finalizing
  <2>2. CASE job[t].stage = "load to put"
        BY <1>2, <1>3, <1>4, <2>2 DEF Knows, Creating, Finalizing
  <2> QED BY <1>2, <2>1, <2>2
<1> QED BY <1>1, <1>3, <1>5, JobStep DEF BufInv, TypeOK

(* CheckValid never sounds the alarm: at this stage the buffer is valid, has  *)
(* data and a shape.                                                         *)
LEMMA CheckValidBufInv ==
  ASSUME BufInv, NEW t \in Threads, CheckValid(t)
  PROVE  BufInv'
<1>1. job[t].stage = "valid?" /\ Knows(job[t])
      BY DEF CheckValid, BufInv
<1>2. LET buffer == heap[job[t].buffer] IN
      buffer.valid /\ buffer.flat # NoFlat /\ buffer.shape # NoShape
      BY <1>1, NoneAssumption DEF Knows, Fits, Finalizing
<1>3. Goto(t, "check")
      BY <1>2 DEF CheckValid
<1>4. UNCHANGED <<heap, pools, generation, live, alarms, finalized, crashed, calls>>
      BY <1>2 DEF CheckValid, Backend
<1> QED BY <1>1, <1>3, <1>4, GotoStep DEF Finalizing

LEMMA PutBufferChecksBufInv ==
  ASSUME BufInv, NEW t \in Threads, PutBufferChecks(t)
  PROVE  BufInv'
<1>1. /\ job[t].stage = "check"
      /\ Return(t) \/ Goto(t, "invalidate")
      /\ UNCHANGED <<heap, pools, generation, live, alarms, finalized, crashed, calls>>
      BY DEF PutBufferChecks, Advance, StageAfter, Backend, Ghosts
<1>2. crashed \in BOOLEAN
      BY DEF BufInv, TypeOK
<1> QED BY <1>1, <1>2, ReturnStep, GotoStep DEF Finalizing

(***************************************************************************)
(* Steps that move a buffer.                                                *)
(***************************************************************************)

(* Buffer b goes from the hands of call t, a handle, a pool or nowhere to the *)
(* hands of t, a handle, a pool or nowhere; no other buffer is touched.       *)
NowInHands(t, b, j) ==
  /\ \A u \in Threads : u # t => job[u].buffer # b
  /\ job' = [job EXCEPT ![t] = j] /\ j.buffer \in {NoBuffer, b} /\ Knows(j)'
NowInHeap(b) ==
  /\ heap' \in [Buffers -> Fields] /\ heap'[b].key # NoKey
  /\ \A c \in Buffers : c # b => heap'[c] = heap[c]
NowPooled(b) ==
  /\ PoolsFit' /\ \A e, f \in pools' : e[2] = f[2] => e = f
  /\ \A e \in pools' : e \in pools \/ e[2] = b
NowHandled(b) ==
  /\ live' \subseteq Handles
  /\ \A h \in live' : h.buffer # b => h \in live
  /\ \A h \in live' : h.buffer = b => heap'[b] =
       [key |-> PoolKey[h.shape], flat |-> h.flat, shape |-> h.shape, valid |-> TRUE]
  /\ \A h, i \in live' : h.buffer = b /\ i.buffer = b => h = i
NowInOnePlace(b, j) ==
  /\ (\E h \in live' : h.buffer = b) => j.buffer # b
  /\ (\E h \in live' : h.buffer = b) \/ j.buffer = b => \A e \in pools' : e[2] # b

LEMMA MoveStep ==
  ASSUME BufInv, NEW t \in Threads, NEW b \in Buffers, NEW j \in Jobs,
         NowInHands(t, b, j), NowInHeap(b), NowPooled(b), NowHandled(b), NowInOnePlace(b, j),
         UNCHANGED <<generation, alarms, finalized, crashed>>, calls' \in 0..MaxCalls
  PROVE  BufInv'
<1> USE DEF NowInHands, NowInHeap, NowPooled, NowHandled, NowInOnePlace
<1>1. TypeOK /\ NoSharing /\ HandlesIntact /\ NoFalseAlarm /\ Places
      BY DEF BufInv
<1>2. \A u \in Threads : Knows(job[u])
      BY DEF BufInv
<1>3. job \in [Threads -> Jobs] /\ job' \in [Threads -> Jobs]
      BY <1>1 DEF TypeOK
<1>4. \A u \in Threads : job'[u] = IF u = t THEN j ELSE job[u]
      BY <1>3
<1>5. \A h \in live' : h.buffer \in Buffers
      BY DEF Handles
<1>6. TypeOK'
      BY <1>1, <1>3 DEF TypeOK
<1>7. NoSharing'
  <2>1. ASSUME NEW h \in live', NEW i \in live', h.buffer = i.buffer PROVE h = i
    <3>1. CASE h.buffer = b
          BY <2>1, <3>1
    <3>2. CASE h.buffer # b
          BY <1>1, <2>1, <3>2 DEF NoSharing
    <3> QED BY <3>1, <3>2
  <2>2. ASSUME NEW h \in live' PROVE ~InUse(h.buffer)'
    <3> SUFFICES ASSUME NEW u \in Threads PROVE job'[u].buffer # h.buffer
        BY DEF InUse
    <3>1. CASE h.buffer = b
          BY <1>4, <3>1
    <3>2. CASE h.buffer # b
      <4>1. job[u].buffer # h.buffer
            BY <1>1, <3>2 DEF NoSharing, InUse
      <4> QED BY <1>4, <1>5, <3>2, <4>1, NoneAssumption
    <3> QED BY <3>1, <3>2
  <2>3. ASSUME NEW h \in live' PROVE ~Pooled(h.buffer)'
    <3> SUFFICES ASSUME NEW e \in pools', e[2] = h.buffer PROVE FALSE
        BY DEF Pooled
    <3>1. CASE h.buffer = b
          BY <3>1
    <3>2. CASE h.buffer # b
          BY <1>1, <3>2 DEF NoSharing, Pooled
    <3> QED BY <3>1, <3>2
  <2>4. ASSUME NEW u \in Threads, NEW v \in Threads, u # v, job'[u].buffer = job'[v].buffer
        PROVE  job'[u].buffer = NoBuffer
    <3>1. CASE u # t /\ v # t
          BY <1>1, <1>4, <2>4, <3>1 DEF NoSharing
    <3>2. CASE u = t \/ v = t
          BY <1>4, <2>4, <3>2
    <3> QED BY <3>1, <3>2
  <2> QED BY <2>1, <2>2, <2>3, <2>4 DEF NoSharing
<1>8. HandlesIntact'
  <2> SUFFICES ASSUME NEW h \in live'
               PROVE  heap'[h.buffer] = [key |-> PoolKey[h.shape], flat |-> h.flat,
                                         shape |-> h.shape, valid |-> TRUE]
      BY DEF HandlesIntact
  <2>1. CASE h.buffer = b
        BY <2>1
  <2>2. CASE h.buffer # b
        BY <1>1, <1>5, <2>2 DEF HandlesIntact
  <2> QED BY <2>1, <2>2
<1>9. NoFalseAlarm'
      BY <1>1 DEF NoFalseAlarm
<1>10. ASSUME NEW u \in Threads, u # t
       PROVE  /\ job'[u] = job[u]
              /\ job[u].buffer # NoBuffer =>
                   heap'[job[u].buffer] = heap[job[u].buffer] /\ job[u].buffer \in Buffers
       BY <1>3, <1>4, <1>10 DEF Jobs
<1>11. Places'
  <2>1. ASSUME NEW u \in Threads, job'[u].buffer # NoBuffer
        PROVE  (\A e \in pools' : e[2] # job'[u].buffer) /\ heap'[job'[u].buffer].key # NoKey
    <3>1. CASE u = t
          BY <1>4, <2>1, <3>1
    <3>2. CASE u # t
      <4>1. job'[u] = job[u] /\ heap'[job[u].buffer] = heap[job[u].buffer]
            BY <1>10, <2>1, <3>2
      <4>2. ~Pooled(job[u].buffer) /\ heap[job[u].buffer].key # NoKey
            BY <1>1, <2>1, <4>1 DEF Places
      <4> QED BY <3>2, <4>1, <4>2 DEF Pooled
    <3> QED BY <3>1, <3>2
  <2> QED BY <2>1 DEF Places, Pooled
<1>12. ASSUME NEW u \in Threads PROVE Knows(job[u])'
  <2>1. CASE u = t
        BY <1>4, <2>1 DEF Knows, Fits
  <2>2. CASE u # t
    <3> DEFINE w == job[u]
    <3>1. Knows(w) /\ job'[u] = w
          BY <1>2, <1>10, <2>2
    <3>2. w.buffer # NoBuffer => heap'[w.buffer] = heap[w.buffer]
          BY <1>10, <2>2
    <3> HIDE DEF w
    <3>3. w.stage \in Finalizing \union {"fill"} => w.buffer # NoBuffer
          BY <3>1 DEF Knows, Creating, Finalizing
    <3>4. w.stage \in Finalizing \union {"fill"} => heap'[w.buffer] = heap[w.buffer]
          BY <3>2, <3>3
    <3> QED BY <3>1, <3>4 DEF Knows, Fits, Finalizing
  <2> QED BY <2>1, <2>2
<1> QED BY <1>6, <1>7, <1>8, <1>9, <1>11, <1>12 DEF BufInv

(* The pool, or the allocator, gives up a buffer that nobody had.             *)
LEMMA TakeBufInv ==
  ASSUME BufInv, NEW t \in Threads, Take(t)
  PROVE  BufInv'
<1> DEFINE key == PoolKey[job[t].shape]
<1> DEFINE pool == Pool(job[t].generation, key)
<1>1. TypeOK /\ NoSharing /\ HandlesIntact /\ Places
      BY DEF BufInv
<1>2. job[t] \in Jobs /\ Knows(job[t]) /\ job[t].stage = "take" /\ heap \in [Buffers -> Fields]
      BY DEF BufInv, TypeOK, Take
<1>3. job[t].shape \in Shapes /\ job[t].call # 0 /\ key \in Keys /\ key # NoKey
      BY <1>2, KeysAreKeys DEF Knows, Creating
<1>4. PICK b \in Buffers :
        /\ \/ <<pool, b>> \in pools /\ pools' = pools \ {<<pool, b>>} /\ UNCHANGED heap
           \/ /\ heap[b].key = NoKey /\ UNCHANGED pools
              /\ heap' = [heap EXCEPT ![b].key = key]
        /\ job' = [job EXCEPT ![t].stage = "fill", ![t].buffer = b]
      BY DEF Take, Pool, KeyOf
<1>5. UNCHANGED <<generation, finalized, live, alarms, calls, crashed>>
      BY DEF Take, Ghosts
<1>6. pool.key = key
      BY DEF Pool
<1>7. PICK j \in Jobs : j = [job[t] EXCEPT !.stage = "fill", !.buffer = b]
      BY <1>2 DEF Jobs, Stages
<1>8. /\ j.stage = "fill" /\ j.buffer = b /\ j.shape = job[t].shape
      /\ j.call = job[t].call /\ j.generation = job[t].generation
      /\ job' = [job EXCEPT ![t] = j]
      BY <1>2, <1>4, <1>7 DEF Jobs
<1> HIDE DEF pool, key
<1>9. \A u \in Threads : job[u].buffer # b
      BY <1>1, <1>4, NoneAssumption DEF Places, Pooled
<1>10. \A h \in live : h.buffer # b
  <2> SUFFICES ASSUME NEW h \in live, h.buffer = b PROVE FALSE
      OBVIOUS
  <2>1. heap[b].key = PoolKey[h.shape] /\ h.shape \in Shapes
    <3>1. heap[b] = [key |-> PoolKey[h.shape], flat |-> h.flat, shape |-> h.shape,
                     valid |-> TRUE]
          BY <1>1 DEF HandlesIntact
    <3>2. h.shape \in Shapes
          BY <1>1 DEF TypeOK, Handles
    <3> QED BY <3>1, <3>2
  <2>2. <<pool, b>> \notin pools
        BY <1>1 DEF NoSharing, Pooled
  <2> QED BY <1>4, <2>1, <2>2, KeysAreKeys
<1>11. \A e \in pools' : e[2] # b
  <2> SUFFICES ASSUME NEW e \in pools', e[2] = b PROVE FALSE
      OBVIOUS
  <2>1. e \in pools /\ heap[b].key # NoKey
        BY <1>1, <1>4 DEF TypeOK, PoolsFit
  <2> QED BY <1>1, <1>4, <2>1 DEF Places
<1>12. pools' \subseteq pools /\ \A e, f \in pools' : e[2] = f[2] => e = f
       BY <1>1, <1>4 DEF Places
<1>13. \A c \in Buffers : c # b => heap'[c] = heap[c]
       BY <1>2, <1>4
<1>14. heap'[b].key = key /\ heap' \in [Buffers -> Fields]
  <2>1. CASE <<pool, b>> \in pools /\ UNCHANGED heap
    <3>1. heap[b].key = key
          BY <1>1, <1>6, <2>1 DEF TypeOK, PoolsFit
    <3> QED BY <1>2, <2>1, <3>1
  <2>2. CASE heap' = [heap EXCEPT ![b].key = key]
        BY <1>2, <1>3, <2>2 DEF Fields
  <2> QED BY <1>4, <2>1, <2>2
<1>15. PoolsFit'
       BY <1>1, <1>5, <1>11, <1>12, <1>13 DEF TypeOK, PoolsFit
<1>16. Knows(j)'
  <2>1. generation' = generation /\ job[t].generation <= generation
        BY <1>2, <1>5 DEF Knows
  <2>2. b # NoBuffer
        BY NoneAssumption
  <2>3. Fits(b, j.shape)'
        BY <1>3, <1>8, <1>14 DEF Fits, key
  <2>4. j.generation <= generation' /\ j.call # 0
        BY <1>3, <1>8, <2>1
  <2> QED BY <1>8, <2>2, <2>3, <2>4 DEF Knows, Creating, Finalizing
<1>17. live \subseteq Handles /\ calls' \in 0..MaxCalls
       BY <1>1, <1>5 DEF TypeOK
<1>18. NowInHands(t, b, j)
       BY <1>8, <1>9, <1>16 DEF NowInHands
<1>19. NowInHeap(b)
       BY <1>3, <1>13, <1>14 DEF NowInHeap
<1>20. NowPooled(b)
       BY <1>12, <1>15 DEF NowPooled
<1>21. NowHandled(b) /\ NowInOnePlace(b, j)
       BY <1>5, <1>10, <1>11, <1>17 DEF NowHandled, NowInOnePlace
<1> QED BY <1>5, <1>17, <1>18, <1>19, <1>20, <1>21, MoveStep

(* What holds of the buffer that a call works on: nobody else has it.         *)
LEMMA InHands ==
  ASSUME BufInv, NEW t \in Threads, job[t].stage \in Finalizing \union {"fill"}
  PROVE  LET b == job[t].buffer IN
         /\ b \in Buffers /\ heap[b] \in Fields /\ heap[b].key # NoKey
         /\ job[t] \in Jobs /\ Knows(job[t])
         /\ \A u \in Threads : u # t => job[u].buffer # b
         /\ \A h \in live : h.buffer # b
         /\ \A e \in pools : e[2] # b
<1>1. TypeOK /\ NoSharing /\ Places /\ Knows(job[t])
      BY DEF BufInv
<1>2. job[t] \in Jobs
      BY <1>1 DEF TypeOK
<1>3. job[t].buffer # NoBuffer
      BY <1>1 DEF Knows, Creating, Finalizing
<1>4. job[t].buffer \in Buffers
      BY <1>2, <1>3 DEF Jobs
<1>5. heap[job[t].buffer] \in Fields
      BY <1>1, <1>4 DEF TypeOK
<1>6. \A u \in Threads : u # t => job[u].buffer # job[t].buffer
      BY <1>1, <1>3 DEF NoSharing
<1>7. \A h \in live : h.buffer # job[t].buffer
      BY <1>1 DEF NoSharing, InUse
<1>8. heap[job[t].buffer].key # NoKey /\ \A e \in pools : e[2] # job[t].buffer
      BY <1>1, <1>3 DEF Places, Pooled
<1> QED BY <1>1, <1>2, <1>4, <1>5, <1>6, <1>7, <1>8

(* A call changes the fields of its buffer, but not the slice's type and      *)
(* length, and keeps it, drops it or gives it to the client as handle h.      *)
LEMMA HandsStep ==
  ASSUME BufInv, NEW t \in Threads, job[t].stage \in Finalizing \union {"fill"},
         NEW fields \in Fields, fields.key = heap[job[t].buffer].key,
         heap' = [heap EXCEPT ![job[t].buffer] = fields],
         NEW j \in Jobs, job' = [job EXCEPT ![t] = j], Knows(j)',
         \/ j.buffer \in {NoBuffer, job[t].buffer} /\ UNCHANGED live
         \/ /\ j.buffer = NoBuffer
            /\ \E h \in Handles :
                 /\ h.buffer = job[t].buffer /\ live' = live \union {h}
                 /\ fields = [key |-> PoolKey[h.shape], flat |-> h.flat,
                              shape |-> h.shape, valid |-> TRUE],
         UNCHANGED <<pools, generation, alarms, finalized, crashed, calls>>
  PROVE  BufInv'
<1>1. PICK b \in Buffers : b = job[t].buffer
      BY InHands
<1>2. /\ heap[b].key # NoKey /\ b # NoBuffer
      /\ \A u \in Threads : u # t => job[u].buffer # b
      /\ \A h \in live : h.buffer # b
      /\ \A e \in pools' : e[2] # b
      BY <1>1, InHands, NoneAssumption
<1>3. TypeOK /\ Places
      BY DEF BufInv
<1>4. heap' \in [Buffers -> Fields] /\ \A c \in Buffers : c # b => heap'[c] = heap[c]
      BY <1>1, <1>3 DEF TypeOK
<1>5. heap'[b] = fields /\ heap'[b].key = heap[b].key
      BY <1>1, <1>3 DEF TypeOK
<1>6. PoolsFit'
  <2> SUFFICES ASSUME NEW e \in pools
               PROVE  /\ e[2] \in Buffers /\ e[1].generation \in 0..generation
                      /\ e[1].key = heap'[e[2]].key /\ e[1].key # NoKey
      BY DEF PoolsFit
  <2>1. /\ e[2] \in Buffers /\ e[1].generation \in 0..generation
        /\ e[1].key = heap[e[2]].key /\ e[1].key # NoKey
        BY <1>3 DEF TypeOK, PoolsFit
  <2>2. heap'[e[2]].key = heap[e[2]].key
        BY <1>4, <1>5, <2>1
  <2> QED BY <2>1, <2>2
<1>7. NowPooled(b) /\ calls' \in 0..MaxCalls
      BY <1>3, <1>6 DEF Places, TypeOK, NowPooled
<1>8. NowHandled(b) /\ NowInOnePlace(b, j)
  <2>0. live \subseteq Handles
        BY <1>3 DEF TypeOK
  <2>1. CASE UNCHANGED live
        BY <1>2, <2>0, <2>1 DEF NowHandled, NowInOnePlace
  <2>2. CASE \E h \in Handles :
               /\ j.buffer = NoBuffer
               /\ h.buffer = job[t].buffer /\ live' = live \union {h}
               /\ fields = [key |-> PoolKey[h.shape], flat |-> h.flat,
                            shape |-> h.shape, valid |-> TRUE]
    <3>1. PICK h \in Handles :
               /\ j.buffer = NoBuffer
               /\ h.buffer = b /\ live' = live \union {h}
               /\ fields = [key |-> PoolKey[h.shape], flat |-> h.flat,
                            shape |-> h.shape, valid |-> TRUE]
          BY <1>1, <2>2
    <3>2. \A i \in live' : i.buffer = b => i = h
          BY <1>2, <3>1
    <3>3. NowHandled(b)
          BY <1>2, <1>5, <2>0, <3>1, <3>2 DEF NowHandled
    <3> QED BY <1>2, <3>1, <3>3 DEF NowInOnePlace
  <2> QED BY <2>1, <2>2
<1>9. NowInHands(t, b, j) /\ NowInHeap(b)
      BY <1>1, <1>2, <1>4, <1>5 DEF NowInHands, NowInHeap
<1> QED BY <1>7, <1>8, <1>9, MoveStep

LEMMA IdleKnows ==
  ASSUME BufInv, UNCHANGED generation
  PROVE  Idle \in Jobs /\ Idle.buffer = NoBuffer /\ Knows(Idle)'
<1>1. /\ Idle \in Jobs /\ Idle.buffer = NoBuffer /\ Idle.stage = "idle"
      /\ Idle.generation = 0
      BY PoolKeyAssumption DEF Idle, Jobs, Stages
<1>2. 0 <= generation'
      BY DEF BufInv, TypeOK
<1> QED BY <1>1, <1>2 DEF Knows, Creating, Finalizing

(* The new handle gets the caller's data and shape, and a slice that fits.    *)
LEMMA FillBufInv ==
  ASSUME BufInv, NEW t \in Threads, Fill(t)
  PROVE  BufInv'
<1>1. /\ job[t].stage = "fill" /\ job' = [job EXCEPT ![t] = Idle]
      /\ UNCHANGED <<pools, generation, alarms, finalized, crashed, calls>>
      BY DEF Fill, Return, Backend
<1>2. PICK b \in Buffers : b = job[t].buffer
      BY <1>1, InHands
<1>3. heap[b] \in Fields /\ job[t] \in Jobs /\ Knows(job[t])
      BY <1>1, <1>2, InHands
<1>4. /\ job[t].shape \in Shapes /\ heap[b].key = PoolKey[job[t].shape]
      /\ job[t].call \in 1..MaxCalls
      BY <1>1, <1>2, <1>3, PoolKeyAssumption DEF Knows, Fits, Jobs
<1>5. PICK h \in Handles :
        h = [buffer |-> b, shape |-> job[t].shape, flat |-> job[t].call]
      BY <1>4 DEF Handles
<1> DEFINE f == [key |-> PoolKey[job[t].shape], flat |-> job[t].call,
                 shape |-> job[t].shape, valid |-> TRUE]
<1>14. PoolKey[job[t].shape] \in Keys /\ job[t].call \in 0..MaxCalls
      BY <1>4, KeysAreKeys, PoolKeyAssumption
<1>15. f \in Fields
      BY <1>4, <1>14 DEF Fields
<1>6. PICK fields \in Fields : fields = f
      BY <1>15
<1>7. heap' = [heap EXCEPT ![b] = [@ EXCEPT !.valid = TRUE, !.shape = job[t].shape,
                                            !.flat = job[t].call]]
      BY <1>2 DEF Fill
<1>8. [heap[b] EXCEPT !.valid = TRUE, !.shape = job[t].shape, !.flat = job[t].call] = fields
  <2> DEFINE z == [heap[b] EXCEPT !.valid = TRUE, !.shape = job[t].shape,
                                  !.flat = job[t].call]
  <2>1. /\ z \in Fields /\ z.key = heap[b].key /\ z.flat = job[t].call
        /\ z.shape = job[t].shape /\ z.valid = TRUE
        BY <1>3, <1>4, <1>14 DEF Fields
  <2> HIDE DEF z
  <2>2. z = [key |-> z.key, flat |-> z.flat, shape |-> z.shape, valid |-> z.valid]
        BY <2>1 DEF Fields
  <2>3. z = f
        BY <1>4, <2>1, <2>2
  <2> QED BY <1>6, <2>3 DEF z
<1>9. heap' = [heap EXCEPT ![b] = fields]
      BY <1>7, <1>8
<1>10. live' = live \union {h} /\ h.buffer = b
       BY <1>2, <1>5 DEF Fill
<1>11. fields.key = heap[b].key
       BY <1>4, <1>5, <1>6
<1>12. fields = [key |-> PoolKey[h.shape], flat |-> h.flat, shape |-> h.shape, valid |-> TRUE]
       BY <1>5, <1>6
<1> HIDE DEF f
<1>13. Knows(Idle)' /\ Idle.buffer = NoBuffer /\ Idle \in Jobs
       BY <1>1, IdleKnows
<1> QED BY <1>1, <1>2, <1>9, <1>10, <1>11, <1>12, <1>13, HandsStep

LEMMA FillFailsBufInv ==
  ASSUME BufInv, NEW t \in Threads, FillFails(t)
  PROVE  BufInv'
<1>1. /\ job[t].stage = "fill" /\ job' = [job EXCEPT ![t] = Idle]
      /\ UNCHANGED <<pools, generation, live, alarms, finalized, crashed, calls>>
      BY DEF FillFails, Return, Backend, Ghosts
<1>2. PICK b \in Buffers : b = job[t].buffer
      BY <1>1, InHands
<1>3. heap[b] \in Fields /\ Knows(job[t])
      BY <1>1, <1>2, InHands
<1>4. job[t].shape \in Shapes
      BY <1>1, <1>3 DEF Knows, Fits
<1>5. PICK fields \in Fields :
        fields = [heap[b] EXCEPT !.valid = TRUE, !.shape = job[t].shape]
      BY <1>3, <1>4 DEF Fields
<1>6. heap' = [heap EXCEPT ![b] = fields]
      BY <1>2, <1>5 DEF FillFails
<1>7. fields.key = heap[b].key
      BY <1>3, <1>5 DEF Fields
<1> QED BY <1>1, <1>2, <1>6, <1>7, IdleKnows, HandsStep

LEMMA InvalidateBufInv ==
  ASSUME BufInv, NEW t \in Threads, Invalidate(t)
  PROVE  BufInv'
<1>1. /\ job[t].stage = "invalidate"
      /\ job' = [job EXCEPT ![t].stage = "load to put"]
      /\ UNCHANGED <<pools, generation, live, alarms, finalized, crashed, calls>>
  <2>1. job[t].stage = "invalidate" /\ StageAfter("invalidate") = "load to put"
        BY DEF Invalidate, StageAfter
  <2>2. Goto(t, "load to put")
        BY <2>1 DEF Invalidate, Advance
  <2> QED BY <2>1, <2>2 DEF Invalidate, Goto, Backend, Ghosts
<1>2. job[t].stage \in Finalizing
      BY <1>1 DEF Finalizing
<1>3. PICK b \in Buffers : b = job[t].buffer
      BY <1>2, InHands
<1>4. heap[b] \in Fields /\ job[t] \in Jobs /\ Knows(job[t])
      BY <1>2, <1>3, InHands
<1>5. PICK fields \in Fields : fields = [heap[b] EXCEPT !.valid = FALSE]
      BY <1>4 DEF Fields
<1>6. heap' = [heap EXCEPT ![b] = fields]
      BY <1>3, <1>5 DEF Invalidate
<1>7. fields.key = heap[b].key /\ fields.shape = heap[b].shape
      BY <1>4, <1>5 DEF Fields
<1>8. PICK j \in Jobs : j = [job[t] EXCEPT !.stage = "load to put"]
      BY <1>4 DEF Jobs, Stages
<1>9. /\ j.stage = "load to put" /\ j.buffer = b /\ j.generation = job[t].generation
      /\ job' = [job EXCEPT ![t] = j]
      BY <1>1, <1>3, <1>4, <1>8 DEF Jobs
<1>10. heap'[b] = fields
       BY <1>6 DEF BufInv, TypeOK
<1>11. Fits(b, heap[b].shape)' /\ b # NoBuffer /\ j.generation <= generation'
       BY <1>1, <1>2, <1>3, <1>4, <1>7, <1>9, <1>10, NoneAssumption DEF Knows, Fits
<1>12. Knows(j)'
       BY <1>9, <1>11 DEF Knows, Creating, Finalizing
<1> QED BY ZenonT(40), <1>1, <1>2, <1>3, <1>6, <1>7, <1>9, <1>12, HandsStep

(* Put: the buffer goes back to a pool for the type and length of its slice.  *)
LEMMA PutBufInv ==
  ASSUME BufInv, NEW t \in Threads, Put(t)
  PROVE  BufInv'
<1>1. job[t].stage = "put" /\ job[t].stage \in Finalizing
      BY DEF Put, Finalizing
<1>2. PICK b \in Buffers : b = job[t].buffer
      BY <1>1, InHands
<1>3. /\ heap[b].key # NoKey /\ job[t] \in Jobs /\ Knows(job[t])
      /\ \A u \in Threads : u # t => job[u].buffer # b
      /\ \A h \in live : h.buffer # b
      /\ \A e \in pools : e[2] # b
      BY <1>1, <1>2, InHands
<1>4. TypeOK /\ Places
      BY DEF BufInv
<1>5. UNCHANGED <<heap, generation, live, alarms, finalized, crashed, calls>>
      BY DEF Put, Ghosts
<1>6. job' = [job EXCEPT ![t] = Idle]
  <2>1. job[t].stage = "put" /\ StageAfter("put") = "idle"
        BY <1>1 DEF StageAfter
  <2> QED BY <2>1 DEF Put, Advance, Return
<1>7. PICK key \in Keys : key = heap[b].key /\ key = PoolKey[heap[b].shape]
      BY <1>1, <1>2, <1>3, KeysAreKeys DEF Knows, Fits
<1>8. PICK gen \in 0..generation : gen = job[t].generation
      BY <1>3, <1>4 DEF Knows, Jobs, TypeOK
<1>9. PICK entry : entry = <<Pool(gen, key), b>>
      OBVIOUS
<1>10. pools' = pools \union {entry}
       BY <1>2, <1>7, <1>8, <1>9 DEF Put, KeyOf
<1>11. entry[2] = b /\ entry[1].key = heap[b].key /\ entry[1].generation \in 0..generation
       BY <1>7, <1>8, <1>9 DEF Pool
<1>12. NowPooled(b)
  <2>1. PoolsFit /\ \A e, f \in pools : e[2] = f[2] => e = f
        BY <1>4 DEF TypeOK, Places
  <2>2. PoolsFit'
        BY <1>3, <1>5, <1>10, <1>11, <2>1 DEF PoolsFit
  <2>3. \A e, f \in pools' : e[2] = f[2] => e = f
        BY <1>3, <1>10, <1>11, <2>1
  <2> QED BY <1>10, <1>11, <2>2, <2>3 DEF NowPooled
<1>13. Knows(Idle)' /\ Idle.buffer = NoBuffer /\ Idle \in Jobs /\ b # NoBuffer
       BY <1>5, IdleKnows, NoneAssumption
<1>14. NowInHeap(b)
       BY <1>3, <1>4, <1>5 DEF TypeOK, NowInHeap
<1>15. live \subseteq Handles /\ calls' \in 0..MaxCalls
       BY <1>4, <1>5 DEF TypeOK
<1>16. NowHandled(b) /\ NowInOnePlace(b, Idle)
       BY <1>3, <1>5, <1>13, <1>15 DEF NowHandled, NowInOnePlace
<1>17. NowInHands(t, b, Idle)
       BY <1>3, <1>6, <1>13 DEF NowInHands
<1> QED BY <1>5, <1>12, <1>13, <1>14, <1>15, <1>16, <1>17, MoveStep

(* The client gives a handle up: to the call, or to nobody when the backend   *)
(* is finalized.                                                             *)
LEMMA BufferFinalizeBufInv ==
  ASSUME BufInv, NEW t \in Threads, NEW h \in live, BufferFinalize(t, h)
  PROVE  BufInv'
<1>1. TypeOK /\ NoSharing /\ HandlesIntact /\ Places
      BY DEF BufInv
<1>2. h \in Handles /\ live \subseteq Handles
      BY <1>1 DEF TypeOK
<1>3. PICK b \in Buffers : b = h.buffer
      BY <1>2 DEF Handles
<1>4. /\ \A u \in Threads : job[u].buffer # b
      /\ \A e \in pools : e[2] # b
      /\ \A i \in live : i.buffer = b => i = h
      BY <1>1, <1>3 DEF NoSharing, InUse, Pooled
<1>5. /\ h.shape \in Shapes /\ h.flat \in 1..MaxCalls /\ heap[b] \in Fields
      /\ heap[b] = [key |-> PoolKey[h.shape], flat |-> h.flat, shape |-> h.shape,
                    valid |-> TRUE]
      BY <1>1, <1>2, <1>3 DEF Handles, HandlesIntact, TypeOK
<1>6. /\ heap[b].key = PoolKey[h.shape] /\ heap[b].key # NoKey /\ heap[b].shape = h.shape
      /\ heap[b].flat # NoFlat /\ heap[b].valid
      BY <1>5, KeysAreKeys DEF NoFlat
<1>7. live' = live \ {h} /\ UNCHANGED <<pools, generation, finalized, alarms, crashed>>
      BY DEF BufferFinalize, Backend
<1>8. \A i \in live' : i.buffer # b /\ i \in live
      BY <1>4, <1>7
<1>9. calls \in 0..MaxCalls /\ calls < MaxCalls /\ calls' = calls + 1
      BY <1>1 DEF BufferFinalize, Call, TypeOK
<1>10. calls + 1 \in 1..MaxCalls /\ calls' \in 0..MaxCalls /\ b # NoBuffer
       BY <1>9, PoolKeyAssumption, NoneAssumption
<1>11. job[t] = Idle
       BY DEF BufferFinalize, Call
<1>12. CASE /\ job' = [job EXCEPT ![t] = [Idle EXCEPT !.stage = "valid?", !.buffer = b,
                                                      !.call = calls + 1]]
            /\ UNCHANGED heap
  <2> DEFINE k == [Idle EXCEPT !.stage = "valid?", !.buffer = b, !.call = calls + 1]
  <2>10. k \in Jobs
    <3>1. Idle \in Jobs
          BY PoolKeyAssumption DEF Idle, Jobs, Stages
    <3>2. calls + 1 \in 0..MaxCalls /\ "valid?" \in Stages
          BY <1>10 DEF Stages
    <3> QED BY <3>1, <3>2 DEF Jobs
  <2>11. k.stage = "valid?" /\ k.buffer = b /\ k.generation = 0
         BY DEF Idle
  <2>1. PICK j \in Jobs : j = k
        BY <2>10
  <2>2. job' = [job EXCEPT ![t] = j]
        BY <1>12, <2>1
  <2>3. j.stage = "valid?" /\ j.buffer = b /\ j.generation = 0
        BY <2>1, <2>11
  <2> HIDE DEF k
  <2>4. Fits(b, heap[b].shape)' /\ heap'[b].valid /\ heap'[b].flat # NoFlat
        BY <1>5, <1>6, <1>12 DEF Fits
  <2>5. 0 <= generation'
        BY <1>1, <1>7 DEF TypeOK
  <2>6. Knows(j)'
        BY <1>10, <2>3, <2>4, <2>5 DEF Knows, Creating, Finalizing
  <2>7. NowInHeap(b) /\ NowPooled(b)
        BY <1>1, <1>6, <1>7, <1>12 DEF TypeOK, PoolsFit, Places, NowInHeap, NowPooled
  <2>8. NowHandled(b) /\ NowInOnePlace(b, j)
        BY <1>2, <1>4, <1>7, <1>8 DEF NowHandled, NowInOnePlace
  <2>9. NowInHands(t, b, j)
        BY <1>4, <2>2, <2>3, <2>6 DEF NowInHands
  <2> QED BY <1>7, <1>10, <2>7, <2>8, <2>9, MoveStep
<1>13. CASE heap' = [heap EXCEPT ![b].flat = NoFlat] /\ UNCHANGED job
  <2>1. /\ \A c \in Buffers : c # b => heap'[c] = heap[c]
        /\ heap'[b] = [heap[b] EXCEPT !.flat = NoFlat]
        /\ heap \in [Buffers -> Fields] /\ job \in [Threads -> Jobs]
        BY <1>1, <1>13 DEF TypeOK
  <2>2. [heap[b] EXCEPT !.flat = NoFlat] \in Fields
    <3>1. heap[b] \in Fields /\ NoFlat \in 0..MaxCalls
          BY <1>5, PoolKeyAssumption DEF NoFlat
    <3> QED BY <3>1 DEF Fields
  <2>3. heap' \in [Buffers -> Fields] /\ heap'[b].key = heap[b].key
        BY <1>5, <1>13, <2>1, <2>2 DEF Fields
  <2>4. Knows(Idle)' /\ Idle.buffer = NoBuffer /\ Idle \in Jobs
        BY <1>7, IdleKnows
  <2>5. job' = [job EXCEPT ![t] = Idle]
        BY <1>11, <1>13, <2>1
  <2>6. NowInHeap(b)
        BY <1>6, <2>1, <2>3 DEF NowInHeap
  <2>7. NowPooled(b)
        BY <1>1, <1>4, <1>7, <2>1 DEF TypeOK, PoolsFit, Places, NowPooled
  <2>8. NowHandled(b) /\ NowInOnePlace(b, Idle)
        BY <1>2, <1>4, <1>7, <1>8 DEF NowHandled, NowInOnePlace
  <2>9. NowInHands(t, b, Idle)
        BY <1>4, <2>4, <2>5 DEF NowInHands
  <2> QED BY <1>7, <1>10, <2>4, <2>6, <2>7, <2>8, <2>9, MoveStep
<1> QED BY <1>3, <1>12, <1>13 DEF BufferFinalize, Call

(***************************************************************************)
(* Backend.Finalize and the collector: no handle and no call is concerned.  *)
(***************************************************************************)

LEMMA BackendBufInv ==
  ASSUME BufInv, SetFinalized \/ ClearPools \/ Collect
  PROVE  BufInv'
<1>1. TypeOK /\ NoSharing /\ HandlesIntact /\ NoFalseAlarm /\ Places
      BY DEF BufInv
<1>2. /\ UNCHANGED <<heap, job, live, alarms, calls, crashed>>
      /\ pools' \subseteq pools /\ finalized' \in BOOLEAN
      BY <1>1 DEF SetFinalized, ClearPools, Collect, Ghosts, TypeOK
<1>3. generation \in 0..1 /\ generation' \in 0..1 /\ generation <= generation'
      BY <1>1 DEF SetFinalized, ClearPools, Collect, TypeOK
<1>4. TypeOK'
  <2>1. PoolsFit'
        BY <1>1, <1>2, <1>3 DEF TypeOK, PoolsFit
  <2> QED BY <1>1, <1>2, <1>3, <2>1 DEF TypeOK
<1>5. NoSharing'
      BY <1>1, <1>2 DEF NoSharing, InUse, Pooled
<1>6. HandlesIntact' /\ NoFalseAlarm' /\ Places'
      BY <1>1, <1>2 DEF HandlesIntact, NoFalseAlarm, Places, Pooled
<1>7. ASSUME NEW t \in Threads PROVE Knows(job[t])'
  <2>1. Knows(job[t]) /\ job[t].generation \in 0..1 /\ job'[t] = job[t]
        BY <1>1, <1>2 DEF BufInv, TypeOK, Jobs
  <2>2. job[t].generation <= generation'
        BY <1>3, <2>1 DEF Knows
  <2> QED BY <1>2, <2>1, <2>2 DEF Knows, Fits
<1> QED BY <1>4, <1>5, <1>6, <1>7 DEF BufInv

LEMMA InitBufInv ==
  ASSUME Init
  PROVE  BufInv
<1>1. Unallocated \in Fields /\ Idle \in Jobs
      BY PoolKeyAssumption DEF Unallocated, Fields, Idle, Jobs, Stages, NoFlat
<1>2. /\ \A t \in Threads : job[t] = Idle
      /\ live = {} /\ pools = {} /\ alarms = 0 /\ generation = 0
      BY DEF Init
<1>3. Idle.buffer = NoBuffer /\ Idle.stage = "idle" /\ Idle.generation = 0
      BY DEF Idle
<1>4. TypeOK
  <2>1. PoolsFit
        BY <1>2 DEF PoolsFit
  <2>4. 0 \in 0..MaxCalls /\ 0 \in 0..1 /\ 0 \in Nat
        BY PoolKeyAssumption
  <2>2. heap \in [Buffers -> Fields] /\ job \in [Threads -> Jobs]
        BY <1>1 DEF Init
  <2>3. generation = 0 /\ finalized = FALSE /\ crashed = FALSE /\ live = {} /\ alarms = 0
        /\ calls = 0
        BY DEF Init
  <2> QED BY <2>1, <2>2, <2>3, <2>4 DEF TypeOK
<1>5. NoSharing /\ HandlesIntact /\ NoFalseAlarm /\ Places
      BY <1>2, <1>3 DEF NoSharing, HandlesIntact, NoFalseAlarm, Places
<1>6. \A t \in Threads : Knows(job[t])
  <2>1. Knows(Idle)
        BY <1>2, <1>3 DEF Knows, Creating, Finalizing
  <2> QED BY <1>2, <2>1
<1> QED BY <1>4, <1>5, <1>6 DEF BufInv

LEMMA StepBufInv ==
  ASSUME BufInv, [Next]_vars
  PROVE  BufInv'
<1>1. CASE UNCHANGED vars
      BY <1>1 DEF vars, BufInv, TypeOK, PoolsFit, NoSharing, InUse, Pooled, HandlesIntact,
                  NoFalseAlarm, Places, Knows, Fits
<1>2. ASSUME NEW t \in Threads, NEW s \in Shapes,
             BufferFromFlatData(t, s) \/ RuntimeDataToBuffer(t, s)
      PROVE  BufInv'
      BY <1>2, CreationBufInv
<1>3. ASSUME NEW t \in Threads,
             \/ NewBufferChecks(t) \/ GetBufferChecks(t) \/ LoadPool(t) \/ Take(t)
             \/ Fill(t) \/ FillFails(t)
             \/ CheckValid(t) \/ PutBufferChecks(t) \/ Invalidate(t) \/ Put(t)
      PROVE  BufInv'
      BY <1>3, ChecksBufInv, LoadPoolBufInv, TakeBufInv, FillBufInv, FillFailsBufInv,
         CheckValidBufInv, PutBufferChecksBufInv, InvalidateBufInv, PutBufInv
<1>4. ASSUME NEW t \in Threads, NEW h \in live, BufferFinalize(t, h)
      PROVE  BufInv'
      BY <1>4, BufferFinalizeBufInv
<1>5. CASE SetFinalized \/ ClearPools \/ Collect
      BY <1>5, BackendBufInv
<1> QED BY <1>1, <1>2, <1>3, <1>4, <1>5 DEF Next

LEMMA Invariance == Spec => []BufInv
<1>1. Init => BufInv
      BY InitBufInv
<1>2. BufInv /\ [Next]_vars => BufInv'
      BY StepBufInv
<1> QED BY <1>1, <1>2, PTL DEF Spec

-----------------------------------------------------------------------------
(* Every reachable state has the documented types, and what a pool holds fits *)
(* the pool.                                                                 *)
THEOREM TypeCorrect == Spec => []TypeOK
<1>1. BufInv => TypeOK
      BY DEF BufInv
<1> QED BY <1>1, Invariance, PTL

(* However the goroutines interleave with each other and with                *)
(* Backend.Finalize, a buffer has one owner.                                 *)
THEOREM OneOwner == Spec => []NoSharing
<1>1. BufInv => NoSharing
      BY DEF BufInv
<1> QED BY <1>1, Invariance, PTL

(* A handle keeps the data and the shape its creator gave it.                *)
THEOREM HandlesKeepTheirData == Spec => []HandlesIntact
<1>1. BufInv => HandlesIntact
      BY DEF BufInv
<1> QED BY <1>1, Invariance, PTL

(* BufferFinalize never mistakes a buffer that its client holds for one that  *)
(* was finalized.                                                            *)
THEOREM NoFalseAlarms == Spec => []NoFalseAlarm
<1>1. BufInv => NoFalseAlarm
      BY DEF BufInv
<1> QED BY <1>1, Invariance, PTL

===============================================================================
