-------------------------- MODULE GomlxCompileProofs --------------------------
(***************************************************************************)
(* Proofs about GomlxCompile, for any number of goroutines, calls and units. *)
(*                                                                          *)
(* What ties directories, calls and executables together is that a directory *)
(* is named by the goroutine and the number of the call that made it, and    *)
(* that the numbers of the calls that are over are behind the counter: a     *)
(* call that begins has a name nobody used (Calls, Stored).                  *)
(***************************************************************************)
EXTENDS GomlxCompile, FiniteSetTheorems, TLAPS

(* A goroutine beyond "idle" has made a runtime and a call, and beyond        *)
(* "mkdir" its directory is the one of this call.                             *)
Calls ==
  /\ \A g \in Goroutines : pc[g] # "idle" => compiles[g] # 0 /\ setting[g] # None
  /\ \A g \in Goroutines : Working(g) => dir[g] = <<g, compiles[g]>>

(* An executable came out of a call that is over.                             *)
Stored ==
  /\ \A e \in executables :
       /\ e.dir = <<e.by, e.call>> /\ e.call <= compiles[e.by]
       /\ pc[e.by] # "idle" => e.call < compiles[e.by]
  /\ \A e, f \in executables : e.dir = f.dir => e = f

Models ==
  /\ \A e \in Opened : dirs[e.dir] = "model"
  /\ \A g \in Goroutines : pc[g] = "load" => dirs[dir[g]] = "model"

DirInv == TypeOK /\ Calls /\ Stored /\ Models /\ DirsAccountedFor

(***************************************************************************)
(* The stages of Compile.                                                   *)
(***************************************************************************)

LEMMA InitDirInv == Init => DirInv
<1> SUFFICES ASSUME Init PROVE DirInv
    OBVIOUS
<1> USE CompileAssumption DEF Init
<1>1. TypeOK
      BY DEF TypeOK, Stages, Dirs
<1>2. Calls /\ Stored /\ Models /\ DirsAccountedFor
      BY DEF Calls, Stored, Models, DirsAccountedFor, Working, Opened, InUse
<1> QED BY <1>1, <1>2 DEF DirInv

LEMMA NewDirInv ==
  ASSUME DirInv, NEW g \in Goroutines, NEW u \in Units, New(g, u)
  PROVE  DirInv'
<1> USE DEF DirInv, New
<1>1. TypeOK'
      BY DEF TypeOK
<1>2. Calls' /\ Stored' /\ Models' /\ DirsAccountedFor'
      BY CompileAssumption
      DEF TypeOK, Calls, Stored, Models, DirsAccountedFor, Working, Opened, InUse
<1> QED BY <1>1, <1>2

LEMMA BeginCompileDirInv ==
  ASSUME DirInv, NEW g \in Goroutines, BeginCompile(g)
  PROVE  DirInv'
<1> USE DEF DirInv, BeginCompile, Goto
<1>1. TypeOK'
      BY CompileAssumption DEF TypeOK, Stages
<1>2. Calls'
      BY CompileAssumption DEF TypeOK, Stages, Calls, Working
<1>3. \A h \in Goroutines : compiles[h] <= compiles'[h]
      BY CompileAssumption DEF TypeOK
<1>4. Stored'
      BY <1>3, CompileAssumption DEF TypeOK, Stages, Stored
<1>5. InUse' = InUse /\ Opened' = Opened
      BY DEF TypeOK, Stages, InUse, Opened, Working
<1>6. Models' /\ DirsAccountedFor'
      BY <1>5 DEF TypeOK, Stages, Models, DirsAccountedFor
<1> QED BY <1>1, <1>2, <1>4, <1>6

(* MkdirTemp: the name is new, because every directory there is belongs to an *)
(* earlier call or to another goroutine.                                      *)
LEMMA MkdirTempDirInv ==
  ASSUME DirInv, NEW g \in Goroutines, MkdirTemp(g)
  PROVE  DirInv'
<1> DEFINE fresh == <<g, compiles[g]>>
<1> USE DEF DirInv, MkdirTemp, Goto
<1>1. CASE dir' = [dir EXCEPT ![g] = fresh] /\ Put(fresh, "nothing") /\ Goto(g, "save")
  <2> USE <1>1 DEF Put
  <2>1. DOMAIN dirs' = DOMAIN dirs \union {fresh} /\ dirs'[fresh] = "nothing"
        OBVIOUS
  <2>2. \A e \in executables : e.dir # fresh
        BY DEF TypeOK, Stored
  <2>3. \A h \in Goroutines : Working(h) => dir[h] # fresh
        BY DEF TypeOK, Stages, Calls, Working
  <2>4. TypeOK'
        BY <2>1 DEF TypeOK, Stages, Dirs, Holdings
  <2>5. Calls'
        BY CompileAssumption DEF TypeOK, Stages, Calls, Working
  <2>6. Stored'
        BY DEF TypeOK, Stages, Stored
  <2>7. InUse' = InUse \union {fresh} /\ Opened' = Opened
        BY DEF TypeOK, Stages, InUse, Opened, Working
  <2>8. DirsAccountedFor'
        BY <2>1, <2>7 DEF DirsAccountedFor
  <2>9. Models'
        BY <2>2, <2>3, <2>7 DEF TypeOK, Stages, Models, DirsAccountedFor, Opened, InUse, Working
  <2> QED BY <2>4, <2>5, <2>6, <2>8, <2>9
<1>2. CASE Goto(g, "idle") /\ UNCHANGED <<dir, dirs>>
  <2> USE <1>2
  <2>1. TypeOK' /\ Calls' /\ Stored'
        BY DEF TypeOK, Stages, Calls, Stored, Working
  <2>2. InUse' = InUse /\ Opened' = Opened
        BY DEF TypeOK, Stages, InUse, Opened, Working
  <2>3. Models' /\ DirsAccountedFor'
        BY <2>2 DEF TypeOK, Stages, Models, DirsAccountedFor
  <2> QED BY <2>1, <2>3
<1> QED BY <1>1, <1>2

(* A stage that fails: the directory of the call goes, and belonged to no     *)
(* executable and no other call.                                              *)
LEMMA GiveUpDirInv ==
  ASSUME DirInv, NEW g \in Goroutines, Working(g), GiveUp(g),
         UNCHANGED <<globalUnits, setting, marked, compiles, dir, executables>>,
         coremlDirs' \subseteq Dirs, failedMoves' \in Nat
  PROVE  DirInv'
<1> USE DEF DirInv, GiveUp, Goto, RemoveAll
<1>1. DOMAIN dirs' = DOMAIN dirs \ {dir[g]}
      OBVIOUS
<1>2. \A e \in executables : e.dir # dir[g]
      BY DEF TypeOK, Stored, Calls, Working
<1>3. \A h \in Goroutines : Working(h) /\ h # g => dir[h] # dir[g]
      BY DEF Calls
<1>4. TypeOK' /\ Calls' /\ Stored'
      BY <1>1 DEF TypeOK, Stages, Calls, Stored, Working
<1>5. InUse' = InUse \ {dir[g]} /\ Opened' = Opened
      BY <1>3 DEF TypeOK, Stages, InUse, Opened, Working
<1>6. DirsAccountedFor'
      BY <1>1, <1>2, <1>5 DEF DirsAccountedFor, Opened
<1>7. Models'
      BY <1>2, <1>3, <1>5 DEF TypeOK, Stages, Models, DirsAccountedFor, Opened, InUse, Working
<1> QED BY <1>4, <1>6, <1>7

(* A stage that succeeds puts something in the directory of its call.         *)
LEMMA AdvanceDirInv ==
  ASSUME DirInv, NEW g \in Goroutines, Working(g), NEW stage \in {"compile", "move", "load"},
         NEW what \in Holdings, stage = "load" => what = "model",
         Goto(g, stage), Put(dir[g], what),
         UNCHANGED <<globalUnits, setting, marked, compiles, dir, executables>>,
         coremlDirs' \subseteq Dirs, failedMoves' \in Nat
  PROVE  DirInv'
<1> USE DEF DirInv, Goto, Put
<1>1. DOMAIN dirs' = DOMAIN dirs /\ dirs'[dir[g]] = what
      BY DEF DirsAccountedFor, InUse
<1>2. \A e \in executables : e.dir # dir[g]
      BY DEF TypeOK, Stored, Calls, Working
<1>3. \A h \in Goroutines : Working(h) /\ h # g => dir[h] # dir[g]
      BY DEF Calls
<1>4. TypeOK' /\ Calls' /\ Stored'
      BY <1>1 DEF TypeOK, Stages, Calls, Stored, Working
<1>5. InUse' = InUse /\ Opened' = Opened
      BY DEF TypeOK, Stages, InUse, Opened, Working
<1>6. DirsAccountedFor'
      BY <1>1, <1>5 DEF DirsAccountedFor
<1>7. Models'
      BY <1>1, <1>2, <1>3, <1>5
      DEF TypeOK, Stages, Models, DirsAccountedFor, Opened, InUse, Working
<1> QED BY <1>4, <1>6, <1>7

LEMMA SaveDirInv ==
  ASSUME DirInv, NEW g \in Goroutines, SaveMLPackage(g)
  PROVE  DirInv'
<1> USE DEF SaveMLPackage
<1>1. Working(g) /\ coremlDirs' \subseteq Dirs /\ failedMoves' \in Nat
      BY DEF DirInv, TypeOK, Working, Stages
<1>2. CASE Put(dir[g], "package") /\ Goto(g, "compile")
      BY <1>1, <1>2, AdvanceDirInv DEF Holdings
<1>3. CASE GiveUp(g)
      BY <1>1, <1>3, GiveUpDirInv
<1> QED BY <1>2, <1>3

LEMMA CompileModelDirInv ==
  ASSUME DirInv, NEW g \in Goroutines, CompileModel(g)
  PROVE  DirInv'
<1> USE DEF CompileModel
<1>1. Working(g) /\ failedMoves' \in Nat /\ dir[g] \in Dirs /\ dir[g] \in DOMAIN dirs
      BY DEF DirInv, TypeOK, Working, Stages, DirsAccountedFor, InUse
<1>2. coremlDirs' \subseteq Dirs
      BY <1>1 DEF DirInv, TypeOK
<1>3. CASE Goto(g, "move") /\ UNCHANGED dirs
  <2> USE <1>3 DEF DirInv, Goto
  <2>1. TypeOK' /\ Calls' /\ Stored'
        BY <1>2 DEF TypeOK, Stages, Calls, Stored, Working
  <2>2. InUse' = InUse /\ Opened' = Opened
        BY DEF TypeOK, Stages, InUse, Opened, Working
  <2>3. Models' /\ DirsAccountedFor'
        BY <2>2 DEF TypeOK, Stages, Models, DirsAccountedFor
  <2> QED BY <2>1, <2>3
<1>4. CASE GiveUp(g)
      BY <1>1, <1>2, <1>4, GiveUpDirInv
<1> QED BY <1>3, <1>4

LEMMA MoveDirInv ==
  ASSUME DirInv, NEW g \in Goroutines, Move(g)
  PROVE  DirInv'
<1> USE DEF Move
<1>1. Working(g) /\ coremlDirs' \subseteq Dirs /\ failedMoves' \in Nat
      BY DEF DirInv, TypeOK, Working, Stages
<1>2. CASE Put(dir[g], "model") /\ Goto(g, "load")
      BY <1>1, <1>2, AdvanceDirInv DEF Holdings
<1>3. CASE GiveUp(g)
      BY <1>1, <1>3, GiveUpDirInv
<1> QED BY <1>2, <1>3

(* LoadModel: the directory passes from the call to the executable.           *)
LEMMA LoadModelDirInv ==
  ASSUME DirInv, NEW g \in Goroutines, LoadModel(g)
  PROVE  DirInv'
<1> DEFINE e == [by |-> g, dir |-> dir[g], call |-> compiles[g], units |-> globalUnits,
                 outputs |-> marked[g], open |-> TRUE]
<1> USE DEF LoadModel
<1>1. Working(g) /\ coremlDirs' \subseteq Dirs /\ failedMoves' \in Nat
      BY DEF DirInv, TypeOK, Working, Stages
<1>2. CASE executables' = executables \union {e} /\ Goto(g, "idle") /\ UNCHANGED dirs
  <2> USE <1>2 DEF DirInv, Goto
  <2>1. dir[g] = <<g, compiles[g]>> /\ compiles[g] \in 1..MaxCompiles
        BY <1>1, CompileAssumption DEF TypeOK, Calls, Working
  <2>2. \A f \in executables : f.dir # dir[g]
        BY <1>1, <2>1 DEF TypeOK, Stored, Working
  <2>3. TypeOK'
    <3>1. e \in [by : Goroutines, dir : Dirs, call : 1..MaxCompiles, units : Units,
                 outputs : Nat, open : BOOLEAN]
          BY <2>1 DEF TypeOK
    <3>2. executables' \subseteq
            [by : Goroutines, dir : Dirs, call : 1..MaxCompiles, units : Units,
             outputs : Nat, open : BOOLEAN]
          BY <3>1 DEF TypeOK
    <3>3. pc' \in [Goroutines -> Stages]
          BY DEF TypeOK, Stages
    <3> QED BY <3>2, <3>3 DEF TypeOK
  <2>4. Calls'
        BY DEF TypeOK, Stages, Calls, Working
  <2>5. Stored'
        BY <2>1, <2>2, <2>3 DEF TypeOK, Stages, Stored
  <2>6. \A h \in Goroutines : Working(h) /\ h # g => dir[h] # dir[g]
        BY <1>1 DEF Calls
  <2>7. InUse' = InUse \ {dir[g]} /\ dir[g] \in InUse /\ Opened' = Opened \union {e}
        BY <1>1, <2>6 DEF TypeOK, Stages, InUse, Opened, Working
  <2>8. DirsAccountedFor'
    <3>1. {f.dir : f \in Opened'} = {f.dir : f \in Opened} \union {dir[g]}
      <4>1. e.dir = dir[g]
            OBVIOUS
      <4> HIDE DEF e
      <4> QED BY <2>7, <4>1
    <3> QED BY <2>7, <3>1 DEF DirsAccountedFor
  <2>9. Models'
        BY <2>7 DEF TypeOK, Stages, Models
  <2> QED BY <2>3, <2>4, <2>5, <2>8, <2>9
<1>3. CASE GiveUp(g) /\ UNCHANGED executables
      BY <1>1, <1>3, GiveUpDirInv
<1> QED BY <1>2, <1>3

LEMMA CloseDirInv ==
  ASSUME DirInv, NEW e \in executables, Close(e)
  PROVE  DirInv'
<1> DEFINE closed == [e EXCEPT !.open = FALSE]
<1> USE DEF DirInv, Close, RemoveAll
<1>1. /\ closed.dir = e.dir /\ closed.by = e.by /\ closed.call = e.call /\ ~closed.open
      /\ closed \in [by : Goroutines, dir : Dirs, call : 1..MaxCompiles, units : Units,
                      outputs : Nat, open : BOOLEAN]
      BY DEF TypeOK
<1>2. executables' = (executables \ {e}) \union {closed}
      OBVIOUS
<1>3. TypeOK'
      BY <1>1, <1>2 DEF TypeOK
<1>4. Calls'
      BY DEF Calls, Working
<1>5. Stored'
      BY ZenonT(40), <1>1, <1>2 DEF Stored
<1>6. DOMAIN dirs' = DOMAIN dirs \ {e.dir}
      OBVIOUS
<1>7. \A h \in Goroutines : Working(h) => dir[h] # e.dir
      BY DEF TypeOK, Stored, Calls, Working
<1>8. InUse' = InUse /\ e.dir \notin InUse
      BY <1>7 DEF InUse, Working
<1>9. Opened' = Opened \ {e} /\ \A f \in Opened : f # e => f.dir # e.dir
      BY <1>1, <1>2 DEF Opened, Stored
<1>10. DirsAccountedFor'
      BY <1>6, <1>8, <1>9 DEF DirsAccountedFor, Opened
<1>11. Models'
      BY <1>6, <1>7, <1>9 DEF TypeOK, Models, DirsAccountedFor, InUse, Working, Stages
<1> QED BY <1>3, <1>4, <1>5, <1>10, <1>11

LEMMA NextDirInv == DirInv /\ [Next]_vars => DirInv'
<1> SUFFICES ASSUME DirInv, [Next]_vars PROVE DirInv'
    OBVIOUS
<1>1. ASSUME NEW g \in Goroutines, NEW u \in Units, New(g, u) PROVE DirInv'
      BY <1>1, NewDirInv
<1>2. ASSUME NEW g \in Goroutines, BeginCompile(g) PROVE DirInv'
      BY <1>2, BeginCompileDirInv
<1>3. ASSUME NEW g \in Goroutines, MkdirTemp(g) PROVE DirInv'
      BY <1>3, MkdirTempDirInv
<1>4. ASSUME NEW g \in Goroutines, SaveMLPackage(g) PROVE DirInv'
      BY <1>4, SaveDirInv
<1>5. ASSUME NEW g \in Goroutines, CompileModel(g) PROVE DirInv'
      BY <1>5, CompileModelDirInv
<1>6. ASSUME NEW g \in Goroutines, Move(g) PROVE DirInv'
      BY <1>6, MoveDirInv
<1>7. ASSUME NEW g \in Goroutines, LoadModel(g) PROVE DirInv'
      BY <1>7, LoadModelDirInv
<1>8. ASSUME NEW e \in executables, Close(e) PROVE DirInv'
      BY <1>8, CloseDirInv
<1>9. CASE UNCHANGED vars
      BY <1>9 DEF vars, DirInv, TypeOK, Calls, Stored, Models, DirsAccountedFor, InUse,
                  Opened, Working
<1> QED BY <1>1, <1>2, <1>3, <1>4, <1>5, <1>6, <1>7, <1>8, <1>9 DEF Next

(* Stages, counters and directories have their ranges, for any goroutines.    *)
THEOREM TypeCorrect == Spec => []TypeOK
<1>1. DirInv => TypeOK
      BY DEF DirInv
<1> QED BY <1>1, InitDirInv, NextDirInv, PTL DEF Spec

(* runtime.go:101, 109, 116: every temporary directory is that of a call      *)
(* under way or of an open executable; no failure leaves one behind.          *)
THEOREM NoDirectoryLost == Spec => []DirsAccountedFor
<1>1. DirInv => DirsAccountedFor
      BY DEF DirInv
<1> QED BY <1>1, InitDirInv, NextDirInv, PTL DEF Spec

(* Close: the compiled model of an open executable stays on disk, whatever    *)
(* other calls fail and other executables are closed.                         *)
THEOREM ModelsStayOnDisk == Spec => []ModelsKeepTheirDirectory
<1>1. DirInv => ModelsKeepTheirDirectory
  <2> SUFFICES ASSUME DirInv, NEW e \in Opened
               PROVE  /\ e.dir \in DOMAIN dirs /\ dirs[e.dir] = "model"
                      /\ e.dir \notin InUse
                      /\ \A f \in executables : f.dir = e.dir => f = e
      BY DEF ModelsKeepTheirDirectory
  <2> USE DEF DirInv
  <2>1. e.dir \in DOMAIN dirs /\ dirs[e.dir] = "model"
        BY DEF DirsAccountedFor, Models
  <2>2. e.dir \notin InUse
        BY DEF TypeOK, Opened, InUse, Stored, Calls, Working
  <2>3. \A f \in executables : f.dir = e.dir => f = e
        BY DEF Stored, Opened
  <2> QED BY <2>1, <2>2, <2>3
<1> QED BY <1>1, InitDirInv, NextDirInv, PTL DEF Spec

-----------------------------------------------------------------------------
(* The compute units of the process.                                          *)

Uniform ==
  \A g, h \in Goroutines : None \in {setting[g], setting[h]} \/ setting[g] = setting[h]

(* As long as the settings agree, the process has the one every runtime asked *)
(* for; an executable was made by a goroutine with a runtime.                 *)
UnitsInv ==
  /\ \A e \in executables : setting[e.by] # None
  /\ Uniform => /\ \A g \in Goroutines : setting[g] # None => setting[g] = globalUnits
                /\ \A e \in executables : e.units = setting[e.by]

LEMMA InitUnits == Init => UnitsInv
  BY DEF Init, UnitsInv

LEMMA NewUnits ==
  ASSUME DirInv, UnitsInv, NEW g \in Goroutines, NEW u \in Units, New(g, u)
  PROVE  UnitsInv'
<1> USE DEF DirInv, TypeOK, New
<1>1. \A h \in Goroutines : setting'[h] = IF h = g THEN u ELSE setting[h]
      OBVIOUS
<1>2. u # None
      BY CompileAssumption
<1>3. \A e \in executables' : e.by \in Goroutines /\ e.by # g
      BY DEF UnitsInv
<1>4. Uniform' => Uniform
      BY <1>1 DEF Uniform
<1>5. Uniform' => \A h \in Goroutines : setting'[h] # None => setting'[h] = u
      BY <1>1, <1>2 DEF Uniform
<1> QED BY <1>1, <1>2, <1>3, <1>4, <1>5 DEF UnitsInv

LEMMA LoadModelUnits ==
  ASSUME DirInv, UnitsInv, NEW g \in Goroutines, LoadModel(g)
  PROVE  UnitsInv'
<1> DEFINE e == [by |-> g, dir |-> dir[g], call |-> compiles[g], units |-> globalUnits,
                 outputs |-> marked[g], open |-> TRUE]
<1>1. executables' \subseteq executables \union {e} /\ UNCHANGED <<globalUnits, setting>>
      BY DEF LoadModel
<1>2. e.by = g /\ e.units = globalUnits
      OBVIOUS
<1>3. setting[g] # None
      BY DEF LoadModel, DirInv, Calls
<1> HIDE DEF e
<1> QED BY <1>1, <1>2, <1>3 DEF UnitsInv, Uniform

LEMMA CloseUnits ==
  ASSUME DirInv, UnitsInv, NEW e \in executables, Close(e)
  PROVE  UnitsInv'
<1> DEFINE closed == [e EXCEPT !.open = FALSE]
<1>1. executables' \subseteq executables \union {closed} /\ UNCHANGED <<globalUnits, setting>>
      BY DEF Close
<1>2. closed.by = e.by /\ closed.units = e.units
      BY DEF DirInv, TypeOK
<1> HIDE DEF closed
<1> QED BY <1>1, <1>2 DEF UnitsInv, Uniform

LEMMA NextUnits == DirInv /\ UnitsInv /\ [Next]_vars => UnitsInv'
<1> SUFFICES ASSUME DirInv, UnitsInv, [Next]_vars
             PROVE  UnitsInv'
    OBVIOUS
<1>1. ASSUME NEW g \in Goroutines, NEW u \in Units, New(g, u) PROVE UnitsInv'
      BY <1>1, NewUnits
<1>2. ASSUME UNCHANGED <<globalUnits, setting, executables>> PROVE UnitsInv'
      BY <1>2 DEF UnitsInv, Uniform
<1>3. ASSUME NEW g \in Goroutines,
             BeginCompile(g) \/ MkdirTemp(g) \/ SaveMLPackage(g) \/ CompileModel(g) \/ Move(g)
      PROVE  UnitsInv'
      BY <1>2, <1>3 DEF BeginCompile, MkdirTemp, SaveMLPackage, CompileModel, Move
<1>4. ASSUME NEW g \in Goroutines, LoadModel(g) PROVE UnitsInv'
      BY <1>4, LoadModelUnits
<1>5. ASSUME NEW e \in executables, Close(e) PROVE UnitsInv'
      BY <1>5, CloseUnits
<1>6. CASE UNCHANGED vars
      BY <1>2, <1>6 DEF vars
<1> QED BY <1>1, <1>3, <1>4, <1>5, <1>6 DEF Next

(* bridge.m:10: one setting for the process is enough as long as all runtimes *)
(* ask for the same units.                                                    *)
THEOREM UnitsAsAskedFor == Spec => []OneSettingHolds
<1>1. UnitsInv => OneSettingHolds
      BY DEF UnitsInv, Uniform, OneSettingHolds
<1> QED BY <1>1, InitDirInv, NextDirInv, InitUnits, NextUnits, PTL DEF Spec

-----------------------------------------------------------------------------
(* What CoreML leaves in its own directory.                                   *)

(* The directory of the call under way is there exactly while the move is due *)
(* and failedMoves counts the others.                                         *)
LeftInv ==
  /\ IsFiniteSet(coremlDirs) /\ IsFiniteSet(Moving)
  /\ \A d \in coremlDirs : d[2] <= compiles[d[1]]
  /\ \A g \in Goroutines : pc[g] \in {"mkdir", "save", "compile", "load"} =>
       <<g, compiles[g]>> \notin coremlDirs
  /\ \A g \in Goroutines : pc[g] = "move" => dir[g] \in coremlDirs
  /\ LeftoversFromFailedMoves

LEMMA InitLeftInv == Init => LeftInv
<1> SUFFICES ASSUME Init PROVE LeftInv
    OBVIOUS
<1>1. coremlDirs = {} /\ Moving = {} /\ failedMoves = 0
      BY DEF Init, Moving
<1>2. Cardinality({}) = 0 /\ IsFiniteSet({})
      BY FS_EmptySet
<1>3. LeftoversFromFailedMoves
      BY <1>1, <1>2 DEF LeftoversFromFailedMoves
<1>4. \A g \in Goroutines : pc[g] = "idle"
      BY DEF Init
<1> QED BY <1>1, <1>2, <1>3, <1>4 DEF LeftInv

(* A step that leaves CoreML's directories, the failures and who is moving    *)
(* alone.                                                                     *)
LEMMA QuietLeftInv ==
  ASSUME LeftInv, DirInv, DirInv', UNCHANGED <<coremlDirs, failedMoves>>, Moving' = Moving,
         \A g \in Goroutines : pc[g] = "move" => dir'[g] = dir[g],
         \A g \in Goroutines : compiles[g] <= compiles'[g],
         \A g \in Goroutines : pc'[g] \in {"mkdir", "save", "compile", "load"} =>
           <<g, compiles'[g]>> \notin coremlDirs
  PROVE  LeftInv'
<1>1. \A d \in coremlDirs : d[1] \in Goroutines /\ d[2] \in Nat
      BY CompileAssumption DEF DirInv, TypeOK, Dirs
<1>2. \A g \in Goroutines : compiles[g] \in Nat /\ compiles'[g] \in Nat
      BY CompileAssumption DEF DirInv, TypeOK
<1>3. \A d \in coremlDirs' : d[2] <= compiles'[d[1]]
  <2> SUFFICES ASSUME NEW d \in coremlDirs PROVE d[2] <= compiles'[d[1]]
      OBVIOUS
  <2>1. d[2] <= compiles[d[1]] /\ compiles[d[1]] <= compiles'[d[1]]
        BY <1>1 DEF LeftInv
  <2> QED BY <1>1, <1>2, <2>1
<1>4. \A g \in Goroutines : pc'[g] = "move" => dir'[g] \in coremlDirs'
      BY DEF Moving, LeftInv
<1>5. LeftoversFromFailedMoves'
      BY DEF LeftInv, LeftoversFromFailedMoves
<1> QED BY <1>3, <1>4, <1>5 DEF LeftInv

(* The compilation of call compiles[g] puts a new directory there.            *)
LEMMA CompileModelLeftInv ==
  ASSUME LeftInv, DirInv, NEW g \in Goroutines, CompileModel(g)
  PROVE  LeftInv'
<1> USE DEF CompileModel, Goto
<1>1. pc \in [Goroutines -> Stages] /\ dir[g] = <<g, compiles[g]>>
      BY DEF DirInv, TypeOK, Calls, Working, Stages
<1>2. CASE pc' = [pc EXCEPT ![g] = "move"] /\ coremlDirs' = coremlDirs \union {dir[g]}
  <2>1. Moving' = Moving \union {g} /\ g \notin Moving
        BY <1>1, <1>2 DEF Moving
  <2>2. dir[g] \notin coremlDirs
        BY <1>1 DEF LeftInv
  <2>3. IsFiniteSet(Moving') /\ Cardinality(Moving') = Cardinality(Moving) + 1
        BY <2>1, FS_AddElement DEF LeftInv
  <2>4. IsFiniteSet(coremlDirs') /\ Cardinality(coremlDirs') = Cardinality(coremlDirs) + 1
        BY <1>2, <2>2, FS_AddElement DEF LeftInv
  <2>5. Cardinality(Moving) \in Nat /\ failedMoves \in Nat /\ failedMoves' = failedMoves
        BY FS_CardinalityType DEF LeftInv, DirInv, TypeOK
  <2>6. LeftoversFromFailedMoves'
        BY <2>3, <2>4, <2>5 DEF LeftInv, LeftoversFromFailedMoves
  <2>7. \A d \in coremlDirs' : d[2] <= compiles'[d[1]]
        BY <1>1, <1>2, CompileAssumption DEF LeftInv, DirInv, TypeOK
  <2>8. \A h \in Goroutines : pc'[h] \in {"mkdir", "save", "compile", "load"} =>
          <<h, compiles'[h]>> \notin coremlDirs'
        BY <1>1, <1>2 DEF LeftInv
  <2>9. \A h \in Goroutines : pc'[h] = "move" => dir'[h] \in coremlDirs'
        BY <1>1, <1>2 DEF LeftInv
  <2> QED BY <2>3, <2>4, <2>6, <2>7, <2>8, <2>9 DEF LeftInv
<1>3. CASE pc' = [pc EXCEPT ![g] = "idle"] /\ UNCHANGED coremlDirs
  <2>1. Moving' = Moving
        BY <1>1, <1>3 DEF Moving
  <2>2. LeftoversFromFailedMoves'
        BY <1>3, <2>1 DEF LeftInv, LeftoversFromFailedMoves
  <2> QED BY <1>1, <1>3, <2>1, <2>2 DEF LeftInv
<1> QED BY <1>2, <1>3 DEF GiveUp

(* A move takes it away, or fails and is counted.                             *)
LEMMA MoveLeftInv ==
  ASSUME LeftInv, DirInv, NEW g \in Goroutines, Move(g)
  PROVE  LeftInv'
<1> USE DEF Move, Goto
<1>1. /\ pc \in [Goroutines -> Stages] /\ dir[g] = <<g, compiles[g]>>
      /\ \A h \in Goroutines : Working(h) => dir[h] = <<h, compiles[h]>>
      BY DEF DirInv, TypeOK, Calls, Working, Stages
<1>2. Moving' = Moving \ {g} /\ g \in Moving
      BY <1>1 DEF Moving, GiveUp
<1>3. IsFiniteSet(Moving') /\ Cardinality(Moving') = Cardinality(Moving) - 1
      BY <1>2, FS_RemoveElement DEF LeftInv
<1>4. Cardinality(Moving) \in Nat /\ failedMoves \in Nat /\ Cardinality(coremlDirs) \in Nat
      BY FS_CardinalityType DEF LeftInv, DirInv, TypeOK
<1>5. \A h \in Goroutines : pc'[h] = "move" => h # g /\ pc[h] = "move"
      BY <1>1 DEF GiveUp
<1>6. CASE /\ coremlDirs' = coremlDirs \ {dir[g]} /\ UNCHANGED failedMoves
           /\ pc' = [pc EXCEPT ![g] = "load"]
  <2>1. /\ IsFiniteSet(coremlDirs')
        /\ Cardinality(coremlDirs') = Cardinality(coremlDirs) - 1
        BY <1>6, FS_RemoveElement DEF LeftInv
  <2>2. LeftoversFromFailedMoves'
        BY <1>3, <1>4, <1>6, <2>1 DEF LeftInv, LeftoversFromFailedMoves
  <2>3. \A h \in Goroutines : pc'[h] \in {"mkdir", "save", "compile", "load"} =>
          <<h, compiles'[h]>> \notin coremlDirs'
        BY <1>1, <1>6 DEF LeftInv
  <2>4. \A h \in Goroutines : pc'[h] = "move" => dir'[h] \in coremlDirs'
        BY <1>1, <1>5, <1>6 DEF LeftInv, Working, Stages
  <2> QED BY <1>3, <1>6, <2>1, <2>2, <2>3, <2>4 DEF LeftInv
<1>7. CASE /\ failedMoves' = failedMoves + 1 /\ UNCHANGED coremlDirs
           /\ pc' = [pc EXCEPT ![g] = "idle"]
  <2>1. LeftoversFromFailedMoves'
        BY <1>3, <1>4, <1>7 DEF LeftInv, LeftoversFromFailedMoves
  <2>2. \A h \in Goroutines : pc'[h] \in {"mkdir", "save", "compile", "load"} =>
          <<h, compiles'[h]>> \notin coremlDirs'
        BY <1>1, <1>7 DEF LeftInv
  <2> QED BY <1>3, <1>5, <1>7, <2>1, <2>2 DEF LeftInv
<1> QED BY <1>6, <1>7 DEF GiveUp

LEMMA NextLeftInv == DirInv /\ LeftInv /\ [Next]_vars => LeftInv'
<1> SUFFICES ASSUME DirInv, LeftInv, [Next]_vars PROVE LeftInv'
    OBVIOUS
<1>1. DirInv'
      BY NextDirInv
<1>2. pc \in [Goroutines -> Stages] /\ dir \in [Goroutines -> Dirs]
      BY DEF DirInv, TypeOK
<1>3. \A g \in Goroutines : compiles[g] \in Nat
      BY CompileAssumption DEF DirInv, TypeOK
<1>4. ASSUME NEW g \in Goroutines, BeginCompile(g) PROVE LeftInv'
  <2>1. Moving' = Moving
        BY <1>2, <1>4 DEF BeginCompile, Goto, Moving
  <2>2. \A h \in Goroutines : compiles'[h] = IF h = g THEN compiles[h] + 1 ELSE compiles[h]
        BY <1>4 DEF BeginCompile, DirInv, TypeOK
  <2>3. <<g, compiles'[g]>> \notin coremlDirs
    <3>1. ~(compiles'[g] <= compiles[g])
          BY <1>3, <2>2
    <3>2. \A d \in coremlDirs : d = <<g, compiles'[g]>> => d[1] = g /\ d[2] = compiles'[g]
          OBVIOUS
    <3> QED BY <3>1, <3>2 DEF LeftInv
  <2>4. \A h \in Goroutines : pc'[h] \in {"mkdir", "save", "compile", "load"} =>
          <<h, compiles'[h]>> \notin coremlDirs
        BY <1>2, <1>4, <2>2, <2>3 DEF BeginCompile, Goto, LeftInv
  <2>5. \A h \in Goroutines : compiles[h] <= compiles'[h]
        BY <1>3, <2>2
  <2> QED BY <1>1, <1>4, <2>1, <2>4, <2>5, QuietLeftInv DEF BeginCompile
<1>5. ASSUME NEW g \in Goroutines, MkdirTemp(g) \/ SaveMLPackage(g) \/ LoadModel(g)
      PROVE  LeftInv'
  <2> USE <1>5 DEF MkdirTemp, SaveMLPackage, LoadModel, GiveUp, Goto
  <2>1. Moving' = Moving
        BY <1>2 DEF Moving
  <2>2. UNCHANGED <<coremlDirs, failedMoves, compiles>>
        OBVIOUS
  <2>3. \A h \in Goroutines : pc[h] = "move" => dir'[h] = dir[h]
        BY <1>2
  <2>4. \A h \in Goroutines : pc'[h] \in {"mkdir", "save", "compile", "load"} =>
          pc[h] \in {"mkdir", "save", "compile", "load"}
        BY <1>2
  <2>5. \A h \in Goroutines : pc'[h] \in {"mkdir", "save", "compile", "load"} =>
          <<h, compiles'[h]>> \notin coremlDirs
        BY <2>2, <2>4 DEF LeftInv
  <2>6. \A h \in Goroutines : compiles[h] <= compiles'[h]
        BY <1>3, <2>2
  <2> HIDE <1>5 DEF MkdirTemp, SaveMLPackage, LoadModel, GiveUp, Goto
  <2> QED BY <1>1, <2>1, <2>2, <2>3, <2>5, <2>6, QuietLeftInv
<1>6. ASSUME UNCHANGED <<pc, dir, compiles, coremlDirs, failedMoves>> PROVE LeftInv'
      BY <1>6 DEF LeftInv, LeftoversFromFailedMoves, Moving
<1>7. ASSUME NEW g \in Goroutines, NEW u \in Units, New(g, u) PROVE LeftInv'
      BY <1>6, <1>7 DEF New
<1>8. ASSUME NEW e \in executables, Close(e) PROVE LeftInv'
      BY <1>6, <1>8 DEF Close
<1>9. CASE UNCHANGED vars
      BY <1>6, <1>9 DEF vars
<1> QED BY <1>4, <1>5, <1>7, <1>8, <1>9, CompileModelLeftInv, MoveLeftInv DEF Next

(* bridge.m:66: whatever the number of calls and goroutines, a directory of   *)
(* CoreML's own that stays is that of a failed move.                          *)
THEOREM OnlyFailedMovesLeaveFiles == Spec => []LeftoversFromFailedMoves
<1>1. LeftInv => LeftoversFromFailedMoves
      BY DEF LeftInv
<1> QED BY <1>1, InitDirInv, NextDirInv, InitLeftInv, NextLeftInv, PTL DEF Spec

===============================================================================
