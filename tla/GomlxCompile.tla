----------------------------- MODULE GomlxCompile -----------------------------
(***************************************************************************)
(* From a finished graph to a loaded model: gomlx Builder.Compile over        *)
(* runtime.New, CompileProgram and the CoreML bridge, called by goroutines    *)
(* that have a runtime and a builder each.  They share the file system, where *)
(* CoreML also keeps a directory of its own while it compiles, and one        *)
(* process-wide setting of the compute units.  Any stage may fail; Compile    *)
(* may be called again, after a failure or a success.                         *)
(*                                                                          *)
(* How a package is saved is MLPackage's subject, how a loaded model is used   *)
(* and closed RuntimeExec's.  Errors of os.RemoveAll are ignored by the code   *)
(* and left out.                                                              *)
(***************************************************************************)
EXTENDS Integers, FiniteSets

CONSTANTS
  Goroutines,  \* each with its own runtime and builder
  Units,       \* compute units a runtime may ask for; the default is one of them
  Default,     \* bridge.ComputeAll
  NOutputs,    \* outputs of the main function
  MaxCompiles  \* bound: calls of Compile per goroutine

None == "none"

ASSUME CompileAssumption ==
  /\ Default \in Units /\ None \notin Units
  /\ NOutputs \in Nat \ {0} /\ MaxCompiles \in Nat

VARIABLES
  globalUnits,  \* g_computeUnits
  setting,      \* goroutine -> its Runtime.computeUnits, or None before New
  pc,           \* goroutine -> stage of its Compile
  marked,       \* goroutine -> outputs its builder has listed so far
  compiles,     \* goroutine -> calls of Compile so far
  dir,          \* goroutine -> temporary directory of its current call
  dirs,         \* the temporary directories there are -> what they hold
  coremlDirs,   \* directories CoreML compiled into that nobody moved or removed
  executables,  \* executables handed out
  failedMoves   \* ghost: moves that failed

vars == <<globalUnits, setting, pc, marked, compiles, dir, dirs, coremlDirs,
          executables, failedMoves>>

Stages == {"idle", "mkdir", "save", "compile", "move", "load"}

Init ==
  /\ globalUnits = Default
  /\ setting = [g \in Goroutines |-> None]
  /\ pc = [g \in Goroutines |-> "idle"]
  /\ marked = [g \in Goroutines |-> 0]
  /\ compiles = [g \in Goroutines |-> 0]
  /\ dir = [g \in Goroutines |-> <<g, 0>>]
  /\ dirs = <<>>
  /\ coremlDirs = {} /\ executables = {} /\ failedMoves = 0

Goto(g, stage) == pc' = [pc EXCEPT ![g] = stage]
Put(d, what) == dirs' = [x \in DOMAIN dirs \union {d} |-> IF x = d THEN what ELSE dirs[x]]
RemoveAll(d) == dirs' = [x \in DOMAIN dirs \ {d} |-> dirs[x]]

-----------------------------------------------------------------------------
(* runtime.New: the options are applied, then the setting becomes that of the *)
(* whole process.                                                             *)
NewEarly(g, u) ==
  /\ setting[g] = None
  /\ setting' = [setting EXCEPT ![g] = u]
  /\ globalUnits' = Default
  /\ UNCHANGED <<pc, marked, compiles, dir, dirs, coremlDirs, executables, failedMoves>>
NewUnset(g, u) ==
  /\ setting[g] = None
  /\ setting' = [setting EXCEPT ![g] = u]
  /\ globalUnits' = None
  /\ UNCHANGED <<pc, marked, compiles, dir, dirs, coremlDirs, executables, failedMoves>>
New(g, u) ==
  /\ setting[g] = None
  /\ setting' = [setting EXCEPT ![g] = u]
  /\ globalUnits' = u
  /\ UNCHANGED <<pc, marked, compiles, dir, dirs, coremlDirs, executables, failedMoves>>

(* Builder.Compile marks the outputs of the main function, every time.        *)
BeginCompile(g) ==
  /\ setting[g] # None /\ pc[g] = "idle" /\ compiles[g] < MaxCompiles
  /\ compiles' = [compiles EXCEPT ![g] = @ + 1]
  /\ marked' = [marked EXCEPT ![g] = @ + NOutputs]
  /\ Goto(g, "mkdir")
  /\ UNCHANGED <<globalUnits, setting, dir, dirs, coremlDirs, executables, failedMoves>>

(* os.MkdirTemp gives a new name to each call, or fails.                      *)
MkdirTemp(g) ==
  /\ pc[g] = "mkdir"
  /\ \/ /\ dir' = [dir EXCEPT ![g] = <<g, compiles[g]>>]
        /\ Put(<<g, compiles[g]>>, "nothing")
        /\ Goto(g, "save")
     \/ Goto(g, "idle") /\ UNCHANGED <<dir, dirs>>
  /\ UNCHANGED <<globalUnits, setting, marked, compiles, coremlDirs, executables,
                 failedMoves>>

(* A stage that fails removes the temporary directory, and Compile returns.   *)
GiveUpLeaving(g) == Goto(g, "idle") /\ UNCHANGED dirs
GiveUp(g) == Goto(g, "idle") /\ RemoveAll(dir[g])

SaveMLPackage(g) ==
  /\ pc[g] = "save"
  /\ \/ Put(dir[g], "package") /\ Goto(g, "compile")
     \/ GiveUp(g)
  /\ UNCHANGED <<globalUnits, setting, marked, compiles, dir, coremlDirs, executables,
                 failedMoves>>

(* compileModelAtURL: CoreML chooses where the compiled model goes.           *)
CompileModel(g) ==
  /\ pc[g] = "compile"
  /\ \/ coremlDirs' = coremlDirs \union {dir[g]} /\ Goto(g, "move") /\ UNCHANGED dirs
     \/ GiveUp(g) /\ UNCHANGED coremlDirs
  /\ UNCHANGED <<globalUnits, setting, marked, compiles, dir, executables, failedMoves>>

(* moveItemAtURL: the compiled model joins the package, or stays where it is. *)
MoveCopies(g) ==
  /\ pc[g] = "move"
  /\ \/ /\ Put(dir[g], "model") /\ Goto(g, "load")
        /\ UNCHANGED <<coremlDirs, failedMoves>>
     \/ GiveUp(g) /\ failedMoves' = failedMoves + 1 /\ UNCHANGED coremlDirs
  /\ UNCHANGED <<globalUnits, setting, marked, compiles, dir, executables>>
Move(g) ==
  /\ pc[g] = "move"
  /\ \/ /\ coremlDirs' = coremlDirs \ {dir[g]}
        /\ Put(dir[g], "model") /\ Goto(g, "load")
        /\ UNCHANGED failedMoves
     \/ GiveUp(g) /\ failedMoves' = failedMoves + 1 /\ UNCHANGED coremlDirs
  /\ UNCHANGED <<globalUnits, setting, marked, compiles, dir, executables>>

(* coreml_load_model reads the setting of the process at this moment; the     *)
(* executable keeps the lists of outputs the builder has now.                 *)
LoadModel(g) ==
  /\ pc[g] = "load"
  /\ \/ /\ executables' = executables \union
             {[by |-> g, dir |-> dir[g], call |-> compiles[g], units |-> globalUnits,
               outputs |-> marked[g], open |-> TRUE]}
        /\ Goto(g, "idle") /\ UNCHANGED dirs
     \/ GiveUp(g) /\ UNCHANGED executables
  /\ UNCHANGED <<globalUnits, setting, marked, compiles, dir, coremlDirs, failedMoves>>

(* Executable.Close, in the order RuntimeExec gives its steps.                *)
CloseAll(e) ==
  /\ e.open
  /\ executables' = (executables \ {e}) \union {[e EXCEPT !.open = FALSE]}
  /\ dirs' = [x \in DOMAIN dirs \ {d \in DOMAIN dirs : d[1] = e.by} |-> dirs[x]]
  /\ UNCHANGED <<globalUnits, setting, pc, marked, compiles, dir, coremlDirs, failedMoves>>
Close(e) ==
  /\ e.open
  /\ executables' = (executables \ {e}) \union {[e EXCEPT !.open = FALSE]}
  /\ RemoveAll(e.dir)
  /\ UNCHANGED <<globalUnits, setting, pc, marked, compiles, dir, coremlDirs, failedMoves>>

Next ==
  \/ \E g \in Goroutines, u \in Units : New(g, u)
  \/ \E g \in Goroutines :
       \/ BeginCompile(g) \/ MkdirTemp(g) \/ SaveMLPackage(g)
       \/ CompileModel(g) \/ Move(g) \/ LoadModel(g)
  \/ \E e \in executables : Close(e)

Spec == Init /\ [][Next]_vars

-----------------------------------------------------------------------------
(* Properties.                                                               *)

Holdings == {"nothing", "package", "model"}
Dirs == Goroutines \X (0..MaxCompiles)

(* Stages, settings and counters have their ranges; a directory belongs to    *)
(* one call.                                                                  *)
TypeOK ==
  /\ globalUnits \in Units /\ setting \in [Goroutines -> Units \union {None}]
  /\ pc \in [Goroutines -> Stages]
  /\ marked \in [Goroutines -> Nat] /\ compiles \in [Goroutines -> 0..MaxCompiles]
  /\ dir \in [Goroutines -> Dirs]
  /\ DOMAIN dirs \subseteq Dirs /\ \A d \in DOMAIN dirs : dirs[d] \in Holdings
  /\ coremlDirs \subseteq Dirs /\ failedMoves \in Nat
  /\ executables \subseteq
       [by : Goroutines, dir : Dirs, call : 1..MaxCompiles, units : Units,
        outputs : Nat, open : BOOLEAN]

Working(g) == pc[g] \in Stages \ {"idle", "mkdir"}
InUse == {dir[g] : g \in {h \in Goroutines : Working(h)}}
Opened == {e \in executables : e.open}
Moving == {g \in Goroutines : pc[g] = "move"}

(* CompileProgram: a temporary directory is that of a call under way or of an *)
(* executable that is still open; every failure removes its own.              *)
DirsAccountedFor ==
  DOMAIN dirs = InUse \union {e.dir : e \in Opened}

(* runtime.go:141, Close: while an executable is open its compiled model is on*)
(* disk, and no other executable and no call under way has that directory.    *)
ModelsKeepTheirDirectory ==
  \A e \in Opened :
    /\ e.dir \in DOMAIN dirs /\ dirs[e.dir] = "model"
    /\ e.dir \notin InUse
    /\ \A f \in executables : f.dir = e.dir => f = e

(* bridge.m:66: what CoreML leaves in a directory of its own is what a failed *)
(* move left behind, and nothing else.                                        *)
LeftoversFromFailedMoves ==
  Cardinality(coremlDirs) = failedMoves + Cardinality(Moving)

(* WithComputeUnits: as long as all runtimes of the process ask for the same  *)
(* units, every model is loaded with the units its runtime asked for.         *)
OneSettingHolds ==
  (\A g, h \in Goroutines : None \in {setting[g], setting[h]} \/ setting[g] = setting[h])
    => \A e \in executables : e.units = setting[e.by]

=============================================================================
