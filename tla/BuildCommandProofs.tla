-------------------------- MODULE BuildCommandProofs --------------------------
(***************************************************************************)
(* Proofs about the files a full build leaves, for any forks that name     *)
(* only older ones, any commands, any number of runs and any edits, with   *)
(* exceptions and kills at any step.                                       *)
(*                                                                         *)
(* The argument: the files of this run are those of the forks built so     *)
(* far, and of the presets of the present fork that are behind it; each    *)
(* was made from documents at most as new as those of the forks after it,  *)
(* and from the edition of its preset that this process read once.         *)
(***************************************************************************)
EXTENDS BuildCommand, SequenceTheorems, TLAPS

Writing == {"open", "write", "written"}
Working == Writing \cup {"build_spec", "write_init"}
Active == Working \cup {"finalize_options"}

Typed ==
  /\ edition \in Nat \ {0} /\ run \in Nat /\ started \in Nat /\ started <= edition
  /\ out_dir \in [BuiltForks -> [FileNames -> File \cup {NoFile}]]
  /\ preset_cache \in [Presets -> Nat]
  /\ spec_str \in File

(* No file is of a run that has not been. *)
OfPastRuns ==
  /\ spec_str.run <= run
  /\ \A fork \in BuiltForks : \A file \in FileNames :
       out_dir[fork][file] # NoFile => out_dir[fork][file].run <= run

(* What has been checked by the time a document is read. *)
KnownTargets ==
  /\ status \in Active => command \in CommandLines
  /\ status \in Working => targets \in Seq(Presets)
  /\ status \in Writing => targets # <<>>

-----------------------------------------------------------------------------
(* Where a full build is. *)

Positions == 1..Len(AllBuilders)
Built == Len(AllBuilders) - Len(todo)
Remaining(p) == \E i \in 1..Len(targets) : targets[i] = p

InOrder ==
  /\ run # 0
  /\ todo \in Seq(BuiltForks) /\ Len(todo) <= Len(AllBuilders)
  /\ \A j \in 1..Len(todo) : todo[j] = AllBuilders[Built + j]
  /\ status \in Active => todo # <<>>
  /\ status = "done" => todo = <<>>

TargetsLeft ==
  /\ status \in Working => targets \in {<<>>, <<"mainnet">>, DefaultTargets}
  /\ status = "write_init" => targets = <<>>

(* What it has written, and nothing else is of this run. *)

BuiltIsComplete ==
  \A j \in Positions : j <= Built => \A file \in FileNames : MadeNow(AllBuilders[j], file)

PresentFork ==
  status \in Working =>
    /\ \A p \in Presets : ~ Remaining(p) => MadeNow(Head(todo), p)
    /\ status = "written" => MadeNow(Head(todo), Head(targets))

NothingAhead ==
  \A j \in Positions :
    /\ MadeNow(AllBuilders[j], "__init__") => j <= Built
    /\ \A p \in Presets : MadeNow(AllBuilders[j], p) => j <= Built + 1

FromThisBuild ==
  \A j \in Positions : \A p \in Presets : MadeNow(AllBuilders[j], p) =>
    /\ out_dir[AllBuilders[j]][p].docs \in started..edition
    /\ out_dir[AllBuilders[j]][p].preset = preset_cache[p] /\ preset_cache[p] # 0

OlderFirst ==
  \A i, j \in Positions : \A p \in Presets : i <= j /\ MadeNow(AllBuilders[j], p) =>
    out_dir[AllBuilders[i]][p].docs <= out_dir[AllBuilders[j]][p].docs

ReadyToWrite ==
  status \in {"open", "write"} =>
    /\ spec_str.run = run /\ spec_str.docs \in started..edition
    /\ spec_str.preset = preset_cache[Head(targets)] /\ preset_cache[Head(targets)] # 0
    /\ \A j \in Positions :
         j <= Built => out_dir[AllBuilders[j]][Head(targets)].docs <= spec_str.docs

FullBuild ==
  /\ InOrder /\ TargetsLeft
  /\ BuiltIsComplete /\ PresentFork /\ NothingAhead
  /\ FromThisBuild /\ OlderFirst /\ ReadyToWrite

IInv ==
  /\ Typed /\ OfPastRuns /\ KnownTargets
  /\ command.name = "build_py" => FullBuild

-----------------------------------------------------------------------------
(* What the invariant is for. *)

LEMMA PrefixFromInv == ASSUME IInv PROVE PrefixImportable
<1> SUFFICES ASSUME command.name = "build_py",
                    NEW fork \in BuiltForks, NEW p \in Presets, MadeNow(fork, p),
                    NEW other \in Imports(fork)
             PROVE MadeNow(other, p) /\ out_dir[other][p].docs <= out_dir[fork][p].docs
  BY DEF PrefixImportable
<1>1. PICK j \in DOMAIN AllBuilders : AllBuilders[j] = fork
  BY BuildersAssumption
<1>2. PICK i \in 1..(j - 1) : AllBuilders[i] = other
  BY <1>1, BuildersAssumption
<1>3. j \in Positions /\ i \in Positions /\ i < j /\ Len(AllBuilders) \in Nat
  BY <1>1, <1>2, BuildersAssumption DEF Positions
<1>4. Built \in Int
  BY <1>3 DEF IInv, FullBuild, InOrder, Built
<1>5. j <= Built + 1
  BY <1>1, <1>3 DEF IInv, FullBuild, NothingAhead
<1>6. i <= Built
  BY <1>3, <1>4, <1>5 DEF Positions
<1>7. MadeNow(AllBuilders[i], p)
  BY <1>3, <1>6 DEF IInv, FullBuild, BuiltIsComplete, FileNames
<1>8. out_dir[AllBuilders[i]][p].docs <= out_dir[AllBuilders[j]][p].docs
  BY <1>1, <1>3 DEF IInv, FullBuild, OlderFirst, Positions
<1> QED BY <1>1, <1>2, <1>7, <1>8

LEMMA CompleteFromInv == ASSUME IInv PROVE PackagesComplete
<1> SUFFICES ASSUME command.name = "build_py",
                    NEW fork \in BuiltForks, MadeNow(fork, "__init__"), NEW p \in Presets
             PROVE MadeNow(fork, p)
  BY DEF PackagesComplete
<1>1. PICK j \in DOMAIN AllBuilders : AllBuilders[j] = fork
  BY BuildersAssumption
<1>2. j \in Positions
  BY <1>1, BuildersAssumption DEF Positions
<1>3. j <= Built
  BY <1>1, <1>2 DEF IInv, FullBuild, NothingAhead
<1> QED BY <1>1, <1>2, <1>3 DEF IInv, FullBuild, BuiltIsComplete, FileNames

LEMMA CurrentFromInv == ASSUME IInv PROVE DoneIsCurrent
<1> SUFFICES ASSUME status = "done", command.name = "build_py",
                    NEW fork \in BuiltForks
             PROVE /\ \A file \in FileNames : MadeNow(fork, file)
                   /\ \A p \in Presets :
                        /\ out_dir[fork][p].docs >= started
                        /\ \A other \in BuiltForks : out_dir[other][p].preset = out_dir[fork][p].preset
  BY DEF DoneIsCurrent
<1>1. \A f \in BuiltForks : \E j \in Positions : AllBuilders[j] = f
  BY BuildersAssumption DEF Positions
<1>2. todo = <<>> /\ Len(AllBuilders) \in Nat
  BY BuildersAssumption DEF IInv, FullBuild, InOrder
<1>3. \A j \in Positions : j <= Built
  BY <1>2 DEF Positions, Built
<1>4. \A f \in BuiltForks : \A file \in FileNames : MadeNow(f, file)
  BY <1>1, <1>3 DEF IInv, FullBuild, BuiltIsComplete
<1>5. \A f \in BuiltForks : \A p \in Presets :
        out_dir[f][p].docs \in started..edition /\ out_dir[f][p].preset = preset_cache[p]
  BY <1>1, <1>4 DEF IInv, FullBuild, FromThisBuild, FileNames
<1> QED BY <1>4, <1>5 DEF IInv, Typed
-----------------------------------------------------------------------------
(* Types, and numbers of runs: under every command. *)

LEMMA FileWritten ==
  ASSUME Typed, NEW f, NEW g, NEW v \in File, out_dir' = [out_dir EXCEPT ![f][g] = v]
  PROVE  /\ out_dir' \in [BuiltForks -> [FileNames -> File \cup {NoFile}]]
         /\ \A a \in BuiltForks : \A b \in FileNames :
              out_dir'[a][b] = IF a = f /\ b = g THEN v ELSE out_dir[a][b]
BY DEF Typed

LEMMA EmptyIsFile == /\ EmptyFile \in File /\ EmptyFile.run = 0
                     /\ \A r \in Nat : [EmptyFile EXCEPT !.run = r] \in File
                                       /\ [EmptyFile EXCEPT !.run = r].run = r
BY DEF EmptyFile, File

LEMMA TypesInit == Init => Typed /\ OfPastRuns /\ KnownTargets
<1> SUFFICES ASSUME Init PROVE Typed /\ OfPastRuns /\ KnownTargets
  OBVIOUS
<1>1. Typed
  BY EmptyIsFile DEF Init, Typed, NoModule
<1>2. OfPastRuns
  BY EmptyIsFile DEF Init, OfPastRuns, NoModule
<1>3. KnownTargets
  BY DEF Init, KnownTargets, Active, Working, Writing
<1> QED BY <1>1, <1>2, <1>3

LEMMA TypesStep ==
  ASSUME Typed, OfPastRuns, KnownTargets, [Next]_vars
  PROVE  Typed' /\ OfPastRuns' /\ KnownTargets'
<1> USE DEF Typed, OfPastRuns, KnownTargets
<1>1. CASE Edit
  BY <1>1 DEF Edit
<1>2. CASE \E c \in CommandLines : Start(c)
  <2> PICK c \in CommandLines : Start(c)
    BY <1>2
  <2>1. Typed'
    BY EmptyIsFile DEF Start, NoModule
  <2>2. OfPastRuns'
    <3> SUFFICES ASSUME NEW a \in BuiltForks, NEW b \in FileNames, out_dir[a][b] # NoFile
                 PROVE out_dir[a][b].run <= run + 1
      BY EmptyIsFile DEF Start, NoModule
    <3>1. out_dir[a][b] \in File /\ out_dir[a][b].run <= run
      OBVIOUS
    <3> QED BY <3>1 DEF File
  <2>3. KnownTargets'
    BY DEF Start, Active, Working, Writing
  <2> QED BY <2>1, <2>2, <2>3
<1>3. CASE finalize_options
  <2>1. Typed' /\ OfPastRuns'
    BY <1>3 DEF finalize_options
  <2> DEFINE given == IF command.name = "pyspec" THEN command.build_targets ELSE DefaultTargets
  <2>2. targets' = given /\ command \in CommandLines /\ command' = command
    BY <1>3 DEF finalize_options, Active
  <2>3. DefaultTargets \in Seq(Presets)
    BY DEF DefaultTargets, Presets
  <2>4. ASSUME status' = "build_spec" PROVE targets' \in Seq(Presets)
    <3>1. \A i \in DOMAIN given : given[i] \in Presets
      BY <1>3, <2>4 DEF finalize_options
    <3>2. CASE command.name = "pyspec"
      <4>1. given \in Seq(STRING)
        BY <2>2, <3>2, CommandsAssumption
      <4> HIDE DEF given
      <4>2. given \in Seq(Presets)
        BY <3>1, <4>1, SeqDef
      <4> QED BY <2>2, <4>2
    <3>3. CASE command.name # "pyspec"
      BY <2>2, <2>3, <3>3
    <3> QED BY <3>2, <3>3
  <2>5. status' \notin Writing /\ (status' \in Working => status' = "build_spec")
    BY <1>3 DEF finalize_options, Working, Writing
  <2>6. KnownTargets'
    BY <2>2, <2>4, <2>5
  <2> QED BY <2>1, <2>6
<1>4. CASE build_spec
  <2>1. CASE spec_str' = spec_str /\ preset_cache' = preset_cache /\ status' = "KeyError"
    BY <1>4, <2>1 DEF build_spec, Active, Working, Writing
  <2>2. CASE Head(todo) \in DOMAIN spec_builders
    <3> DEFINE p == Head(targets)
               preset == IF preset_cache[p] = 0 THEN edition ELSE preset_cache[p]
    <3>1. p \in Presets
      <4>1. targets \in Seq(Presets) /\ targets # <<>>
        BY <1>4 DEF build_spec, Working, Writing
      <4> QED BY <4>1
    <3>2. preset \in Nat
      BY <3>1
    <3>3. spec_str' = [run |-> run, docs |-> edition, preset |-> preset]
      BY <1>4, <2>2 DEF build_spec
    <3>4. spec_str' \in File /\ spec_str'.run = run
      BY <3>2, <3>3 DEF File
    <3>5. preset_cache' = [preset_cache EXCEPT ![p] = preset]
      BY <1>4, <2>2 DEF build_spec
    <3>6. Typed'
      BY <1>4, <3>2, <3>4, <3>5 DEF build_spec
    <3>7. OfPastRuns'
      <4>1. out_dir' = out_dir /\ run' = run
        BY <1>4 DEF build_spec
      <4> QED BY <3>4, <4>1
    <3>8. KnownTargets'
      BY <1>4 DEF build_spec, Active, Working, Writing
    <3> QED BY <3>6, <3>7, <3>8
  <2> QED BY <1>4, <2>1, <2>2 DEF build_spec
<1>5. CASE RaiseException
  BY <1>5 DEF RaiseException, Active, Working, Writing
<1>6. CASE OpenModule
  <2>1. Typed'
    BY <1>6, FileWritten, EmptyIsFile DEF OpenModule
  <2>2. OfPastRuns'
    BY <1>6, FileWritten, EmptyIsFile DEF OpenModule
  <2> QED BY <1>6, <2>1, <2>2 DEF OpenModule, Active, Working, Writing
<1>7. CASE WriteModule
  <2>1. Typed'
    BY <1>7, FileWritten DEF WriteModule
  <2>2. OfPastRuns'
    BY <1>7, FileWritten DEF WriteModule
  <2> QED BY <1>7, <2>1, <2>2 DEF WriteModule, Active, Working, Writing
<1>8. CASE NextTarget
  <2>1. Typed' /\ OfPastRuns'
    BY <1>8 DEF NextTarget
  <2>2. targets \in Seq(Presets) /\ targets # <<>>
    BY <1>8 DEF NextTarget, Working, Writing
  <2>3. targets' \in Seq(Presets)
    BY <1>8, <2>2 DEF NextTarget
  <2> QED BY <1>8, <2>1, <2>3 DEF NextTarget, Active, Working, Writing
<1>9. CASE WriteInit
  <2> DEFINE marker == [EmptyFile EXCEPT !.run = run]
  <2>1. marker \in File /\ marker.run = run
    BY EmptyIsFile
  <2>2. Typed' /\ OfPastRuns'
    <3>1. out_dir' = [out_dir EXCEPT ![Head(todo)]["__init__"] = marker]
      BY <1>9 DEF WriteInit
    <3>2. /\ out_dir' \in [BuiltForks -> [FileNames -> File \cup {NoFile}]]
          /\ \A a \in BuiltForks : \A b \in FileNames :
               out_dir'[a][b] = IF a = Head(todo) /\ b = "__init__" THEN marker ELSE out_dir[a][b]
      BY <2>1, <3>1, FileWritten
    <3> HIDE DEF marker
    <3>3. Typed'
      BY <1>9, <3>2 DEF WriteInit
    <3>4. OfPastRuns'
      <4>1. run' = run /\ spec_str' = spec_str
        BY <1>9 DEF WriteInit
      <4> QED BY <2>1, <3>2, <4>1
    <3> QED BY <3>3, <3>4
  <2>3. command' = command /\ command \in CommandLines /\ status' \notin Working
    BY <1>9 DEF WriteInit, run_pyspec_cmd, Active, Working, Writing
  <2>4. KnownTargets'
    BY <2>3 DEF Working
  <2> QED BY <2>2, <2>4
<1>10. CASE OpenInit
  <2>1. EmptyFile \in File /\ EmptyFile.run = 0
    BY EmptyIsFile
  <2>2. out_dir' = [out_dir EXCEPT ![Head(todo)]["__init__"] = EmptyFile]
    BY <1>10 DEF OpenInit
  <2>3. /\ out_dir' \in [BuiltForks -> [FileNames -> File \cup {NoFile}]]
        /\ \A a \in BuiltForks : \A b \in FileNames :
             out_dir'[a][b] = IF a = Head(todo) /\ b = "__init__" THEN EmptyFile ELSE out_dir[a][b]
    BY <2>1, <2>2, FileWritten
  <2>4. Typed'
    BY <1>10, <2>3 DEF OpenInit
  <2>5. OfPastRuns'
    <3>1. run' = run /\ spec_str' = spec_str
      BY <1>10 DEF OpenInit
    <3> QED BY <2>1, <2>3, <3>1
  <2> QED BY <1>10, <2>4, <2>5 DEF OpenInit, Active, Working, Writing
<1>11. CASE EndDryRun
  BY <1>11 DEF EndDryRun, run_pyspec_cmd, Active, Working, Writing
<1>12. CASE Kill
  BY <1>12 DEF Kill, Active, Working, Writing
<1>13. CASE UNCHANGED vars
  BY <1>13 DEF vars
<1> QED
  BY <1>1, <1>2, <1>3, <1>4, <1>5, <1>6, <1>7, <1>8, <1>9, <1>10, <1>11, <1>12, <1>13 DEF Next
-----------------------------------------------------------------------------
(* A full build, step by step. *)

LEMMA Order ==
  /\ Len(AllBuilders) \in Nat \ {0}
  /\ \A j \in Positions : AllBuilders[j] \in BuiltForks
  /\ \A i, j \in Positions : AllBuilders[i] = AllBuilders[j] => i = j
BY BuildersAssumption DEF Positions

LEMMA PresentPosition ==
  ASSUME InOrder, todo # <<>>
  PROVE  Built \in Nat /\ Built + 1 \in Positions /\ Head(todo) = AllBuilders[Built + 1]
<1>1. Len(todo) \in Nat \ {0} /\ Len(todo) <= Len(AllBuilders)
  BY DEF InOrder
<1>2. Head(todo) = todo[1]
  BY DEF InOrder
<1>3. todo[1] = AllBuilders[Built + 1]
  BY <1>1 DEF InOrder
<1> QED BY <1>1, <1>2, <1>3, Order DEF Built, Positions

LEMMA PositionsLeft == ASSUME InOrder PROVE Built \in Nat /\ Built <= Len(AllBuilders)
BY Order DEF InOrder, Built

(* Types of the files, for the lemmas below. *)
LEMMA MadeIsFile ==
  ASSUME Typed, NEW fork \in BuiltForks, NEW file \in FileNames, MadeNow(fork, file)
  PROVE  out_dir[fork][file] \in File
BY DEF Typed, MadeNow, Made

LEMMA FilesStay ==
  ASSUME out_dir' = out_dir, run' = run, NEW fork, NEW file
  PROVE  MadeNow(fork, file)' <=> MadeNow(fork, file)
BY DEF MadeNow, Made

LEMMA PresetNames == \A p \in Presets : p \in FileNames /\ p # "__init__"
BY DEF Presets, FileNames

(* What is written says the same while nothing is written, though the      *)
(* documents may be edited.                                                *)
LEMMA FilesFrame ==
  ASSUME BuiltIsComplete, NothingAhead, FromThisBuild, OlderFirst,
         out_dir' = out_dir, run' = run, started' = started, todo' = todo,
         \A p \in Presets : preset_cache[p] # 0 => preset_cache'[p] = preset_cache[p],
         edition \in Nat, edition' \in Nat, started \in Nat,
         edition <= edition'
  PROVE  BuiltIsComplete' /\ NothingAhead' /\ FromThisBuild' /\ OlderFirst'
<1>1. Built' = Built
  BY DEF Built
<1>2. BuiltIsComplete'
  BY <1>1, FilesStay DEF BuiltIsComplete
<1>3. NothingAhead'
  BY <1>1, FilesStay DEF NothingAhead
<1>4. FromThisBuild'
  BY FilesStay DEF FromThisBuild
<1>5. OlderFirst'
  BY FilesStay DEF OlderFirst
<1> QED BY <1>2, <1>3, <1>4, <1>5
-----------------------------------------------------------------------------
LEMMA FullBuildStarts ==
  ASSUME IInv, NEW c \in CommandLines, Start(c), c.name = "build_py"
  PROVE  FullBuild'
<1>1. run' = run + 1 /\ run \in Nat /\ out_dir' = out_dir /\ todo' = AllBuilders
  BY DEF Start, ForksToBuild, IInv, Typed
<1>2. status' = "finalize_options"
  BY DEF Start
<1>3. \A fork \in BuiltForks : \A file \in FileNames : ~ MadeNow(fork, file)'
  <2> SUFFICES ASSUME NEW fork \in BuiltForks, NEW file \in FileNames, MadeNow(fork, file)'
               PROVE FALSE
    OBVIOUS
  <2>1. out_dir[fork][file] # NoFile /\ out_dir[fork][file].run = run + 1
    BY <1>1 DEF MadeNow, Made
  <2>2. out_dir[fork][file].run <= run
    BY <2>1 DEF IInv, OfPastRuns
  <2> QED BY <1>1, <2>1, <2>2
<1>4. Built' = 0
  BY <1>1, Order DEF Built
<1>5. InOrder'
  BY <1>1, <1>2, <1>4, Order, BuildersAssumption DEF InOrder, Active, Working, Writing
<1>6. TargetsLeft' /\ PresentFork' /\ ReadyToWrite'
  BY <1>2 DEF TargetsLeft, PresentFork, ReadyToWrite, Working, Writing
<1>7. BuiltIsComplete'
  BY <1>4 DEF BuiltIsComplete, Positions
<1>8. NothingAhead' /\ FromThisBuild' /\ OlderFirst'
  <2>1. "__init__" \in FileNames
    BY DEF FileNames
  <2> QED BY <1>3, <2>1, Order, PresetNames DEF NothingAhead, FromThisBuild, OlderFirst
<1> QED BY <1>5, <1>6, <1>7, <1>8 DEF FullBuild

(* Steps that write nothing and read nothing. *)
LEMMA QuietStep ==
  ASSUME Typed, Typed', KnownTargets, FullBuild,
         \/ Edit \/ finalize_options \/ RaiseException \/ NextTarget \/ Kill \/ UNCHANGED vars,
         command.name = "build_py"
  PROVE  FullBuild'
<1>1. /\ out_dir' = out_dir /\ run' = run /\ started' = started /\ todo' = todo
      /\ preset_cache' = preset_cache /\ spec_str' = spec_str
      /\ edition \in Nat /\ edition' \in Nat /\ started \in Nat /\ edition <= edition'
  <2>1. /\ out_dir' = out_dir /\ run' = run /\ started' = started /\ todo' = todo
        /\ preset_cache' = preset_cache /\ spec_str' = spec_str
    BY DEF Edit, finalize_options, RaiseException, NextTarget, Kill, vars
  <2>2. edition' = edition \/ edition' = edition + 1
    BY DEF Edit, finalize_options, RaiseException, NextTarget, Kill, vars
  <2> QED BY <2>1, <2>2 DEF Typed
<1>2. BuiltIsComplete' /\ NothingAhead' /\ FromThisBuild' /\ OlderFirst'
  BY <1>1, FilesFrame DEF FullBuild
<1>3. Built' = Built
  BY <1>1 DEF Built
<1>4. \/ /\ status' = status /\ targets' = targets
      \/ /\ finalize_options /\ status' \notin Writing /\ status' \notin {"done", "write_init"}
      \/ /\ NextTarget /\ status' = "build_spec"
      \/ /\ status' \notin Active /\ status' # "done"
  BY DEF Edit, finalize_options, RaiseException, NextTarget, Kill, vars, Active, Working, Writing
<1>5. status' \in Active => status \in Active
  BY DEF Edit, finalize_options, RaiseException, NextTarget, Kill, vars, Active, Working, Writing
<1>6. InOrder'
  <2>1. status' = "done" => status = "done"
    BY <1>4, <1>5
  <2> QED BY <1>1, <1>3, <1>5, <2>1 DEF InOrder, FullBuild
<1>7. TargetsLeft' /\ PresentFork' /\ ReadyToWrite'
  <2>1. CASE status' = status /\ targets' = targets
    <3>1. TargetsLeft'
      BY <2>1 DEF TargetsLeft, FullBuild
    <3>2. PresentFork'
      BY <1>1, <2>1, FilesStay DEF PresentFork, Remaining, FullBuild
    <3>3. ReadyToWrite'
      BY <1>1, <1>3, <2>1 DEF ReadyToWrite, FullBuild
    <3> QED BY <3>1, <3>2, <3>3
  <2>2. CASE finalize_options /\ status' \notin Writing /\ status' # "write_init"
    <3>1. targets' = DefaultTargets
      BY <2>2 DEF finalize_options
    <3>2. \A p \in Presets : Remaining(p)'
      BY <3>1 DEF Remaining, DefaultTargets, Presets
    <3> QED BY <2>2, <3>1, <3>2 DEF TargetsLeft, PresentFork, ReadyToWrite, Writing
  <2>3. CASE NextTarget /\ status' = "build_spec"
    <3>1. status = "written" /\ targets' = Tail(targets)
      BY <2>3 DEF NextTarget
    <3>2. targets \in {<<>>, <<"mainnet">>, DefaultTargets} /\ targets # <<>>
      BY <3>1 DEF FullBuild, TargetsLeft, KnownTargets, Working, Writing
    <3>3. targets' \in {<<>>, <<"mainnet">>}
      <4>1. Tail(<<"mainnet">>) = <<>> /\ Tail(DefaultTargets) = <<"mainnet">>
        BY DEF DefaultTargets
      <4> QED BY <3>1, <3>2, <4>1
    <3>4. \A p \in Presets : Remaining(p) => Remaining(p)' \/ p = Head(targets)
      BY <3>1, <3>2 DEF Remaining, DefaultTargets
    <3>5. MadeNow(Head(todo), Head(targets))
      BY <3>1 DEF FullBuild, PresentFork, Working, Writing
    <3>6. \A p \in Presets : ~ Remaining(p)' => MadeNow(Head(todo), p)
      BY <3>1, <3>4, <3>5 DEF FullBuild, PresentFork, Working, Writing
    <3>7. PresentFork'
      BY <1>1, <2>3, <3>6, FilesStay DEF PresentFork
    <3> QED BY <2>3, <3>3, <3>7 DEF TargetsLeft, ReadyToWrite
  <2>4. CASE status' \notin Active
    BY <2>4 DEF TargetsLeft, PresentFork, ReadyToWrite, Active, Working, Writing
  <2> QED BY <1>4, <2>1, <2>2, <2>3, <2>4
<1> QED BY <1>2, <1>6, <1>7 DEF FullBuild
-----------------------------------------------------------------------------
(* Steps that read documents and write files. *)

LEMMA PositionWritten ==
  ASSUME Typed, InOrder, todo # <<>>, run' = run, NEW h, h = Built + 1,
         NEW g \in FileNames, NEW v \in File,
         \A a \in BuiltForks : \A b \in FileNames :
           out_dir'[a][b] = IF a = Head(todo) /\ b = g THEN v ELSE out_dir[a][b],
         NEW j \in Positions, NEW b \in FileNames
  PROVE  /\ out_dir'[AllBuilders[j]][b] =
              IF j = h /\ b = g THEN v ELSE out_dir[AllBuilders[j]][b]
         /\ (j # h \/ b # g) => (MadeNow(AllBuilders[j], b)' <=> MadeNow(AllBuilders[j], b))
<1>1. AllBuilders[j] = Head(todo) <=> j = h
  BY PresentPosition, Order
<1>2. out_dir'[AllBuilders[j]][b] =
        IF AllBuilders[j] = Head(todo) /\ b = g THEN v ELSE out_dir[AllBuilders[j]][b]
  BY Order
<1>3. out_dir'[AllBuilders[j]][b] =
        IF j = h /\ b = g THEN v ELSE out_dir[AllBuilders[j]][b]
  BY <1>1, <1>2
<1>4. (j # h \/ b # g) => out_dir'[AllBuilders[j]][b] = out_dir[AllBuilders[j]][b]
  BY <1>3
<1>5. (j # h \/ b # g) => (MadeNow(AllBuilders[j], b)' <=> MadeNow(AllBuilders[j], b))
  BY <1>4 DEF MadeNow, Made
<1> QED BY <1>3, <1>5

LEMMA SpecBuilt ==
  ASSUME IInv, build_spec, command.name = "build_py"
  PROVE  FullBuild'
<1> DEFINE p == Head(targets)
           preset == IF preset_cache[p] = 0 THEN edition ELSE preset_cache[p]
<1> USE DEF IInv, FullBuild
<1>1. /\ out_dir' = out_dir /\ run' = run /\ started' = started /\ todo' = todo
      /\ targets' = targets /\ edition' = edition
      /\ edition \in Nat \ {0} /\ run \in Nat /\ started \in Nat /\ started <= edition
      /\ status = "build_spec" /\ targets # <<>>
  BY DEF build_spec, Typed
<1>2. p \in Presets
  <2>1. targets \in Seq(Presets)
    BY <1>1 DEF KnownTargets, Working
  <2> QED BY <1>1, <2>1
<1>3. preset \in Nat \ {0}
  BY <1>1, <1>2 DEF Typed
<1>4. \/ /\ spec_str' = [run |-> run, docs |-> edition, preset |-> preset]
         /\ preset_cache' = [preset_cache EXCEPT ![p] = preset] /\ status' = "open"
      \/ preset_cache' = preset_cache /\ status' = "KeyError"
  BY DEF build_spec
<1>5. \A q \in Presets : preset_cache[q] # 0 => preset_cache'[q] = preset_cache[q]
  BY <1>2, <1>4 DEF Typed
<1>6. BuiltIsComplete' /\ NothingAhead' /\ FromThisBuild' /\ OlderFirst'
  BY <1>1, <1>5, FilesFrame
<1>7. Built' = Built
  BY <1>1 DEF Built
<1>8. InOrder'
  BY <1>1, <1>4, <1>7 DEF InOrder, Active, Working
<1>9. TargetsLeft'
  BY <1>1, <1>4 DEF TargetsLeft, Working
<1>10. PresentFork'
  <2>1. \A q \in Presets : ~ Remaining(q) => MadeNow(Head(todo), q)
    BY <1>1 DEF PresentFork, Working
  <2> QED BY <1>1, <1>4, <2>1, FilesStay DEF PresentFork, Remaining
<1>11. ReadyToWrite'
  <2> SUFFICES ASSUME status' \in {"open", "write"}
               PROVE /\ spec_str'.run = run /\ spec_str'.docs \in started..edition
                     /\ spec_str'.preset = preset_cache'[p] /\ preset_cache'[p] # 0
                     /\ \A j \in Positions :
                          j <= Built => out_dir[AllBuilders[j]][p].docs <= spec_str'.docs
    BY <1>1, <1>7 DEF ReadyToWrite
  <2>1. /\ spec_str'.run = run /\ spec_str'.docs = edition /\ spec_str'.preset = preset
        /\ preset_cache'[p] = preset
    BY <1>2, <1>4 DEF Typed
  <2>2. ASSUME NEW j \in Positions, j <= Built PROVE out_dir[AllBuilders[j]][p].docs <= edition
    <3>1. MadeNow(AllBuilders[j], p)
      BY <1>2, <2>2, PresetNames DEF BuiltIsComplete
    <3>2. out_dir[AllBuilders[j]][p].docs \in started..edition
      BY <1>2, <3>1 DEF FromThisBuild
    <3> QED BY <3>2
  <2> QED BY <1>1, <1>3, <2>1, <2>2
<1> QED BY <1>6, <1>8, <1>9, <1>10, <1>11
(* The file that is being opened or written. *)
LEMMA PresentFile ==
  ASSUME IInv, status \in {"open", "write"}, command.name = "build_py"
  PROVE  /\ todo # <<>> /\ targets # <<>> /\ Head(targets) \in Presets
         /\ Head(targets) \in FileNames /\ Head(targets) # "__init__"
         /\ Remaining(Head(targets))
         /\ Built \in Nat /\ Built + 1 \in Positions /\ Head(todo) = AllBuilders[Built + 1]
<1>1. todo # <<>> /\ InOrder
  BY DEF IInv, FullBuild, InOrder, Active, Working, Writing
<1>2. targets # <<>> /\ targets \in Seq(Presets)
  BY DEF IInv, KnownTargets, Working, Writing
<1>3. Head(targets) \in Presets /\ Remaining(Head(targets))
  BY <1>2 DEF Remaining
<1> QED BY <1>1, <1>2, <1>3, PresentPosition, PresetNames

LEMMA ModuleOpened ==
  ASSUME IInv, OpenModule, command.name = "build_py"
  PROVE  FullBuild'
<1> PICK p : p = Head(targets)
  OBVIOUS
<1> PICK h : h = Built + 1
  OBVIOUS
<1>1. /\ run' = run /\ started' = started /\ todo' = todo /\ preset_cache' = preset_cache
      /\ targets' = targets /\ edition' = edition /\ spec_str' = spec_str
      /\ status = "open" /\ status' = "write"
      /\ out_dir' = [out_dir EXCEPT ![Head(todo)][p] = EmptyFile]
  BY DEF OpenModule
<1>2. /\ todo # <<>> /\ p \in Presets /\ p \in FileNames /\ p # "__init__" /\ Remaining(p)
      /\ Built \in Nat /\ h \in Positions /\ Head(todo) = AllBuilders[h]
  BY <1>1, PresentFile
<1>3. Built' = Built
  BY <1>1 DEF Built
<1> USE DEF IInv, FullBuild
<1>4. \A j \in Positions : \A b \in FileNames :
        /\ out_dir'[AllBuilders[j]][b] = IF j = h /\ b = p THEN EmptyFile ELSE out_dir[AllBuilders[j]][b]
        /\ (j # h \/ b # p) => (MadeNow(AllBuilders[j], b)' <=> MadeNow(AllBuilders[j], b))
  <2>1. Typed /\ InOrder /\ EmptyFile \in File
    BY EmptyIsFile
  <2>2. p \in FileNames /\ todo # <<>> /\ run' = run /\ h = Built + 1
    BY <1>1, <1>2
  <2>3. \A a \in BuiltForks : \A b \in FileNames :
          out_dir'[a][b] = IF a = Head(todo) /\ b = p THEN EmptyFile ELSE out_dir[a][b]
    BY <1>1, <2>1, FileWritten
  <2> HIDE DEF IInv, FullBuild
  <2> QED BY <2>1, <2>2, <2>3, PositionWritten
<1>5. ~ MadeNow(AllBuilders[h], p)'
  BY <1>2, <1>4 DEF MadeNow, Made
<1>6. \A j \in Positions : \A b \in FileNames : MadeNow(AllBuilders[j], b)' =>
        MadeNow(AllBuilders[j], b) /\ out_dir'[AllBuilders[j]][b] = out_dir[AllBuilders[j]][b]
  BY <1>4, <1>5
<1>7. "__init__" \in FileNames
  BY DEF FileNames
<1>8. BuiltIsComplete'
  BY <1>2, <1>3, <1>4, PresetNames DEF BuiltIsComplete, Positions
<1>9. NothingAhead'
  BY <1>3, <1>6, <1>7, PresetNames DEF NothingAhead
<1>10. FromThisBuild'
  BY <1>1, <1>6, PresetNames DEF FromThisBuild
<1>11. OlderFirst'
  <2> SUFFICES ASSUME NEW i \in Positions, NEW j \in Positions, NEW q \in Presets,
                      i <= j, MadeNow(AllBuilders[j], q)'
               PROVE  out_dir'[AllBuilders[i]][q].docs <= out_dir'[AllBuilders[j]][q].docs
    BY DEF OlderFirst
  <2>1. MadeNow(AllBuilders[j], q) /\ out_dir'[AllBuilders[j]][q] = out_dir[AllBuilders[j]][q]
    BY <1>6, PresetNames
  <2>2. j <= h
    BY <2>1 DEF NothingAhead
  <2>3. ~ (i = h /\ q = p)
    BY <1>2, <1>5, <2>2 DEF Positions
  <2>4. out_dir'[AllBuilders[i]][q] = out_dir[AllBuilders[i]][q]
    BY <1>4, <2>3, PresetNames
  <2> QED BY <2>1, <2>4 DEF OlderFirst
<1>12. InOrder'
  BY <1>1, <1>3 DEF InOrder, Active, Working, Writing
<1>13. TargetsLeft'
  BY <1>1 DEF TargetsLeft, Working, Writing
<1>14. PresentFork'
  <2>1. ASSUME NEW q \in Presets, ~ Remaining(q) PROVE MadeNow(AllBuilders[h], q)'
    <3>1. MadeNow(AllBuilders[h], q)
      BY <1>1, <1>2, <2>1 DEF PresentFork, Working, Writing
    <3> QED BY <1>2, <1>4, <2>1, <3>1, PresetNames
  <2>2. \A q \in Presets : Remaining(q)' <=> Remaining(q)
    BY <1>1 DEF Remaining
  <2> QED BY <1>1, <1>2, <2>1, <2>2 DEF PresentFork
<1>15. ReadyToWrite'
  <2>1. ASSUME NEW j \in Positions, j <= Built
        PROVE  out_dir'[AllBuilders[j]][p] = out_dir[AllBuilders[j]][p]
    BY <1>2, <1>4, <2>1
  <2>2. /\ spec_str.run = run /\ spec_str.docs \in started..edition
        /\ spec_str.preset = preset_cache[p] /\ preset_cache[p] # 0
        /\ \A j \in Positions : j <= Built => out_dir[AllBuilders[j]][p].docs <= spec_str.docs
    BY <1>1 DEF ReadyToWrite
  <2> QED BY <1>1, <1>3, <2>1, <2>2 DEF ReadyToWrite
<1> QED BY <1>8, <1>9, <1>10, <1>11, <1>12, <1>13, <1>14, <1>15
LEMMA ModuleWritten ==
  ASSUME IInv, WriteModule, command.name = "build_py"
  PROVE  FullBuild'
<1> PICK p : p = Head(targets)
  OBVIOUS
<1> PICK h : h = Built + 1
  OBVIOUS
<1> PICK text : text = spec_str
  OBVIOUS
<1>1. /\ run' = run /\ started' = started /\ todo' = todo /\ preset_cache' = preset_cache
      /\ targets' = targets /\ edition' = edition /\ spec_str' = spec_str
      /\ status = "write" /\ status' = "written"
      /\ out_dir' = [out_dir EXCEPT ![Head(todo)][p] = text]
  BY DEF WriteModule
<1>2. /\ todo # <<>> /\ p \in Presets /\ p \in FileNames /\ p # "__init__" /\ Remaining(p)
      /\ Built \in Nat /\ h \in Positions /\ Head(todo) = AllBuilders[h]
  BY <1>1, PresentFile
<1>3. Built' = Built
  BY <1>1 DEF Built
<1> USE DEF IInv, FullBuild
<1>4. \A j \in Positions : \A b \in FileNames :
        /\ out_dir'[AllBuilders[j]][b] = IF j = h /\ b = p THEN text ELSE out_dir[AllBuilders[j]][b]
        /\ (j # h \/ b # p) => (MadeNow(AllBuilders[j], b)' <=> MadeNow(AllBuilders[j], b))
  <2>1. Typed /\ InOrder /\ text \in File
    BY DEF Typed
  <2>2. p \in FileNames /\ todo # <<>> /\ run' = run /\ h = Built + 1
    BY <1>1, <1>2
  <2>3. \A a \in BuiltForks : \A b \in FileNames :
          out_dir'[a][b] = IF a = Head(todo) /\ b = p THEN text ELSE out_dir[a][b]
    BY <1>1, <2>1, FileWritten
  <2> HIDE DEF IInv, FullBuild
  <2> QED BY <2>1, <2>2, <2>3, PositionWritten
<1>5. /\ text \in File /\ text.run = run /\ run # 0 /\ text.docs \in started..edition
      /\ text.preset = preset_cache[p] /\ preset_cache[p] # 0
      /\ \A j \in Positions : j <= Built => out_dir[AllBuilders[j]][p].docs <= text.docs
  BY <1>1 DEF ReadyToWrite, InOrder, Typed
<1>6. MadeNow(AllBuilders[h], p)'
  <2>1. out_dir'[AllBuilders[h]][p] = text
    BY <1>2, <1>4
  <2>2. text # NoFile /\ text # EmptyFile
    BY <1>5, EmptyIsFile, FilesAssumption
  <2> QED BY <1>1, <1>5, <2>1, <2>2 DEF MadeNow, Made
<1>7. "__init__" \in FileNames
  BY DEF FileNames
<1>8. BuiltIsComplete'
  BY <1>2, <1>3, <1>4, PresetNames DEF BuiltIsComplete, Positions
<1>9. NothingAhead'
  <2>1. ASSUME NEW j \in Positions, MadeNow(AllBuilders[j], "__init__")' PROVE j <= Built
    BY <1>2, <1>4, <1>7, <2>1 DEF NothingAhead
  <2>2. ASSUME NEW j \in Positions, NEW q \in Presets, MadeNow(AllBuilders[j], q)'
        PROVE  j <= h
    BY <1>2, <1>4, <2>2, PresetNames DEF NothingAhead, Positions
  <2> QED BY <1>3, <2>1, <2>2 DEF NothingAhead
<1>10. FromThisBuild'
  <2> SUFFICES ASSUME NEW j \in Positions, NEW q \in Presets, MadeNow(AllBuilders[j], q)'
               PROVE  /\ out_dir'[AllBuilders[j]][q].docs \in started..edition
                      /\ out_dir'[AllBuilders[j]][q].preset = preset_cache[q] /\ preset_cache[q] # 0
    BY <1>1 DEF FromThisBuild
  <2>1. CASE j = h /\ q = p
    BY <1>4, <1>5, <2>1, PresetNames
  <2>2. CASE ~ (j = h /\ q = p)
    BY <1>4, <2>2, PresetNames DEF FromThisBuild
  <2> QED BY <2>1, <2>2
<1>11. OlderFirst'
  <2> SUFFICES ASSUME NEW i \in Positions, NEW j \in Positions, NEW q \in Presets,
                      i <= j, MadeNow(AllBuilders[j], q)'
               PROVE  out_dir'[AllBuilders[i]][q].docs <= out_dir'[AllBuilders[j]][q].docs
    BY DEF OlderFirst
  <2>1. i \in Nat /\ j \in Nat /\ h \in Nat
    BY <1>2, Order DEF Positions
  <2>2. CASE j = h /\ q = p
    <3>1. out_dir'[AllBuilders[j]][q] = text
      BY <1>4, <2>2, PresetNames
    <3>2. CASE i = h
      BY <1>5, <2>2, <3>1, <3>2 DEF File
    <3>3. CASE i # h
      <4>1. i <= Built
        BY <1>2, <2>1, <2>2, <3>3
      <4>2. out_dir'[AllBuilders[i]][q] = out_dir[AllBuilders[i]][q]
        BY <1>4, <3>3, PresetNames
      <4> QED BY <1>5, <2>2, <3>1, <4>1, <4>2
    <3> QED BY <3>2, <3>3
  <2>3. CASE ~ (j = h /\ q = p)
    <3>1. MadeNow(AllBuilders[j], q) /\ out_dir'[AllBuilders[j]][q] = out_dir[AllBuilders[j]][q]
      BY <1>4, <2>3, PresetNames
    <3>2. j <= h
      BY <3>1 DEF NothingAhead
    <3>3. ~ (i = h /\ q = p)
      BY <2>1, <2>3, <3>2
    <3>4. out_dir'[AllBuilders[i]][q] = out_dir[AllBuilders[i]][q]
      BY <1>4, <3>3, PresetNames
    <3> QED BY <3>1, <3>4 DEF OlderFirst
  <2> QED BY <2>2, <2>3
<1>12. InOrder'
  BY <1>1, <1>3 DEF InOrder, Active, Working, Writing
<1>13. TargetsLeft'
  BY <1>1 DEF TargetsLeft, Working, Writing
<1>14. PresentFork'
  <2>1. ASSUME NEW q \in Presets, ~ Remaining(q) PROVE MadeNow(AllBuilders[h], q)'
    <3>1. MadeNow(AllBuilders[h], q)
      BY <1>1, <1>2, <2>1 DEF PresentFork, Working, Writing
    <3> QED BY <1>2, <1>4, <2>1, <3>1, PresetNames
  <2>2. \A q \in Presets : Remaining(q)' <=> Remaining(q)
    BY <1>1 DEF Remaining
  <2>3. Head(todo)' = AllBuilders[h] /\ Head(targets)' = p
    BY <1>1, <1>2
  <2> QED BY <1>6, <2>1, <2>2, <2>3 DEF PresentFork
<1>15. ReadyToWrite'
  BY <1>1 DEF ReadyToWrite
<1> QED BY <1>8, <1>9, <1>10, <1>11, <1>12, <1>13, <1>14, <1>15

LEMMA InitOpened ==
  ASSUME IInv, OpenInit, command.name = "build_py"
  PROVE  FullBuild'
<1> PICK h : h = Built + 1
  OBVIOUS
<1> USE DEF IInv, FullBuild
<1>1. /\ run' = run /\ started' = started /\ todo' = todo /\ preset_cache' = preset_cache
      /\ targets' = targets /\ edition' = edition /\ spec_str' = spec_str
      /\ status = "build_spec" /\ targets = <<>> /\ status' = "write_init"
      /\ out_dir' = [out_dir EXCEPT ![Head(todo)]["__init__"] = EmptyFile]
  BY DEF OpenInit
<1>2. todo # <<>> /\ Built \in Nat /\ h \in Positions /\ Head(todo) = AllBuilders[h]
  BY <1>1, PresentPosition DEF InOrder, Active, Working
<1>3. Built' = Built
  BY <1>1 DEF Built
<1>4. \A j \in Positions : \A b \in FileNames :
        /\ out_dir'[AllBuilders[j]][b] =
             IF j = h /\ b = "__init__" THEN EmptyFile ELSE out_dir[AllBuilders[j]][b]
        /\ (j # h \/ b # "__init__") =>
             (MadeNow(AllBuilders[j], b)' <=> MadeNow(AllBuilders[j], b))
  <2>1. Typed /\ InOrder /\ EmptyFile \in File
    BY EmptyIsFile
  <2>2. "__init__" \in FileNames /\ todo # <<>> /\ run' = run /\ h = Built + 1
    BY <1>1, <1>2 DEF FileNames
  <2>3. \A a \in BuiltForks : \A b \in FileNames :
          out_dir'[a][b] = IF a = Head(todo) /\ b = "__init__" THEN EmptyFile ELSE out_dir[a][b]
    BY <1>1, <2>1, FileWritten
  <2> HIDE DEF IInv, FullBuild
  <2> QED BY <2>1, <2>2, <2>3, PositionWritten
<1>5. \A j \in Positions : \A q \in Presets :
        /\ out_dir'[AllBuilders[j]][q] = out_dir[AllBuilders[j]][q]
        /\ MadeNow(AllBuilders[j], q)' <=> MadeNow(AllBuilders[j], q)
  BY <1>4, PresetNames
<1>6. "__init__" \in FileNames
  BY DEF FileNames
<1>7. ~ MadeNow(AllBuilders[h], "__init__")'
  BY <1>2, <1>4, <1>6 DEF MadeNow, Made
<1>8. BuiltIsComplete'
  BY <1>2, <1>3, <1>4 DEF BuiltIsComplete, Positions
<1>9. NothingAhead'
  BY <1>3, <1>4, <1>5, <1>6, <1>7 DEF NothingAhead
<1>10. FromThisBuild'
  BY <1>1, <1>5 DEF FromThisBuild
<1>11. OlderFirst'
  BY <1>5 DEF OlderFirst
<1>12. InOrder'
  BY <1>1, <1>3 DEF InOrder, Active, Working
<1>13. TargetsLeft'
  BY <1>1 DEF TargetsLeft, Working
<1>14. PresentFork'
  BY <1>1, <1>2, <1>5 DEF PresentFork, Remaining, Working
<1>15. ReadyToWrite'
  BY <1>1 DEF ReadyToWrite
<1> QED BY <1>8, <1>9, <1>10, <1>11, <1>12, <1>13, <1>14, <1>15

LEMMA InitWritten ==
  ASSUME IInv, WriteInit, command.name = "build_py"
  PROVE  FullBuild'
<1> PICK h : h = Built + 1
  OBVIOUS
<1> PICK marker : marker = [EmptyFile EXCEPT !.run = run]
  OBVIOUS
<1> USE DEF IInv, FullBuild
<1>1. /\ run' = run /\ started' = started /\ preset_cache' = preset_cache
      /\ targets' = targets /\ edition' = edition /\ spec_str' = spec_str
      /\ status = "write_init" /\ targets = <<>> /\ todo' = Tail(todo)
      /\ status' = IF todo' = <<>> THEN "done" ELSE "finalize_options"
      /\ out_dir' = [out_dir EXCEPT ![Head(todo)]["__init__"] = marker]
  BY DEF WriteInit, run_pyspec_cmd, TargetsLeft
<1>2. /\ todo # <<>> /\ todo \in Seq(BuiltForks)
      /\ Built \in Nat /\ h \in Positions /\ Head(todo) = AllBuilders[h] /\ Len(AllBuilders) \in Nat
  BY <1>1, PresentPosition, Order DEF InOrder, Active, Working
<1>3. Built' = h
  BY <1>1, <1>2 DEF Built
<1>4. \A j \in Positions : \A b \in FileNames :
        /\ out_dir'[AllBuilders[j]][b] =
             IF j = h /\ b = "__init__" THEN marker ELSE out_dir[AllBuilders[j]][b]
        /\ (j # h \/ b # "__init__") =>
             (MadeNow(AllBuilders[j], b)' <=> MadeNow(AllBuilders[j], b))
  <2>1. Typed /\ InOrder /\ marker \in File
    BY EmptyIsFile DEF Typed
  <2>2. "__init__" \in FileNames /\ todo # <<>> /\ run' = run /\ h = Built + 1
    BY <1>1, <1>2 DEF FileNames
  <2>3. \A a \in BuiltForks : \A b \in FileNames :
          out_dir'[a][b] = IF a = Head(todo) /\ b = "__init__" THEN marker ELSE out_dir[a][b]
    BY <1>1, <2>1, FileWritten
  <2> HIDE DEF IInv, FullBuild
  <2> QED BY <2>1, <2>2, <2>3, PositionWritten
<1>5. \A j \in Positions : \A q \in Presets :
        /\ out_dir'[AllBuilders[j]][q] = out_dir[AllBuilders[j]][q]
        /\ MadeNow(AllBuilders[j], q)' <=> MadeNow(AllBuilders[j], q)
  BY <1>4, PresetNames
<1>6. \A q \in Presets : MadeNow(AllBuilders[h], q)
  BY <1>1, <1>2 DEF PresentFork, Remaining, Working
<1>7. BuiltIsComplete'
  <2>1. MadeNow(AllBuilders[h], "__init__")'
    <3>1. out_dir'[AllBuilders[h]]["__init__"] = marker
      BY <1>2, <1>4 DEF FileNames
    <3>2. marker \in File /\ marker.run = run /\ run # 0 /\ run \in Nat
      BY EmptyIsFile DEF Typed, InOrder
    <3>3. marker # NoFile /\ marker # EmptyFile
      BY <3>2, EmptyIsFile, FilesAssumption
    <3> QED BY <1>1, <3>1, <3>2, <3>3 DEF MadeNow, Made
  <2>2. ASSUME NEW q \in Presets PROVE MadeNow(AllBuilders[h], q)'
    BY <1>2, <1>5, <1>6
  <2>3. ASSUME NEW j \in Positions, j <= Built, NEW b \in FileNames PROVE MadeNow(AllBuilders[j], b)'
    <3>1. j # h /\ MadeNow(AllBuilders[j], b)
      BY <1>2, <2>3 DEF BuiltIsComplete, Positions
    <3> QED BY <1>4, <3>1
  <2>4. \A j \in Positions : j <= h => j <= Built \/ j = h
    BY <1>2 DEF Positions
  <2> QED BY <1>3, <2>1, <2>2, <2>3, <2>4 DEF BuiltIsComplete, FileNames
<1>8. NothingAhead'
  <2>1. ASSUME NEW j \in Positions, MadeNow(AllBuilders[j], "__init__")' PROVE j <= h
    <3>1. CASE j = h
      BY <3>1 DEF Positions
    <3>2. CASE j # h
      <4>1. "__init__" \in FileNames
        BY DEF FileNames
      <4>2. j <= Built
        BY <1>4, <2>1, <3>2, <4>1 DEF NothingAhead
      <4> QED BY <1>2, <4>2 DEF Positions
    <3> QED BY <3>1, <3>2
  <2>2. ASSUME NEW j \in Positions, NEW q \in Presets, MadeNow(AllBuilders[j], q)'
        PROVE  j <= h + 1
    BY <1>2, <1>5, <2>2 DEF NothingAhead, Positions
  <2> QED BY <1>3, <2>1, <2>2 DEF NothingAhead
<1>9. FromThisBuild'
  <2> SUFFICES ASSUME NEW j \in Positions, NEW q \in Presets, MadeNow(AllBuilders[j], q)'
               PROVE  /\ out_dir'[AllBuilders[j]][q].docs \in started..edition
                      /\ out_dir'[AllBuilders[j]][q].preset = preset_cache[q] /\ preset_cache[q] # 0
    BY <1>1 DEF FromThisBuild
  <2> QED BY <1>5 DEF FromThisBuild
<1>10. OlderFirst'
  BY <1>5 DEF OlderFirst
<1>11. InOrder'
  <2>1. todo' \in Seq(BuiltForks) /\ Len(todo') = Len(todo) - 1
    BY <1>1, <1>2
  <2>2. ASSUME NEW j \in 1..Len(todo') PROVE todo'[j] = AllBuilders[h + j]
    <3>1. todo'[j] = todo[j + 1]
      BY <1>1, <1>2, <2>1
    <3>2. j + 1 \in 1..Len(todo)
      BY <1>2, <2>1
    <3>3. todo[j + 1] = AllBuilders[Built + (j + 1)]
      BY <3>2 DEF InOrder
    <3> QED BY <1>2, <2>1, <3>1, <3>3
  <2>3. (status' = "done" => todo' = <<>>) /\ (status' \in Active => todo' # <<>>)
    BY <1>1 DEF Active, Working, Writing
  <2>4. Len(todo') <= Len(AllBuilders) /\ run' # 0
    BY <1>1, <1>2, <2>1 DEF InOrder
  <2> QED BY <1>3, <2>1, <2>2, <2>3, <2>4 DEF InOrder
<1>12. TargetsLeft' /\ PresentFork' /\ ReadyToWrite'
  <2>1. status' \notin Working /\ status' \notin {"open", "write", "write_init"}
    BY <1>1 DEF Working, Writing
  <2> QED BY <2>1 DEF TargetsLeft, PresentFork, ReadyToWrite
<1> QED BY <1>7, <1>8, <1>9, <1>10, <1>11, <1>12

-----------------------------------------------------------------------------
LEMMA InvInit == Init => IInv
<1> SUFFICES ASSUME Init PROVE IInv
  OBVIOUS
<1>1. command.name # "build_py"
  BY DEF Init
<1> QED BY <1>1, TypesInit DEF IInv

LEMMA InvStep == IInv /\ [Next]_vars => IInv'
<1> SUFFICES ASSUME IInv, [Next]_vars PROVE IInv'
  OBVIOUS
<1>1. Typed' /\ OfPastRuns' /\ KnownTargets'
  BY TypesStep DEF IInv
<1>2. ASSUME command'.name = "build_py" PROVE FullBuild'
  <2>1. CASE \E c \in CommandLines : Start(c)
    <3> PICK c \in CommandLines : Start(c)
      BY <2>1
    <3>1. c.name = "build_py"
      BY <1>2 DEF Start
    <3> QED BY <3>1, FullBuildStarts
  <2>2. CASE ~ \E c \in CommandLines : Start(c)
    <3>1. command' = command
      BY <2>2 DEF Next, vars, Edit, finalize_options, build_spec, RaiseException,
                  OpenModule, WriteModule, NextTarget, OpenInit, WriteInit, EndDryRun, Kill
    <3>2. command.name = "build_py" /\ FullBuild
      BY <1>2, <3>1 DEF IInv
    <3>3. \/ Edit \/ finalize_options \/ RaiseException \/ NextTarget \/ Kill \/ UNCHANGED vars
          \/ build_spec \/ OpenModule \/ WriteModule \/ OpenInit \/ WriteInit
      BY <2>2, <3>2 DEF Next, EndDryRun
    <3>4. Typed /\ KnownTargets
      BY DEF IInv
    <3> QED BY <1>1, <3>2, <3>3, <3>4, QuietStep, SpecBuilt, ModuleOpened, ModuleWritten, InitOpened, InitWritten
  <2> QED BY <2>1, <2>2
<1> QED BY <1>1, <1>2 DEF IInv

LEMMA Invariance == Spec => []IInv
BY InvInit, InvStep, PTL DEF Spec

(* Wherever a full build stops, finished, failed or killed, a module it    *)
(* wrote has all the modules its builders import from this build too, made *)
(* from documents no newer than its own: BuildPyCommand.run goes through   *)
(* spec_builders from the oldest fork on.                                  *)
THEOREM PrefixCanBeImported == Spec => []PrefixImportable
BY Invariance, PrefixFromInv, PTL

(* PySpecCommand.run writes __init__.py of a fork after both modules.      *)
THEOREM PackagesAreComplete == Spec => []PackagesComplete
BY Invariance, CompleteFromInv, PTL

(* A full build that comes to its end has written every file itself,       *)
(* from documents of its own time and one edition of each preset, whatever *)
(* was killed before it or edited meanwhile.                               *)
THEOREM DoneMeansCurrent == Spec => []DoneIsCurrent
BY Invariance, CurrentFromInv, PTL
===============================================================================
