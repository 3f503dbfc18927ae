----------------------------- MODULE BuildCommand -----------------------------
(***************************************************************************)
(* The commands of setup.py: build_py builds the modules of every fork and *)
(* preset into one directory, pyspec those of one fork.  Documents and     *)
(* presets may be edited at any time, an exception may stop a command at   *)
(* any document, and the process may be killed between any two writes.     *)
(*                                                                         *)
(* What a module says is reduced to the edition of the documents and of    *)
(* the preset it was made from.                                            *)
(***************************************************************************)
EXTENDS SpecForks

CONSTANTS
  BuiltForks,    \* the forks of spec_builders in this checkout
  CommandLines,  \* the commands that may be given
  NoFile,        \* a path without a file
  MaxEdits,      \* bound on the editions
  MaxRuns        \* bound on the runs of setup.py

Presets == {"minimal", "mainnet"}
FileNames == Presets \cup {"__init__"}

(* An empty file, and a file of run number run. *)
EmptyFile == [run |-> 0, docs |-> 0, preset |-> 0]
File == [run : Nat, docs : Nat, preset : Nat]

VARIABLES
  edition,      \* the edition of documents and preset files on disk
  out_dir,      \* [BuiltForks -> [FileNames -> file]]
  command,      \* the command line being run
  run,          \* its number
  started,      \* the edition when it started
  todo,         \* the forks it has still to build, the first one now
  targets,      \* parsed_build_targets of that fork, the first one now
  spec_str,     \* the module that is ready to be written
  preset_cache, \* what load_preset read in this process, 0 before
  status        \* "idle", then where the command is, or how it ended

vars == <<edition, out_dir, command, run, started, todo, targets, spec_str, preset_cache, status>>

NoModule == EmptyFile

(* The iteration order of spec_builders. *)
AllBuilders == SelectSeq(ALL_FORKS, LAMBDA fork : fork \in BuiltForks)

(* The modules a module imports: those its builders name. *)
Imports(fork) == Forks \cap UNION {ToSet(spec_builders[f].imports) : f \in ToSet(collect_prev_forks(fork))}

(* A checkout that builds a fork builds all that its module imports; then  *)
(* every fork has one place in the order, after those it imports.          *)
ASSUME BuildersAssumption ==
  /\ AllBuilders # <<>>
  /\ AllBuilders \in Seq(BuiltForks)
  /\ \A fork \in BuiltForks : \E i \in DOMAIN AllBuilders : AllBuilders[i] = fork
  /\ \A i, j \in DOMAIN AllBuilders : AllBuilders[i] = AllBuilders[j] => i = j
  /\ \A j \in DOMAIN AllBuilders : \A other \in Imports(AllBuilders[j]) :
       \E i \in 1..(j - 1) : AllBuilders[i] = other

ASSUME FilesAssumption == NoFile \notin File

(* Targets come as text from the command line. *)
ASSUME CommandsAssumption ==
  \A c \in CommandLines : c.name = "pyspec" => c.build_targets \in Seq(STRING)

Init ==
  /\ edition = 1
  /\ out_dir = [fork \in BuiltForks |-> [file \in FileNames |-> NoFile]]
  /\ command = [name |-> "none"] /\ run = 0 /\ started = 0
  /\ todo = <<>> /\ targets = <<>>
  /\ spec_str = NoModule /\ preset_cache = [p \in Presets |-> 0]
  /\ status = "idle"

Edit ==
  /\ edition < MaxEdits
  /\ edition' = edition + 1
  /\ UNCHANGED <<out_dir, command, run, started, todo, targets, spec_str, preset_cache, status>>

Ended == {"idle", "done", "KeyError", "no such file", "invalid target", "exception", "killed"}

\* Mutant: the newest fork is built first.
ForksToBuild_NewestFirst(c) ==
  IF c.name = "pyspec" THEN <<c.spec_fork>> ELSE Reverse(AllBuilders)

(* pyspec builds the fork it is given, build_py all of them. *)
ForksToBuild(c) == IF c.name = "pyspec" THEN <<c.spec_fork>> ELSE AllBuilders

(* A new process: caches are empty. *)
Start(c) ==
  /\ status \in Ended /\ run < MaxRuns
  /\ command' = c /\ run' = run + 1 /\ started' = edition
  /\ todo' = ForksToBuild(c)
  /\ targets' = <<>> /\ spec_str' = NoModule
  /\ preset_cache' = [p \in Presets |-> 0]
  /\ status' = "finalize_options"
  /\ UNCHANGED <<edition, out_dir>>

\* Mutant: the command object of the first fork is used again.
run_pyspec_cmd_Once(rest) == "done"

(* Every fork gets a new command object: distutils runs one only once. *)
run_pyspec_cmd(rest) == IF rest = <<>> THEN "done" ELSE "finalize_options"

DefaultTargets == <<"minimal", "mainnet">>

(* Documents given on the command line are taken as they are. *)
WithDocuments == command.name = "pyspec" /\ command.md_doc_paths # "default"

finalize_options ==
  /\ status = "finalize_options"
  /\ LET given == IF command.name = "pyspec" THEN command.build_targets ELSE DefaultTargets
     IN /\ status' = IF ~ WithDocuments /\ Head(todo) \notin Forks THEN "KeyError"
                     ELSE IF WithDocuments /\ command.md_doc_paths = "missing" THEN "no such file"
                     ELSE IF \E i \in DOMAIN given : given[i] \notin Presets THEN "invalid target"
                     ELSE "build_spec"
        /\ targets' = given
  /\ UNCHANGED <<edition, out_dir, command, run, started, todo, spec_str, preset_cache>>

(* Documents are read from disk for every fork and preset, the files of a  *)
(* preset once in a process.                                               *)
build_spec ==
  /\ status = "build_spec" /\ targets # <<>>
  /\ IF Head(todo) \in DOMAIN spec_builders
     THEN LET p == Head(targets)
              preset == IF preset_cache[p] = 0 THEN edition ELSE preset_cache[p]
          IN /\ spec_str' = [run |-> run, docs |-> edition, preset |-> preset]
             /\ preset_cache' = [preset_cache EXCEPT ![p] = preset]
             /\ status' = IF command.name = "dry run" THEN "written" ELSE "open"
     ELSE status' = "KeyError" /\ UNCHANGED <<spec_str, preset_cache>>
  /\ UNCHANGED <<edition, out_dir, command, run, started, todo, targets>>

(* A document that cannot be parsed, combined or written: see BuildSpec. *)
RaiseException ==
  /\ status = "build_spec" /\ targets # <<>>
  /\ status' = "exception"
  /\ UNCHANGED <<edition, out_dir, command, run, started, todo, targets, spec_str, preset_cache>>

(* open(name + ".py", "w") empties the file ... *)
OpenModule ==
  /\ status = "open"
  /\ out_dir' = [out_dir EXCEPT ![Head(todo)][Head(targets)] = EmptyFile]
  /\ status' = "write"
  /\ UNCHANGED <<edition, command, run, started, todo, targets, spec_str, preset_cache>>

(* ... and leaving the with statement writes the text. *)
WriteModule ==
  /\ status = "write"
  /\ out_dir' = [out_dir EXCEPT ![Head(todo)][Head(targets)] = spec_str]
  /\ status' = "written"
  /\ UNCHANGED <<edition, command, run, started, todo, targets, spec_str, preset_cache>>

\* Mutant: __init__.py is written in the loop.
NextTarget_WithInit ==
  /\ status = "written"
  /\ out_dir' = [out_dir EXCEPT ![Head(todo)]["__init__"] = [EmptyFile EXCEPT !.run = run]]
  /\ targets' = Tail(targets)
  /\ status' = "build_spec"
  /\ UNCHANGED <<edition, command, run, started, todo, spec_str, preset_cache>>

NextTarget ==
  /\ status = "written"
  /\ targets' = Tail(targets)
  /\ status' = "build_spec"
  /\ UNCHANGED <<edition, out_dir, command, run, started, todo, spec_str, preset_cache>>

(* After the last target the package gets its __init__.py, which imports   *)
(* mainnet.  Opening empties it as well ...                                *)
OpenInit ==
  /\ status = "build_spec" /\ targets = <<>> /\ command.name # "dry run"
  /\ out_dir' = [out_dir EXCEPT ![Head(todo)]["__init__"] = EmptyFile]
  /\ status' = "write_init"
  /\ UNCHANGED <<edition, command, run, started, todo, targets, spec_str, preset_cache>>

(* ... and when it is written the next fork is built.                      *)
WriteInit ==
  /\ status = "write_init"
  /\ out_dir' = [out_dir EXCEPT ![Head(todo)]["__init__"] = [EmptyFile EXCEPT !.run = run]]
  /\ todo' = Tail(todo)
  /\ status' = run_pyspec_cmd(Tail(todo))
  /\ UNCHANGED <<edition, command, run, started, targets, spec_str, preset_cache>>

(* A dry run goes on without writing.                                      *)
EndDryRun ==
  /\ status = "build_spec" /\ targets = <<>> /\ command.name = "dry run"
  /\ todo' = Tail(todo)
  /\ status' = run_pyspec_cmd(Tail(todo))
  /\ UNCHANGED <<edition, out_dir, command, run, started, targets, spec_str, preset_cache>>

Kill ==
  /\ status \notin Ended
  /\ status' = "killed"
  /\ UNCHANGED <<edition, out_dir, command, run, started, todo, targets, spec_str, preset_cache>>

Next ==
  \/ Edit
  \/ \E c \in CommandLines : Start(c)
  \/ finalize_options \/ build_spec \/ RaiseException
  \/ OpenModule \/ WriteModule \/ NextTarget
  \/ OpenInit \/ WriteInit \/ EndDryRun
  \/ Kill

Spec == Init /\ [][Next]_vars

-----------------------------------------------------------------------------
Made(fork, file) == out_dir[fork][file] # NoFile /\ out_dir[fork][file] # EmptyFile
MadeNow(fork, file) == Made(fork, file) /\ out_dir[fork][file].run = run

(* Whenever a build stops, the modules it finished can be imported: each   *)
(* of this build has all the modules it imports from this build too, and   *)
(* they were made from documents no newer than its own.                    *)
PrefixImportable ==
  command.name = "build_py" =>
    \A fork \in BuiltForks : \A p \in Presets : MadeNow(fork, p) =>
      \A other \in Imports(fork) :
        MadeNow(other, p) /\ out_dir[other][p].docs <= out_dir[fork][p].docs

(* A package of a build is marked as one only when both of its modules are *)
(* there: what imports the package finds the module it names.              *)
PackagesComplete ==
  command.name = "build_py" =>
    \A fork \in BuiltForks : MadeNow(fork, "__init__") => \A p \in Presets : MadeNow(fork, p)

(* A build that comes to its end leaves nothing of the ones before it,     *)
(* killed or failed: every module and every package's __init__ is of this  *)
(* run and written to its end, the modules from documents no older than    *)
(* its start, and all modules of a preset agree on its edition.            *)
DoneIsCurrent ==
  (status = "done" /\ command.name = "build_py") =>
    \A fork \in BuiltForks :
      /\ \A file \in FileNames : MadeNow(fork, file)
      /\ \A p \in Presets :
           /\ out_dir[fork][p].docs >= started
           /\ \A other \in BuiltForks :
                MadeNow(other, p) => out_dir[other][p].preset = out_dir[fork][p].preset
===============================================================================
