------------------------------ MODULE BuildSpec ------------------------------
(***************************************************************************)
(* build_spec: the documents of a fork and of the forks before it are      *)
(* parsed one after the other, combined, ordered and written as one python *)
(* module.                                                                 *)
(*                                                                         *)
(* The module is the sequence of its top level statements.  A statement    *)
(* has the name it defines, the names python looks up when it executes it, *)
(* and a text; an assertion defines no name.                               *)
(***************************************************************************)
EXTENDS MarkdownToSpec, SpecForks

CONSTANTS
  Trees,            \* for every fork the file trees it may be built from
  Targets,          \* the forks that may be built
  PresetFiles,      \* the preset directories: sequences of sets of names
  UpperCaseNames,   \* the names that dependency_order_class_objects takes for constants
  ignored_dependencies

ASSUME PresetIsUnion ==
  \A files \in PresetFiles : UNION {files[i] : i \in DOMAIN files} = Preset

ASSUME TargetsAreForks == Targets \subseteq Forks

(* The files of a fork are documents, and a build reads something.         *)
ASSUME TreesAssumption ==
  \A target \in Targets : \A tree \in Trees[target] :
    /\ get_md_doc_paths(tree, target) # <<>>
    /\ \A fork \in Forks :
         LET files == FilesOf(tree, fork)
         IN /\ IsList(files)
            /\ \A i \in DOMAIN files : files[i].fork = fork /\ files[i].elements \in Documents

(* None is not among the names that the compiler and the builders write.   *)
ASSUME NoNameIsNone ==
  /\ NoName \notin KzgSetup \cup {"CURDLEPROOFS_CRS", "Configuration", "config", "fork", "ceillog2", "floorlog2"}
  /\ \A fork \in Forks :
       LET b == spec_builders[fork]
       IN NoName \notin ToSet(b.imports) \cup ToSet(b.preparations) \cup Keys(b.classes) \cup Keys(b.sundry_functions)
                        \cup Keys(b.execution_engine_cls) \cup Keys(b.hardcoded_ssz_dep_constants)

VARIABLES
  spec_fork,
  source_files,    \* the documents, in the order they are read
  preset_files,
  all_specs,       \* their SpecObjects
  spec_object,     \* the combination of the first of them ...
  combined,        \* ... this many
  class_objects,
  new_objects,     \* the copy the last pass over class_objects started from
  pyspec,          \* the statements of the written module
  phase

parser == <<document, at, current_heading_name, spec, all_custom_types, status>>
builder == <<spec_fork, source_files, preset_files, all_specs, spec_object, combined,
             class_objects, new_objects, pyspec, phase>>

-----------------------------------------------------------------------------
(* The entries with other names. *)
Without(d, names) == Restricted(d, Keys(d) \ names)

(* Combining. *)

combine_protocols(old_protocols, new_protocols) ==
  FoldLeft(LAMBDA d, item :
             Put(d, item.name, IF item.name \in Keys(d)
                               THEN combine_dicts(Get(d, item.name), item.def) ELSE item.def),
           old_protocols, new_protocols)

combine_ssz_objects(old_objects, new_objects_) ==
  FoldLeft(LAMBDA d, item : Put(d, item.name, item.def), old_objects, new_objects_)

combine_spec_objects(spec0, spec1) ==
  [s \in Sections |->
     CASE s = "protocols" -> combine_protocols(spec0[s], spec1[s])
       [] s = "ssz_objects" -> combine_ssz_objects(spec0[s], spec1[s])
       [] OTHER -> combine_dicts(spec0[s], spec1[s])]

-----------------------------------------------------------------------------
(* Ordering: one pass over the classes, see ClassOrder. *)

Place(d, name) == CHOOSE i \in DOMAIN d : d[i].name = name

(* key goes right behind dep if it stood before it. *)
Reinserted(objects, key, dep) ==
  LET k == Place(objects, key)  d == Place(objects, dep)
  IN IF k >= d THEN objects
     ELSE [i \in DOMAIN objects |->
             IF i = d THEN objects[k] ELSE IF i \in k .. d THEN objects[i + 1] ELSE objects[i]]

dependencies(object, custom_types) ==
  object.def.mentions \ (UpperCaseNames \cup ignored_dependencies \cup custom_types)

dependency_order_class_objects(objects, custom_types) ==
  FoldLeft(LAMBDA o, item :
             FoldLeft(LAMBDA p, dep : Reinserted(p, item.name, dep), o,
                      SetToSeq(dependencies(item, custom_types))),
           objects, objects)

-----------------------------------------------------------------------------
(* Writing: objects_to_spec. *)

Statement(name, needs, text) == [name |-> name, needs |-> needs, text |-> text]
Assertion(name, text) == Statement(NoName, {name}, text)

Definitions(dict) ==
  [i \in DOMAIN dict |-> Statement(dict[i].name, dict[i].def.mentions, dict[i].def.text)]

Names(names) == [i \in DOMAIN names |-> Statement(names[i], {}, names[i])]

\* Mutant: the most recent fork's builder comes first.
builders_NewestFirst(fork) ==
  LET forks == collect_prev_forks(fork) IN [i \in DOMAIN forks |-> spec_builders[forks[i]]]

builders(fork) ==
  LET forks == Reverse(collect_prev_forks(fork)) IN [i \in DOMAIN forks |-> spec_builders[forks[i]]]

(* The pieces of text that every builder adds. *)
Pieces(fork, Of(_)) == FlattenSeq([i \in DOMAIN builders(fork) |-> Of(builders(fork)[i])])

hardcoded_ssz_dep_constants(fork) ==
  FoldLeft(LAMBDA d, b : combine_dicts(d, b.hardcoded_ssz_dep_constants), <<>>, builders(fork))

hardcoded_func_dep_presets(fork) ==
  FoldLeft(LAMBDA d, b : combine_dicts(d, b.hardcoded_func_dep_presets), <<>>, builders(fork))

deprecate_constants(fork) ==
  UNION {builders(fork)[i].deprecate_constants : i \in DOMAIN builders(fork)}

deprecate_presets(fork) ==
  UNION {builders(fork)[i].deprecate_presets : i \in DOMAIN builders(fork)}

execution_engine_cls(fork) ==
  FoldLeft(LAMBDA txt, b : IF b.execution_engine_cls # <<>> THEN b.execution_engine_cls ELSE txt,
           <<>>, builders(fork))

\* Helpers the module has anyway, from its preamble and sundry functions.
DeletedFunctions == {"ceillog2", "floorlog2", "compute_merkle_proof"}

implement_optimizations(functions, fork) ==
  LET optimized == UNION {builders(fork)[i].optimized : i \in DOMAIN builders(fork)}
      Implementation(fn) == IF fn.name \in optimized THEN "optimized" ELSE fn.def.text
  IN [i \in DOMAIN functions |->
        [name |-> functions[i].name,
         def |-> Definition(Implementation(functions[i]), functions[i].def.mentions)]]

Functions(s, fork) ==
  implement_optimizations(Without(s["functions"], DeletedFunctions), fork)

(* Classes and functions, not constants and types, read config variables   *)
(* through the object config.                                              *)
Configured(dict, s) ==
  LET config_vars == Keys(s["config_vars"])
      Reads(mentions) == IF mentions \cap config_vars = {} THEN mentions
                         ELSE (mentions \ config_vars) \cup {"config"}
  IN [i \in DOMAIN dict |->
        [name |-> dict[i].name, def |-> Definition(dict[i].def.text, Reads(dict[i].def.mentions))]]

(* A list of records is written with a class one of the builders imports. *)
config_spec(s) ==
  LET vars_ == s["config_vars"]
      records == {i \in DOMAIN vars_ : vars_[i].name \in ConfigRecords}
      types == (UNION {vars_[i].def.mentions : i \in DOMAIN vars_})
               \cup (IF records # {} THEN {"frozendict", "Any"} ELSE {})
  IN << Statement("Configuration", {"NamedTuple"} \cup types, "config"),
        Statement("config", {"Configuration"} \cup types, "config") >>

protocols_spec(s) ==
  [i \in DOMAIN s["protocols"] |->
     LET functions == s["protocols"][i].def
     IN Statement(s["protocols"][i].name,
                  {"Protocol"} \cup UNION {functions[j].def.mentions : j \in DOMAIN functions}, "protocol")]

ssz_dep_constants_verification(s, fork) ==
  LET d == Without(hardcoded_ssz_dep_constants(fork), deprecate_constants(fork))
  IN [i \in DOMAIN d |-> Assertion(d[i].name, Get(s["ssz_dep_constants"], d[i].name).text)]

func_dep_presets_verification(s, fork) ==
  LET d == Without(hardcoded_func_dep_presets(fork), deprecate_presets(fork))
  IN [i \in DOMAIN d |-> Assertion(d[i].name, Get(s["func_dep_presets"], d[i].name).text)]

(* KeyError where a builder counts on what no document defines. *)
Writable(s, fork) ==
  /\ Keys(hardcoded_func_dep_presets(fork)) \subseteq Keys(s["preset_vars"])
  /\ Keys(hardcoded_ssz_dep_constants(fork)) \ deprecate_constants(fork) \subseteq Keys(s["ssz_dep_constants"])
  /\ Keys(hardcoded_func_dep_presets(fork)) \ deprecate_presets(fork) \subseteq Keys(s["func_dep_presets"])

objects_to_spec(s, fork, classes) ==
  Pieces(fork, LAMBDA b : Names(b.imports)) \o Pieces(fork, LAMBDA b : Names(b.preparations))
  \o Names(<<"fork", "ceillog2", "floorlog2">>)
  \o Definitions(hardcoded_ssz_dep_constants(fork))
  \o Definitions(s["custom_types"]) \o Definitions(s["constant_vars"])
  \o Definitions(s["preset_vars"]) \o Definitions(s["preset_dep_constant_vars"])
  \o Definitions(s["preset_dep_custom_types"])
  \o config_spec(s)
  \o Pieces(fork, LAMBDA b : b.classes)
  \o Definitions(Configured(classes, s))
  \o protocols_spec(s)
  \o Definitions(Configured(Functions(s, fork), s))
  \o Pieces(fork, LAMBDA b : b.sundry_functions) \o execution_engine_cls(fork)
  \o ssz_dep_constants_verification(s, fork) \o func_dep_presets_verification(s, fork)

-----------------------------------------------------------------------------
BuildInit ==
  /\ spec_fork \in Targets
  /\ \E tree \in Trees[spec_fork] : source_files = get_md_doc_paths(tree, spec_fork)
  /\ preset_files \in PresetFiles
  /\ document = source_files[1].elements /\ Init
  /\ all_specs = <<>> /\ spec_object = EmptySpec /\ combined = 0
  /\ class_objects = <<>> /\ new_objects = <<>>
  /\ pyspec = <<>>
  /\ phase = "loading"

Fail == phase' = "failed" /\ UNCHANGED <<all_specs, spec_object, combined, class_objects, new_objects, pyspec>>
Input == <<spec_fork, source_files, preset_files>>

(* A name in two preset files is refused, as are preset files without any. *)
load_preset ==
  /\ phase = "loading"
  /\ IF Preset # {} /\ \A i, j \in DOMAIN preset_files : i # j => preset_files[i] \cap preset_files[j] = {}
     THEN phase' = "parsing" /\ UNCHANGED <<all_specs, spec_object, combined, class_objects, new_objects, pyspec>>
     ELSE Fail
  /\ UNCHANGED parser /\ UNCHANGED Input

(* MarkdownToSpec(...).run(), element by element. *)
Parse ==
  /\ phase = "parsing" /\ status = "parsing"
  /\ Next
  /\ UNCHANGED builder

(* get_spec returns a SpecObject, or an exception ends the build. *)
get_spec ==
  /\ phase = "parsing" /\ status # "parsing"
  /\ IF status = "error" THEN Fail /\ UNCHANGED parser
     ELSE /\ all_specs' = Append(all_specs, spec)
          /\ IF Len(all_specs') < Len(source_files)
             THEN /\ document' = source_files[Len(all_specs') + 1].elements
                  /\ at' = 1 /\ current_heading_name' = NoName
                  /\ spec' = EmptySpec /\ all_custom_types' = <<>> /\ status' = "parsing"
                  /\ UNCHANGED phase
             ELSE phase' = "combining" /\ UNCHANGED parser
          /\ UNCHANGED <<spec_object, combined, class_objects, new_objects, pyspec>>
  /\ UNCHANGED Input

(* spec_object = all_specs[0], then the others one by one. *)
Combine ==
  /\ phase = "combining"
  /\ IF combined < Len(all_specs)
     THEN /\ spec_object' = IF combined = 0 THEN all_specs[1]
                            ELSE combine_spec_objects(spec_object, all_specs[combined + 1])
          /\ combined' = combined + 1
          /\ UNCHANGED <<class_objects, phase>>
     ELSE /\ class_objects' = combine_dicts(spec_object["ssz_objects"], spec_object["dataclasses"])
          /\ phase' = "ordering"
          /\ UNCHANGED <<spec_object, combined>>
  /\ UNCHANGED <<all_specs, new_objects, pyspec>> /\ UNCHANGED parser /\ UNCHANGED Input

CustomTypes == Keys(spec_object["custom_types"]) \cup Keys(spec_object["preset_dep_custom_types"])

(* ValueError for a name that is no class. *)
OrderClasses ==
  /\ phase = "ordering"
  /\ new_objects # class_objects
  /\ IF \A i \in DOMAIN class_objects : dependencies(class_objects[i], CustomTypes) \subseteq Keys(class_objects)
     THEN /\ new_objects' = class_objects
          /\ class_objects' = dependency_order_class_objects(class_objects, CustomTypes)
          /\ UNCHANGED <<all_specs, spec_object, combined, pyspec, phase>>
     ELSE Fail
  /\ UNCHANGED parser /\ UNCHANGED Input

WriteSpec ==
  /\ phase = "ordering"
  /\ new_objects = class_objects
  /\ IF Writable(spec_object, spec_fork)
     THEN /\ pyspec' = objects_to_spec(spec_object, spec_fork, class_objects)
          /\ phase' = "written"
          /\ UNCHANGED <<all_specs, spec_object, combined, class_objects, new_objects>>
     ELSE Fail
  /\ UNCHANGED parser /\ UNCHANGED Input

BuildNext ==
  \/ load_preset \/ Parse \/ get_spec \/ Combine \/ OrderClasses \/ WriteSpec

BuildSpecification == BuildInit /\ [][BuildNext]_<<parser, builder>>

-----------------------------------------------------------------------------
(* What the documents declare, apart from presets, config variables,       *)
(* methods, and generalized indices (written if a builder has them): a     *)
(* name, its text, and what it mentions.                                   *)

Declares(row) ==
  /\ ~ (row.cells < 2) /\ row.remark # "predefined-type"
  /\ IF row.constant THEN row.shape # "gindex" /\ row.name \notin Preset \cup Config
     ELSE row.shape = "ssz"

Declarations(doc) ==
  {DefinitionAt(doc, p) : p \in {q \in DefinitionPlaces(doc) : SectionOf(DefinitionAt(doc, q)) # "protocols"}}
  \cup {RowAt(doc, p) : p \in {q \in RowPlaces(doc) : Declares(RowAt(doc, q))}}

Files == DOMAIN source_files
Declared(i) == Declarations(source_files[i].elements)

(* Of two documents the one of the later fork, then the one read later. *)
NewerThan(i, j) ==
  LET age(k) == Len(collect_prev_forks(source_files[k].fork))
  IN age(i) > age(j) \/ (age(i) = age(j) /\ i > j)

SectionsOf(name) == {s \in Sections : name \in Keys(spec_object[s])}

(* Names that the compiler writes or rewrites whatever documents say. *)
BuilderNames ==
  Keys(Pieces(spec_fork, LAMBDA b : b.classes)) \cup Keys(Pieces(spec_fork, LAMBDA b : b.sundry_functions))
  \cup Keys(execution_engine_cls(spec_fork)) \cup Keys(hardcoded_ssz_dep_constants(spec_fork))
  \cup (UNION {builders(spec_fork)[i].optimized : i \in DOMAIN builders(spec_fork)}) \cup DeletedFunctions
  \cup {"Configuration", "config", "CURDLEPROOFS_CRS"} \cup KzgSetup

Bindings(name) == {i \in DOMAIN pyspec : pyspec[i].name = name}
LastBinding(name) == CHOOSE i \in Bindings(name) : \A j \in Bindings(name) : j <= i

(* What a document of a later fork defines replaces what earlier documents *)
(* say, wherever the module writes it; no definition is lost.  (A name has *)
(* to stay in its section: written in two, the later section wins.)        *)
NewestDefinitionStands ==
  phase = "written" =>
    \A i \in Files : \A d \in Declared(i) :
      (d.name \notin BuilderNames /\ Cardinality(SectionsOf(d.name)) = 1) =>
        /\ Bindings(d.name) # {}
        /\ \/ pyspec[LastBinding(d.name)].text = d.text
           \/ \E j \in Files : \E e \in Declared(j) :
                e.name = d.name /\ (NewerThan(j, i) \/ (j = i /\ e # d))

(* Python executes the statements in their order: every name is there when *)
(* it is looked up, every assertion holds.                                 *)
Runs ==
  \A i \in DOMAIN pyspec :
    LET Defined == {pyspec[j].name : j \in 1 .. i - 1}
    IN /\ pyspec[i].needs \subseteq Defined
       /\ pyspec[i].name = NoName =>
            \A n \in pyspec[i].needs : pyspec[LastBinding(n)].text = pyspec[i].text

(* What the compiler takes for granted of the documents of a fork.         *)

Rank ==
  [custom_types |-> 1, constant_vars |-> 2, preset_vars |-> 3, preset_dep_constant_vars |-> 4,
   preset_dep_custom_types |-> 5]

NamesOfRows == UNION {Keys(spec_object[s]) : s \in DOMAIN Rank}

(* The section of a name that is written with the constants and types.     *)
RankOf(name) == LET s == CHOOSE t \in DOMAIN Rank : name \in Keys(spec_object[t]) IN Rank[s]

(* The rows that are stored in one of these, and what their values need:   *)
(* of a preset the file's value is written, with the type of the row.      *)
Kept(row) ==
  /\ ~ (row.cells < 2) /\ row.remark # "predefined-type"
  /\ IF row.constant THEN row.shape # "gindex" /\ row.name \notin Config \ Preset ELSE row.shape = "ssz"

Needs(row) == IF row.constant /\ row.name \in Preset THEN {row.type} \ {NoName} ELSE row.mentions

KeptRows(doc) == {p \in RowPlaces(doc) : Kept(RowAt(doc, p))}
TheRow(r) == RowAt(source_files[r[1]].elements, r[2])
Rows == UNION {{i} \X KeptRows(source_files[i].elements) : i \in Files}
ReadBefore(q, r) == q[1] < r[1] \/ (q[1] = r[1] /\ Before(q[2], r[2]))

Library ==
  Keys(Pieces(spec_fork, LAMBDA b : Names(b.imports)))
  \cup Keys(Pieces(spec_fork, LAMBDA b : Names(b.preparations)))
  \cup {"fork", "ceillog2", "floorlog2"} \cup Keys(hardcoded_ssz_dep_constants(spec_fork))

(* A constant or type needs what was declared before it was itself, or is  *)
(* written in an earlier section.                                          *)
RowsInOrder ==
  \A r \in Rows : \A n \in Needs(TheRow(r)) \ Library :
    /\ n \in NamesOfRows
    /\ \/ RankOf(n) < RankOf(TheRow(r).name)
       \/ /\ RankOf(n) = RankOf(TheRow(r).name)
          /\ \E q \in Rows : /\ TheRow(q).name = n
                             /\ \A t \in Rows : TheRow(t).name = TheRow(r).name => ReadBefore(q, t)

NamesOfClasses == Keys(class_objects)
Known ==
  Library \cup Keys(Pieces(spec_fork, LAMBDA b : b.classes)) \cup NamesOfRows \cup NamesOfClasses

(* A name has one section; the value of a preset may be asserted, too.     *)
NamesApart ==
  \A s, t \in Sections :
    (s # t /\ {s, t} # {"preset_vars", "func_dep_presets"}) => Keys(spec_object[s]) \cap Keys(spec_object[t]) = {}

(* Classes do not mention each other in a circle, and look like classes.   *)
ClassesInOrder ==
  /\ NamesOfClasses \cap (UpperCaseNames \cup ignored_dependencies) = {}
  /\ \A S \in SUBSET NamesOfClasses : S # {} => \E n \in S : Get(class_objects, n).mentions \cap S = {}

(* What is written in the order of the sections knows what is before it.   *)
MentionsKnown ==
  /\ \A item \in ToSet(spec_object["config_vars"]) : item.def.mentions \subseteq Library \cup NamesOfRows
  /\ \A item \in ToSet(class_objects) : item.def.mentions \subseteq Known \cup Keys(spec_object["config_vars"])
  /\ \A item \in ToSet(spec_object["functions"]) :
       item.def.mentions \subseteq Known \cup Keys(spec_object["config_vars"]) \cup Keys(spec_object["protocols"])
  /\ \A protocol \in ToSet(spec_object["protocols"]) : \A function \in ToSet(protocol.def) :
       function.def.mentions \subseteq Known

(* The documents of a fork have what its builders count on: the functions  *)
(* that are cached, and what pieces need besides pieces of their builder.  *)
BuildersServed ==
  /\ CachedFunctions \subseteq Keys(Functions(spec_object, spec_fork))
  /\ \A i \in DOMAIN builders(spec_fork) :
       LET builder_ == builders(spec_fork)[i]
           pieces == builder_.sundry_functions \o builder_.execution_engine_cls
       IN \A k \in DOMAIN pieces :
            pieces[k].needs \ Keys(pieces) \subseteq Known \cup Keys(spec_object["protocols"])
  /\ Keys(spec_object["config_vars"]) \cap ConfigRecords # {} => "frozendict" \in Library
  /\ spec_object["protocols"] # <<>> => "Protocol" \in Library
  /\ "CURDLEPROOFS_CRS" \in Keys(spec_object["constant_vars"]) => {"curdleproofs", "json"} \subseteq Library
  /\ \A n \in Keys(hardcoded_ssz_dep_constants(spec_fork)) \ deprecate_constants(spec_fork) :
       Get(spec_object["ssz_dep_constants"], n).text = Get(hardcoded_ssz_dep_constants(spec_fork), n).text
  /\ \A n \in Keys(hardcoded_func_dep_presets(spec_fork)) \ deprecate_presets(spec_fork) :
       Get(spec_object["func_dep_presets"], n).text = Yaml[n]

Conventional == RowsInOrder /\ NamesApart /\ ClassesInOrder /\ MentionsKnown /\ BuildersServed

(* For documents that keep to the conventions, the module can be imported: *)
(* whatever is redefined, by whichever fork, and however classes refer to  *)
(* each other, sections and orders keep every name before its uses.        *)
WrittenModuleRuns == (phase = "written" /\ Conventional) => Runs
===============================================================================
