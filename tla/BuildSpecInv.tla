---------------------------- MODULE BuildSpecInv ----------------------------
(***************************************************************************)
(* The invariants of a build, and the notions they and their proofs are    *)
(* stated in: what an outcome of a handler is, what the dictionaries hold  *)
(* while a document is read and after it, what a combination of several    *)
(* specs holds and in which order, and when a list of pieces is a module   *)
(* that can be loaded.  CompilerInv and Passed are inductive.              *)
(***************************************************************************)
EXTENDS BuildSpec

-----------------------------------------------------------------------------
(* Dictionaries and lists. *)

(* A dictionary has each of its names once.                                *)
Dict(d) ==
  /\ IsList(d)
  /\ NamedOnce(d)

(* a stands before b.                                                      *)
Ahead(d, a, b) == \E i, j \in DOMAIN d : i < j /\ d[i].name = a /\ d[j].name = b

(* Whatever d has is said by one of E.                                     *)
From(d, E) == \A n \in Keys(d) : \E e \in E : e.name = n /\ Get(d, n).text = e.text

-----------------------------------------------------------------------------
(* What the handlers of elements do with the dictionaries. *)

CodeSections == {"functions", "dataclasses", "ssz_objects"}

(* An outcome of a handler.                                                *)
Result(r) ==
  /\ r = Outcome(r.spec, r.types, r.ok)
  /\ r.spec = [s \in Sections |-> r.spec[s]]
  /\ \A s \in Sections : Dict(r.spec[s])
  /\ Dict(r.types)
  /\ r.ok \in BOOLEAN

(* t is an outcome with the same entries in a section as r.                *)
Same(r, t, section) == t.spec[section] = r.spec[section]

(* A definition in a code block goes to the section of its kind.           *)
DefinitionRead(r, t, def, heading) ==
  /\ Result(t) /\ t.types = r.types
  /\ \A s \in Sections \ (CodeSections \cup {"protocols"}) : Same(r, t, s)
  /\ r.ok /\ t.ok =>
       /\ \A s \in CodeSections \ {SectionOf(def)} : Same(r, t, s)
       /\ SectionOf(def) \in CodeSections =>
            t.spec[SectionOf(def)] =
              Put(r.spec[SectionOf(def)], def.name, Definition(def.text, def.mentions))
       /\ SectionOf(def) \in CodeSections \cup {"protocols"}
       /\ SectionOf(def) = "ssz_objects" => heading = def.name
  /\ ~ r.ok => ~ t.ok

(* A row of a table that declares something goes to the types or to one of *)
(* the two sections of constants: to the one that depends on presets if it *)
(* mentions what is there already.                                         *)
Filed(r, t, row) ==
  LET def == Definition(row.text, row.mentions)
  IN \/ /\ ~ Declares(row)
        /\ t.types = r.types
        /\ Same(r, t, "constant_vars") /\ Same(r, t, "preset_dep_constant_vars")
     \/ /\ Declares(row)
        /\ t.types = Put(r.types, row.name, def)
        /\ Same(r, t, "constant_vars") /\ Same(r, t, "preset_dep_constant_vars")
     \/ /\ Declares(row) /\ ~ DependsOnPreset(row.mentions, r.spec)
        /\ t.types = r.types
        /\ t.spec["constant_vars"] = Put(r.spec["constant_vars"], row.name, def)
        /\ Same(r, t, "preset_dep_constant_vars")
     \/ /\ Declares(row)
        /\ t.types = r.types
        /\ t.spec["preset_dep_constant_vars"] = Put(r.spec["preset_dep_constant_vars"], row.name, def)
        /\ Same(r, t, "constant_vars")

RowRead(r, t, row) ==
  /\ Result(t)
  /\ \A s \in CodeSections \cup {"protocols"} : Same(r, t, s)
  /\ r.ok /\ t.ok => Filed(r, t, row)
  /\ ~ r.ok => ~ t.ok

TableSections == {"preset_vars", "config_vars", "ssz_dep_constants", "func_dep_presets"}

(* t differs from r in sections that are neither of code nor of constants. *)
Aside(r, t) ==
  /\ Result(t) /\ t.types = r.types /\ t.ok = r.ok
  /\ \A s \in CodeSections \cup {"protocols", "constant_vars", "preset_dep_constant_vars"} : Same(r, t, s)

-----------------------------------------------------------------------------
(* How far a document has been read. *)

Comments == {"skip", "list-of-records"}

(* The places up to the nth of the ith element.                            *)
Upto(places, i, n) == {p \in places : p[1] < i \/ (p[1] = i /\ p[2] <= n)}

(* Pairs of numbers, the second of them positive.                          *)
Places(places) == \A p \in places : p = <<p[1], p[2]>> /\ p[1] \in Nat /\ p[2] \in Nat /\ p[2] > 0

(* Of the definitions of a section at a set of places.                     *)
In(doc, P, section) == {p \in P : SectionOf(DefinitionAt(doc, p)) = section}

(* d has exactly the names, and the last definition of each.               *)
CodeRead(doc, P, d, section) ==
  /\ Keys(d) = {DefinitionAt(doc, p).name : p \in In(doc, P, section)}
  /\ \A p \in In(doc, P, section) :
       LET def == DefinitionAt(doc, p)
       IN \/ Get(d, def.name).text = def.text
          \/ \E q \in In(doc, P, section) : Before(p, q) /\ DefinitionAt(doc, q).name = def.name
  /\ From(d, {DefinitionAt(doc, p) : p \in In(doc, P, section)})

(* The last live heading before a place is the name of its class.          *)
UnderHeading(doc, p) ==
  \E h \in Live(doc, "heading") :
    /\ h < p[1] /\ doc[h].name = DefinitionAt(doc, p).name
    /\ \A g \in Live(doc, "heading") : g <= h \/ p[1] < g

Progress(doc, P, s) ==
  /\ \A section \in CodeSections : CodeRead(doc, P, s[section], section)
  /\ \A p \in P : SectionOf(DefinitionAt(doc, p)) \in CodeSections \cup {"protocols"}
  /\ \A p \in In(doc, P, "ssz_objects") : UnderHeading(doc, p)

(* The heading that is in force at an element.                             *)
HeadingIs(doc, i, heading) ==
  \/ heading = NoName
  \/ \E h \in Live(doc, "heading") :
       /\ h < i /\ doc[h].name = heading
       /\ \A g \in Live(doc, "heading") : g <= h \/ i <= g

(* No row mentions a name that a row at the same place or later declares.  *)
InOrder(doc) ==
  \A p, q \in RowPlaces(doc) : RowAt(doc, q).name \in RowAt(doc, p).mentions => Before(q, p)

(* What the rows declare is in one of three dictionaries, and these have   *)
(* nothing else.                                                           *)
Entries(doc, P) == {RowAt(doc, p) : p \in {q \in P : Declares(RowAt(doc, q))}}

RowsKept(E, s, types) ==
  /\ From(s["constant_vars"], E) /\ From(s["preset_dep_constant_vars"], E) /\ From(types, E)
  /\ \A e \in E : e.name \in Keys(s["constant_vars"]) \cup Keys(s["preset_dep_constant_vars"])
                              \cup Keys(types)

(* The constants so far: those that need presets come from rows; the plain *)
(* ones too, and mention no preset and none of the others.                 *)
RowsRead(doc, P, s, types) ==
  LET plain == s["constant_vars"]  dependent == s["preset_dep_constant_vars"]
  IN /\ \A n \in Keys(dependent) : \E p \in P : RowAt(doc, p).name = n
     /\ \A n \in Keys(plain) : \E p \in P : Get(plain, n).mentions = RowAt(doc, p).mentions
     /\ \A n \in Keys(plain) : Get(plain, n).mentions \cap Preset = {}
     /\ InOrder(doc) => \A n \in Keys(plain) : Get(plain, n).mentions \cap Keys(dependent) = {}
     /\ RowsKept(Entries(doc, P), s, types)

(* The sections a list of records leaves alone.                            *)
PassedSections ==
  CodeSections \cup {"protocols", "constant_vars", "preset_vars", "preset_dep_constant_vars"}

(* The dictionaries of a SpecObject.                                       *)
Dictionaries(s) ==
  /\ s = [section \in Sections |-> s[section]]
  /\ \A section \in Sections : Dict(s[section])

(* t has all but the constants and the types of s.                         *)
Finishes(s, t) ==
  /\ Dictionaries(t)
  /\ \A section \in CodeSections \cup {"protocols", "preset_vars"} : t[section] = s[section]

(* The names of what is loaded from a trusted setup.                       *)
LoadedNames == KzgSetup \cup {"CURDLEPROOFS_CRS"}

(* The two dictionaries say the same of all other names, in the same order. *)
SameTexts(d, e) ==
  /\ Keys(e) = Keys(d)
  /\ \A a, b : Ahead(d, a, b) => Ahead(e, a, b)
  /\ \A n \in Keys(d) \ LoadedNames : Get(e, n).text = Get(d, n).text

(* t has the same constants as s, those of the setup with other texts.     *)
SameConstants(s, t) ==
  /\ SameTexts(s["constant_vars"], t["constant_vars"])
  /\ SameTexts(s["preset_dep_constant_vars"], t["preset_dep_constant_vars"])
  /\ Keys(t["preset_dep_constant_vars"]) = Keys(s["preset_dep_constant_vars"])
  /\ Keys(t["constant_vars"]) = Keys(s["constant_vars"])
  /\ \A n \in Keys(s["constant_vars"]) :
       \/ Get(t["constant_vars"], n).mentions = Get(s["constant_vars"], n).mentions
       \/ n = "CURDLEPROOFS_CRS" /\ Get(t["constant_vars"], n).mentions = {"curdleproofs", "json"}
  /\ \A n \in Keys(s["preset_dep_constant_vars"]) :
       Get(t["preset_dep_constant_vars"], n).mentions = Get(s["preset_dep_constant_vars"], n).mentions

(* Types that stay in the order of all the types.                          *)
TypesInOrder(types, d) == \A n, m \in Keys(d) : Ahead(types, n, m) => Ahead(d, n, m)

(* The sections that are written as they are.                              *)
WrittenSections ==
  CodeSections \cup {"constant_vars", "preset_dep_constant_vars", "custom_types", "preset_dep_custom_types"}

(* The dictionaries hold what a document declares and nothing else, but    *)
(* for what is loaded from a trusted setup.                                *)
SectionSays(doc, d) ==
  \A n \in Keys(d) \ LoadedNames : \E e \in Declarations(doc) : e.name = n /\ Get(d, n).text = e.text

Says(doc, s) ==
  /\ \A section \in WrittenSections : SectionSays(doc, s[section])
  /\ \A e \in Declarations(doc) : \E section \in WrittenSections : e.name \in Keys(s[section])

(* The types are in two sections, in the order they had.                   *)
TypesSplit(types, t) ==
  /\ Keys(types) = Keys(t["custom_types"]) \cup Keys(t["preset_dep_custom_types"])
  /\ \A u \in {"custom_types", "preset_dep_custom_types"} :
       TypesInOrder(types, t[u]) /\ \A n \in Keys(t[u]) : Get(t[u], n) = Get(types, n)

(* The rows that are kept, among some places of a document.                *)
KeptIn(doc, P) == {p \in P : Kept(RowAt(doc, p))}

(* A row of a comes before all the rows of b.                              *)
ReadFirst(doc, P, a, b) ==
  \E p \in KeptIn(doc, P) :
    /\ RowAt(doc, p).name = a
    /\ \A q \in KeptIn(doc, P) : RowAt(doc, q).name = b => Before(p, q)

(* n is in one of the dictionaries.                                        *)
Sole(D, t, n) == n \in Keys(D[t]) /\ \A u \in DOMAIN D \ {t} : n \notin Keys(D[u])

(* What an entry needs is what its row needs, unless it is loaded.         *)
Comes(D, t, n, row) ==
  \/ Get(D[t], n).mentions = Needs(row)
  \/ /\ t = "constant_vars" /\ n = "CURDLEPROOFS_CRS"
     /\ Get(D[t], n).mentions = {"curdleproofs", "json"}

(* The dictionaries hold the rows of these places, in their order.         *)
Placed(doc, P, D) ==
  /\ \A t \in DOMAIN D : \A n \in Keys(D[t]) :
       \E p \in KeptIn(doc, P) : RowAt(doc, p).name = n /\ Comes(D, t, n, RowAt(doc, p))
  /\ \A p \in KeptIn(doc, P) : \E t \in DOMAIN D : RowAt(doc, p).name \in Keys(D[t])
  /\ \A t \in DOMAIN D : \A a, b :
       Sole(D, t, a) /\ Sole(D, t, b) /\ ReadFirst(doc, P, a, b) => Ahead(D[t], a, b)
  /\ \A n \in Keys(D["preset_vars"]) : Get(D["preset_vars"], n).text = Yaml[n]

(* The dictionaries that rows are stored in while a document is read.      *)
RowStores == {"constant_vars", "preset_vars", "preset_dep_constant_vars", "types"}

Stores(s, types) == [u \in RowStores |-> IF u = "types" THEN types ELSE s[u]]

PutIn(D, u, n, def) == [D EXCEPT ![u] = Put(@, n, def)]

(* A row that is kept is stored in one of the dictionaries.                *)
Stored(row, D, E) ==
  \/ ~ Kept(row) /\ E = D
  \/ /\ Kept(row)
     /\ \E u \in DOMAIN D : \E def :
          /\ def.mentions = Needs(row)
          /\ u = "preset_vars" => def.text = Yaml[row.name]
          /\ E = PutIn(D, u, row.name, def)

(* The five dictionaries of constants and types of a SpecObject.           *)
Ranked(s) == [u \in DOMAIN Rank |-> s[u]]

(* The rows are in their order, and no protocol is called None.            *)
Arranged(doc, P, s, types) ==
  NoName \notin Keys(s["protocols"]) /\ Placed(doc, P, Stores(s, types))

(* While the document is read, and the next element is i ...               *)
Parsing(doc, i, heading, s, types) ==
  /\ i \in DOMAIN doc => i \notin TakenAway(doc)
  /\ HeadingIs(doc, i, heading)
  /\ Progress(doc, Upto(DefinitionPlaces(doc), i, 0), s)
  /\ RowsRead(doc, Upto(RowPlaces(doc), i, 0), s, types)
  /\ Arranged(doc, Upto(RowPlaces(doc), i, 0), s, types)

(* ... and when it is finished.                                            *)
Done(doc, s) ==
  /\ Progress(doc, DefinitionPlaces(doc), s)
  /\ Says(doc, s)
  /\ InOrder(doc) =>
       \A section \in {"constant_vars", "custom_types"} : \A i \in DOMAIN s[section] :
         s[section][i].def.mentions \cap (Preset \cup Keys(s["preset_dep_constant_vars"])) = {}
  /\ NoName \notin Keys(s["protocols"])
  /\ Placed(doc, RowPlaces(doc), Ranked(s))

ReadSoFar(doc, i, heading, s, types, st) ==
  /\ doc \in Documents
  /\ i \in 1..(Len(doc) + 2)
  /\ st \in {"parsing", "done", "error"}
  /\ Dictionaries(s) /\ Dict(types)
  /\ st = "parsing" => Parsing(doc, i, heading, s, types)
  /\ st = "done" => Done(doc, s)

Inv == ReadSoFar(document, at, current_heading_name, spec, all_custom_types, status)

-----------------------------------------------------------------------------
(* Lists after each other, and specs of several forks combined. *)

(* r is q after p.                                                         *)
Joined(p, q, r) ==
  /\ IsList(r) /\ Len(r) = Len(p) + Len(q) /\ DOMAIN r = 1..Len(r)
  /\ \A i \in DOMAIN p : i \in DOMAIN r /\ r[i] = p[i]
  /\ \A i \in DOMAIN q : Len(p) + i \in DOMAIN r /\ r[Len(p) + i] = q[i]
  /\ \A i \in DOMAIN r : i \in DOMAIN p \/ (i - Len(p) \in DOMAIN q /\ i = Len(p) + (i - Len(p)))

(* Lists of a list after each other: each element comes from one of them,  *)
(* of two elements the later one from the same or a later one.             *)
Flattened(flat, seqs, n) ==
  /\ IsList(flat)
  /\ \E home : /\ \A i \in DOMAIN flat : /\ home[i] \in 1..n
                                         /\ \E k \in DOMAIN seqs[home[i]] : flat[i] = seqs[home[i]][k]
               /\ \A i, j \in DOMAIN flat : i <= j => home[i] <= home[j]

(* c has what b has, and of a what b does not have.                        *)
Combination(a, b, c) ==
  /\ Dict(c)
  /\ Keys(c) = Keys(a) \cup Keys(b)
  /\ \A n \in Keys(b) : Get(c, n) = Get(b, n)
  /\ \A n \in Keys(a) \ Keys(b) : Get(c, n) = Get(a, n)
  /\ \A x, y : Ahead(a, x, y) => Ahead(c, x, y)
  /\ \A x \in Keys(a) : \A y \in Keys(b) \ Keys(a) : Ahead(c, x, y)
  /\ \A x, y : Ahead(b, x, y) /\ x \notin Keys(a) /\ y \notin Keys(a) => Ahead(c, x, y)

(* The order of e, a with the first n of b.                                *)
CombinedOrder(a, b, n, e) ==
  /\ \A x, y : Ahead(a, x, y) => Ahead(e, x, y)
  /\ \A x \in Keys(a) : \A j \in 1..n : b[j].name \notin Keys(a) => Ahead(e, x, b[j].name)
  /\ \A i, j \in 1..n : i < j /\ b[i].name \notin Keys(a) /\ b[j].name \notin Keys(a)
                          => Ahead(e, b[i].name, b[j].name)

(* The first spec whose section t has name k is spec i.                    *)
FirstIn(specs, t, i, k) ==
  /\ i \in 1..i /\ k \in Keys(specs[i][t])
  /\ \A j \in 1..(i - 1) : k \notin Keys(specs[j][t])

(* The combination of the first n of the specs: a name has what the last   *)
(* of them with that name says, and stands where the first of them put it. *)
CombinedSection(d, specs, t, n) ==
  /\ \A i \in 1..n : Keys(specs[i][t]) \subseteq Keys(d)
  /\ \A k \in Keys(d) :
       \E i \in 1..n : /\ k \in Keys(specs[i][t]) /\ Get(d, k) = Get(specs[i][t], k)
                       /\ \A j \in 1..n : k \in Keys(specs[j][t]) => j <= i
  /\ \A k \in Keys(d) : \E i \in 1..n : FirstIn(specs, t, i, k)
  /\ \A i, j \in 1..n : \A a, b :
       /\ FirstIn(specs, t, i, a) /\ FirstIn(specs, t, j, b)
       /\ i < j \/ (i = j /\ Ahead(specs[i][t], a, b))
       => Ahead(d, a, b)

Combined(s, specs, n) ==
  /\ Dictionaries(s)
  /\ \A t \in Sections \ {"protocols"} : CombinedSection(s[t], specs, t, n)
  /\ \A k \in Keys(s["protocols"]) : \E i \in 1..n : k \in Keys(specs[i]["protocols"])

-----------------------------------------------------------------------------
(* The order of the classes. *)

(* e has the entries of d, in some order.                                  *)
Reordered(d, e) ==
  /\ Dict(e)
  /\ Keys(e) = Keys(d)
  /\ \A n \in Keys(d) : Get(e, n) = Get(d, n)

(* A class of every set of them depends on none of the others of the set.  *)
Unentangled(d, custom_types) ==
  \A S \in SUBSET DOMAIN d :
    S # {} => \E i \in S : \A j \in S : d[j].name \in dependencies(d[i], custom_types) => j = i

-----------------------------------------------------------------------------
(* What a module binds to a name. *)

(* The last binding of n has text x.                                       *)
Tells(p, n, x) ==
  /\ IsList(p)
  /\ \E i \in DOMAIN p : /\ p[i].name = n /\ p[i].text = x
                         /\ \A j \in DOMAIN p : p[j].name = n => j <= i

(* n is not bound.                                                         *)
Silent(p, n) == IsList(p) /\ \A i \in DOMAIN p : p[i].name # n

(* A part of the module that says nothing else of n.                       *)
Part(p, n, x) == Silent(p, n) \/ Tells(p, n, x)

-----------------------------------------------------------------------------
(* The forks and what they build on. *)

ForkNames ==
  {"phase0", "altair", "bellatrix", "capella", "deneb", "electra", "fulu",
   "eip6800", "eip7441", "eip7732", "eip7805"}

(* How many forks a fork builds on, itself included.                       *)
Age ==
  [phase0 |-> 1, altair |-> 2, bellatrix |-> 3, capella |-> 4, deneb |-> 5, electra |-> 6,
   fulu |-> 7, eip6800 |-> 6, eip7441 |-> 5, eip7732 |-> 7, eip7805 |-> 7]

(* Of a fork with the list p of the forks it builds on.                    *)
ForkList(p, n) == IsList(p) /\ Len(p) = n /\ \A i \in DOMAIN p : p[i] \in Forks

(* The places in ALL_FORKS of the forks that a fork builds on.             *)
Chain ==
  [phase0 |-> {1}, altair |-> {1, 2}, bellatrix |-> {1, 2, 3}, capella |-> {1, 2, 3, 4},
   deneb |-> {1, 2, 3, 4, 5}, electra |-> {1, 2, 3, 4, 5, 6}, fulu |-> {1, 2, 3, 4, 5, 6, 7},
   eip6800 |-> {1, 2, 3, 4, 5, 8}, eip7441 |-> {1, 2, 3, 4, 9}, eip7732 |-> {1, 2, 3, 4, 5, 6, 10},
   eip7805 |-> {1, 2, 3, 4, 5, 6, 11}]

-----------------------------------------------------------------------------
(* A module is loaded. *)

(* With the names that are known before, every name is there when it is    *)
(* looked up.                                                              *)
Loads(p, known) ==
  /\ IsList(p)
  /\ \A i \in DOMAIN p : \A n \in p[i].needs : n \in known \/ \E j \in DOMAIN p : j < i /\ p[j].name = n

Wants(p) == UNION {p[i].needs : i \in DOMAIN p}

(* Every piece comes behind those it needs, but for what is cached: that   *)
(* is there before all pieces.                                             *)
Sorted(p) ==
  \A i, j \in DOMAIN p : p[j].name \in p[i].needs => j < i \/ p[j].name \in CachedFunctions

(* What a builder hands over are lists and dictionaries.                   *)
Builder(b) ==
  /\ IsList(b.imports) /\ IsList(b.preparations) /\ IsList(b.classes)
  /\ IsList(b.sundry_functions) /\ IsList(b.execution_engine_cls)
  /\ Dict(b.hardcoded_ssz_dep_constants) /\ Dict(b.hardcoded_func_dep_presets)

(* The functions behind the cached ones.                                   *)
UncachedFunctions ==
  {"_compute_shuffled_index", "_get_total_active_balance", "_get_base_reward", "_get_committee_count_per_slot",
   "_get_active_validator_indices", "_get_beacon_committee", "_get_matching_target_attestations",
   "_get_matching_head_attestations", "_get_attesting_indices"}

-----------------------------------------------------------------------------
(* A build. *)

(* The classes are those of the two dictionaries.                          *)
ClassesOf(s, classes) ==
  Reordered(combine_dicts(s["ssz_objects"], s["dataclasses"]), classes)

(* The files are a list of documents, and so are the results so far.       *)
BuildInv ==
  /\ Inv
  /\ IsList(source_files) /\ IsList(all_specs)
  /\ \A i \in DOMAIN source_files : source_files[i].elements \in Documents

(* What a build is made from.                                              *)
Sources ==
  /\ spec_fork \in Targets
  /\ \E tree \in Trees[spec_fork] : source_files = get_md_doc_paths(tree, spec_fork)

(* A document that was read has a SpecObject that says what it says.       *)
SpecRead(doc, s) ==
  /\ Dictionaries(s) /\ Says(doc, s)
  /\ NoName \notin Keys(s["protocols"])
  /\ Placed(doc, RowPlaces(doc), Ranked(s))

ReadFiles ==
  /\ \A i \in 1..Len(all_specs) : SpecRead(source_files[i].elements, all_specs[i])
  /\ phase \in {"loading", "parsing"} =>
       Len(all_specs) < Len(source_files) /\ document = source_files[Len(all_specs) + 1].elements
  /\ phase \in {"combining", "ordering", "written"} => Len(all_specs) = Len(source_files)

(* The first SpecObjects are combined, then all of them; ordering keeps    *)
(* the classes; and the module is written from the two.                    *)
Compiled ==
  /\ phase \in {"loading", "parsing"} => combined = 0
  /\ phase = "combining" =>
       combined \in 0..Len(all_specs) /\ (combined > 0 => Combined(spec_object, all_specs, combined))
  /\ phase \in {"ordering", "written"} =>
       Combined(spec_object, all_specs, Len(all_specs)) /\ ClassesOf(spec_object, class_objects)
  /\ phase = "written" =>
       /\ pyspec = objects_to_spec(spec_object, spec_fork, class_objects)
       /\ Writable(spec_object, spec_fork)

Phases == {"loading", "parsing", "combining", "ordering", "written", "failed"}

CompilerInv ==
  BuildInv /\ phase \in Phases /\ Sources /\ ReadFiles /\ Compiled

(* The classes are what the last pass made of its copy of them; the module *)
(* is written after a pass that changed nothing.                           *)
Passed ==
  /\ phase \in {"loading", "parsing", "combining"} => new_objects = <<>>
  /\ phase \in {"ordering", "written"} /\ new_objects # <<>> =>
       /\ Dict(new_objects)
       /\ \A i \in DOMAIN new_objects : dependencies(new_objects[i], CustomTypes) \subseteq Keys(new_objects)
       /\ class_objects = dependency_order_class_objects(new_objects, CustomTypes)
  /\ phase = "written" => new_objects = class_objects

(* In a written module, unless classes depend on each other in a circle,   *)
(* every class stands behind all the classes it depends on.                *)
ClassesFollow ==
  (phase = "written" /\ Unentangled(class_objects, CustomTypes)) =>
    \A item \in ToSet(class_objects) : \A dep \in dependencies(item, CustomTypes) :
      dep # item.name => Ahead(class_objects, dep, item.name)

-----------------------------------------------------------------------------
(* What the builders write. *)

(* The constants that builders write and assert, and the presets that they *)
(* assert.                                                                 *)
Gindices ==
  {"FINALIZED_ROOT_GINDEX", "CURRENT_SYNC_COMMITTEE_GINDEX", "NEXT_SYNC_COMMITTEE_GINDEX",
   "EXECUTION_PAYLOAD_GINDEX", "FINALIZED_ROOT_GINDEX_ELECTRA", "CURRENT_SYNC_COMMITTEE_GINDEX_ELECTRA",
   "NEXT_SYNC_COMMITTEE_GINDEX_ELECTRA"}

ProofDepths == {"KZG_COMMITMENT_INCLUSION_PROOF_DEPTH", "KZG_COMMITMENTS_INCLUSION_PROOF_DEPTH"}

Reserved == Gindices \cup ProofDepths \cup {"Configuration", "config"}

(* The pieces of a builder are sorted and bind none of these names.        *)
Pieced(b) ==
  /\ Sorted(b.sundry_functions) /\ Sorted(b.execution_engine_cls)
  /\ Wants(b.sundry_functions) \cap Keys(b.execution_engine_cls) = {}
  /\ \A p \in {b.classes, b.sundry_functions, b.execution_engine_cls} :
       Keys(p) \cap Reserved = {}
  /\ \A i \in DOMAIN b.hardcoded_ssz_dep_constants :
       /\ b.hardcoded_ssz_dep_constants[i].name \in Gindices
       /\ b.hardcoded_ssz_dep_constants[i].def.mentions = {"GeneralizedIndex"}
  /\ Keys(b.hardcoded_func_dep_presets) \subseteq ProofDepths

BlobForks == {"deneb", "electra", "fulu", "eip6800", "eip7732", "eip7805"}

(* The forks p that a fork builds on, the newest first.                    *)
Lineage(fork, p) ==
  /\ \E i \in DOMAIN p : p[i] = "phase0"
  /\ fork = "phase0" => \A i \in DOMAIN p : p[i] = "phase0"
  /\ fork # "phase0" => \E i \in DOMAIN p : p[i] = "altair"
  /\ fork \in BlobForks => \E i \in DOMAIN p : p[i] = "deneb"
  /\ \A i \in DOMAIN p : p[i] = "fulu" => i = 1 /\ fork = "fulu"

(* The builders from phase0's on: a fork after it has altair's, and where  *)
(* fulu's is, deneb's stands before it.                                    *)
BuiltFrom(bs, from) ==
  /\ IsList(bs)
  /\ \A i \in DOMAIN bs : from[i] \in Forks /\ bs[i] = spec_builders[from[i]]
  /\ \E i \in DOMAIN bs : from[i] = "phase0"
  /\ \A i \in DOMAIN bs : from[i] # "phase0" => \E j \in DOMAIN bs : from[j] = "altair"
  /\ \A i \in DOMAIN bs : from[i] = "fulu" => \E j \in DOMAIN bs : j < i /\ from[j] = "deneb"

Importable == CompilerInv /\ Passed /\ phase = "written" /\ Conventional

(* The assertions of the module.                                           *)
Asserted ==
  ToSet(ssz_dep_constants_verification(spec_object, spec_fork))
  \cup ToSet(func_dep_presets_verification(spec_object, spec_fork))
=============================================================================
