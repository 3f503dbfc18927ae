---------------------------- MODULE MarkdownToSpec ----------------------------
(***************************************************************************)
(* The class MarkdownToSpec: one document is read element by element into  *)
(* the dictionaries of a SpecObject.                                       *)
(*                                                                         *)
(* An element is a heading, a code block, a table, one of the two comments *)
(* that steer the compiler, or anything else.  Source text is an opaque    *)
(* value; of what it says only the names it mentions are kept.             *)
(***************************************************************************)
EXTENDS OrderedDict, FiniteSets

CONSTANTS
  Documents,      \* the documents that may be read
  Preset,         \* the names in the preset files, of all forks
  Config,         \* the names in the config file with a single value
  ConfigRecords,  \* the names in the config file with a list of records
  Yaml,           \* [Preset \cup Config -> value in the file]
  preset_name,    \* "mainnet" or "minimal"
  NoName          \* no heading name, no self type, no parent class

ASSUME ConfigNamesDiffer == Config \cap ConfigRecords = {}

(* Documents, code blocks and tables are lists.  Whatever is defined has a *)
(* name, and no constant is called like the modules of the trusted setup.  *)
ASSUME DocumentsAssumption ==
  /\ Preset \cap {"curdleproofs", "json"} = {}
  /\ \A doc \in Documents :
       /\ IsList(doc)
       /\ \A i \in DOMAIN doc :
            /\ doc[i].kind = "code" =>
                 /\ IsList(doc[i].defs)
                 /\ \A k \in DOMAIN doc[i].defs : doc[i].defs[k].name # NoName
            /\ doc[i].kind = "table" =>
                 /\ IsList(doc[i].rows)
                 /\ \A k \in DOMAIN doc[i].rows : doc[i].rows[k].name \notin {NoName, "curdleproofs", "json"}

VARIABLES
  document,              \* document_iterator: the elements and ...
  at,                    \* ... the next of them
  current_heading_name,
  spec,                  \* the dictionaries collected so far
  all_custom_types,
  status

vars == <<document, at, current_heading_name, spec, all_custom_types, status>>

Sections ==
  {"config_vars", "constant_vars", "custom_types", "dataclasses", "func_dep_presets",
   "functions", "preset_dep_constant_vars", "preset_dep_custom_types", "preset_vars",
   "protocols", "ssz_dep_constants", "ssz_objects"}

EmptySpec == [s \in Sections |-> <<>>]

Definition(text, mentions) == [text |-> text, mentions |-> mentions]

(* What a handler leaves behind: the dictionaries, or a raised exception. *)
Outcome(s, types, ok) == [spec |-> s, types |-> types, ok |-> ok]

\* Mutant: a name that is defined again is added again.
Store_Appends(result, section, name, def) ==
  [result EXCEPT !.spec[section] = Append(@, [name |-> name, def |-> def])]

Store(result, section, name, def) ==
  [result EXCEPT !.spec[section] = Put(@, name, def)]

Raise(result) == [result EXCEPT !.ok = FALSE]

-----------------------------------------------------------------------------
(* Code blocks.  A definition has a kind, a name and a text; a function    *)
(* may have an annotated self, a class a parent.                           *)

_process_code_def(result, fn) ==
  LET def == Definition(fn.text, fn.mentions)
      protocols == result.spec["protocols"]
      functions == IF fn.self \in Keys(protocols) THEN Get(protocols, fn.self) ELSE <<>>
  IN IF fn.self = NoName
     THEN Store(result, "functions", fn.name, def)
     ELSE Store(result, "protocols", fn.self, Put(functions, fn.name, def))

\* Mutant: the heading is not looked at.
_process_code_class_AnyHeading(result, cls, heading) ==
  Store(result, "ssz_objects", cls.name, Definition(cls.text, cls.mentions))

_process_code_class(result, cls, heading) ==
  IF cls.name # heading \/ cls.parent \notin {"Container", NoName}
  THEN Raise(result)
  ELSE Store(result, "ssz_objects", cls.name, Definition(cls.text, cls.mentions))

ProcessDefinition(result, def, heading) ==
  CASE ~ result.ok -> result
    [] result.ok /\ def.kind = "function" -> _process_code_def(result, def)
    [] result.ok /\ def.kind = "dataclass" ->
         Store(result, "dataclasses", def.name, Definition(def.text, def.mentions))
    [] result.ok /\ def.kind = "class" -> _process_code_class(result, def, heading)
    [] OTHER -> Raise(result)

_process_code_block(result, block, heading) ==
  IF block.lang # "python" THEN result
  ELSE FoldLeft(LAMBDA r, def : ProcessDefinition(r, def, heading), result, block.defs)

-----------------------------------------------------------------------------
(* Tables.  A row has a number of cells, a name, a value and a remark.  Of *)
(* the value the kind of text matters, the names that occur in it, and     *)
(* what it evaluates to (NoName if it does not).                           *)

(* Sanity check of mainnet: the documents repeat what the files say. *)
check_yaml_matches_spec(row) ==
  \/ preset_name # "mainnet"
  \/ row.name = "TERMINAL_BLOCK_HASH"
  \/ /\ row.name \notin Preset => row.mentions \cap ConfigRecords = {}
     /\ row.evaluated \in {NoName, Yaml[row.name]}

\* Mutant: constants that depend on presets through others are not seen.
DependsOnPreset_Directly(mentions, s) == mentions \cap Preset # {}

(* any(k in value for k in preset) or any(k in value for k in dependants)  *)
DependsOnPreset(mentions, s) ==
  mentions \cap (Preset \cup Keys(s["preset_dep_constant_vars"])) # {}

ProcessVariable(result, row) ==
  LET def == Definition(row.text, row.mentions)
      from_file == Definition(Yaml[row.name], {row.type} \ {NoName})
  IN CASE row.name \in Preset ->
            IF check_yaml_matches_spec(row)
            THEN Store(result, "preset_vars", row.name, from_file) ELSE Raise(result)
       [] row.name \in Config \ Preset ->
            IF check_yaml_matches_spec(row)
            THEN Store(result, "config_vars", row.name, from_file) ELSE Raise(result)
       [] row.name \in ConfigRecords \ Preset -> Raise(result)
       [] OTHER ->
            IF DependsOnPreset(row.mentions, result.spec)
            THEN Store(result, "preset_dep_constant_vars", row.name, def)
            ELSE Store(result, "constant_vars", row.name, def)

ProcessRow(result, row) ==
  LET def == Definition(row.text, row.mentions)
  IN CASE ~ result.ok \/ row.cells < 2 \/ row.remark = "predefined-type" -> result
       [] OTHER ->
            IF ~ row.constant
            THEN IF row.shape = "ssz" THEN [result EXCEPT !.types = Put(@, row.name, def)] ELSE result
            ELSE IF row.shape = "gindex" THEN Store(result, "ssz_dep_constants", row.name, def)
            ELSE ProcessVariable(
                   IF row.remark = "predefined"
                   THEN Store(result, "func_dep_presets", row.name, def) ELSE result,
                   row)

_process_table(result, table) == FoldLeft(ProcessRow, result, table.rows)

(* The file's list is used; on mainnet the document must show the same. *)
_process_list_of_records_table(result, table, name) ==
  IF name \notin ConfigRecords \/ (preset_name = "mainnet" /\ table.records # Yaml[name])
  THEN Raise(result)
  ELSE Store(result, "config_vars", name, Definition(Yaml[name], table.types))

-----------------------------------------------------------------------------
(* At the end the trusted setup replaces what the document says of it. *)
KzgSetup == {"KZG_SETUP_G1_MONOMIAL", "KZG_SETUP_G1_LAGRANGE", "KZG_SETUP_G2_MONOMIAL"}
KzgOfPreset == {"KZG_SETUP_G1_MONOMIAL", "KZG_SETUP_G1_LAGRANGE"}
TrustedSetup(type) == Definition("trusted_setup", type)

UsesKzgSetup(s) == Keys(s["constant_vars"]) \cap KzgSetup # {}

_update_constant_vars_with_kzg_setups(s) ==
  LET Loaded(d, name) == Put(d, name, TrustedSetup(Get(d, name).mentions))
  IN [s EXCEPT !["preset_dep_constant_vars"] =
                  Loaded(Loaded(@, "KZG_SETUP_G1_MONOMIAL"), "KZG_SETUP_G1_LAGRANGE"),
               !["constant_vars"] = Loaded(@, "KZG_SETUP_G2_MONOMIAL")]

(* The old definitions are read first: KeyError if one is not there. *)
KzgSetupComplete(s) ==
  /\ KzgOfPreset \subseteq Keys(s["preset_dep_constant_vars"])
  /\ "KZG_SETUP_G2_MONOMIAL" \in Keys(s["constant_vars"])

UpdateCurdleproofs(s) ==
  IF "CURDLEPROOFS_CRS" \in Keys(s["constant_vars"])
  THEN [s EXCEPT !["constant_vars"] = Put(@, "CURDLEPROOFS_CRS", TrustedSetup({"curdleproofs", "json"}))]
  ELSE s

SplitTypes(s, types) ==
  LET dependent == {item.name : item \in {types[i] : i \in
                      {j \in DOMAIN types : DependsOnPreset(types[j].def.mentions, s)}}}
  IN [s EXCEPT !["preset_dep_custom_types"] = Restricted(types, dependent),
               !["custom_types"] = Restricted(types, Keys(types) \ dependent)]

_finalize_types(s, types) ==
  SplitTypes(UpdateCurdleproofs(IF UsesKzgSetup(s)
                                THEN _update_constant_vars_with_kzg_setups(s) ELSE s), types)

-----------------------------------------------------------------------------
(* A new MarkdownToSpec for a document. *)
Init ==
  /\ document \in Documents
  /\ at = 1
  /\ current_heading_name = NoName
  /\ spec = EmptySpec
  /\ all_custom_types = <<>>
  /\ status = "parsing"

Element == document[at]
Here == Outcome(spec, all_custom_types, TRUE)

(* The next element is of this kind and is taken from the document. *)
Takes(kind) ==
  /\ status = "parsing" /\ at <= Len(document)
  /\ Element.kind = kind
  /\ UNCHANGED document

Becomes(result) ==
  /\ spec' = result.spec /\ all_custom_types' = result.types
  /\ status' = IF result.ok THEN "parsing" ELSE "error"

_process_heading ==
  /\ Takes("heading")
  /\ current_heading_name' = Element.name
  /\ at' = at + 1
  /\ UNCHANGED <<spec, all_custom_types, status>>

ProcessCode ==
  /\ Takes("code")
  /\ Becomes(_process_code_block(Here, Element, current_heading_name))
  /\ at' = at + 1
  /\ UNCHANGED current_heading_name

ProcessTable ==
  /\ Takes("table")
  /\ Becomes(_process_table(Here, Element))
  /\ at' = at + 1
  /\ UNCHANGED current_heading_name

\* Mutant: the comment itself is skipped, and nothing else.
Skip_Nothing ==
  /\ Takes("skip")
  /\ at' = at + 1
  /\ UNCHANGED <<current_heading_name, spec, all_custom_types, status>>

(* <!-- eth2spec: skip --> takes the next element too, whatever it is. *)
Skip ==
  /\ Takes("skip")
  /\ at' = at + 2
  /\ UNCHANGED <<current_heading_name, spec, all_custom_types, status>>

(* <!-- list-of-records:name --> takes the table that must follow it. *)
ListOfRecords ==
  /\ Takes("list-of-records")
  /\ at' = at + 2
  /\ IF at < Len(document) /\ document[at + 1].kind = "table"
     THEN Becomes(_process_list_of_records_table(Here, document[at + 1], Element.name))
     ELSE Becomes(Raise(Here))
  /\ UNCHANGED current_heading_name

IgnoreElement ==
  /\ Takes("other")
  /\ at' = at + 1
  /\ UNCHANGED <<current_heading_name, spec, all_custom_types, status>>

(* The document is read: run finishes the types and returns. *)
Finalize ==
  /\ status = "parsing" /\ at > Len(document)
  /\ IF UsesKzgSetup(spec) => KzgSetupComplete(spec)
     THEN spec' = _finalize_types(spec, all_custom_types) /\ status' = "done"
     ELSE status' = "error" /\ UNCHANGED spec
  /\ UNCHANGED <<document, at, current_heading_name, all_custom_types>>

Next ==
  \/ _process_heading \/ ProcessCode \/ ProcessTable
  \/ Skip \/ ListOfRecords \/ IgnoreElement
  \/ Finalize

Spec == Init /\ [][Next]_vars

-----------------------------------------------------------------------------
(* What a document says, read without an iterator: which elements a        *)
(* comment takes away, and what is left.                                   *)

TakenAway(doc) ==
  LET taken[i \in DOMAIN doc] ==
        i > 1 /\ doc[i - 1].kind \in {"skip", "list-of-records"} /\ ~ taken[i - 1]
  IN {i \in DOMAIN doc : taken[i]}

Live(doc, kind) == {i \in (DOMAIN doc) \ TakenAway(doc) : doc[i].kind = kind}

(* The places of the python definitions and of the rows of tables. *)
DefinitionPlaces(doc) ==
  UNION {{<<i, k>> : k \in DOMAIN doc[i].defs} : i \in {j \in Live(doc, "code") : doc[j].lang = "python"}}
RowPlaces(doc) == UNION {{<<i, k>> : k \in DOMAIN doc[i].rows} : i \in Live(doc, "table")}

DefinitionAt(doc, p) == doc[p[1]].defs[p[2]]
RowAt(doc, p) == doc[p[1]].rows[p[2]]
Before(p, q) == p[1] < q[1] \/ (p[1] = q[1] /\ p[2] < q[2])

(* The definitions that go to a dictionary. *)
SectionOf(def) ==
  CASE def.kind = "function" -> IF def.self = NoName THEN "functions" ELSE "protocols"
    [] def.kind = "dataclass" -> "dataclasses"
    [] def.kind = "class" -> "ssz_objects"
PlacesOf(section) == {p \in DefinitionPlaces(document) : SectionOf(DefinitionAt(document, p)) = section}

(* The types of the variables; a dictionary has a name once. *)
TypeOK ==
  /\ document \in Documents
  /\ at \in 1 .. Len(document) + 2
  /\ \A s \in Sections : NamedOnce(spec[s])
  /\ NamedOnce(all_custom_types)
  /\ status \in {"parsing", "done", "error"}

(* The result holds exactly the definitions that no comment takes away,    *)
(* and of several with one name the last: comments may follow each other,  *)
(* stand before headings, tables or at the end of the document.            *)
LastDefinitionStands ==
  status = "done" =>
    \A s \in {"functions", "dataclasses", "ssz_objects"} :
      /\ Keys(spec[s]) = {DefinitionAt(document, p).name : p \in PlacesOf(s)}
      /\ \A p \in PlacesOf(s) :
           LET def == DefinitionAt(document, p)
           IN \/ Get(spec[s], def.name).text = def.text
              \/ \E q \in PlacesOf(s) : Before(p, q) /\ DefinitionAt(document, q).name = def.name

(* Every container that was accepted stands under the heading that names   *)
(* it, counting the headings that were read.                               *)
ClassesUnderTheirHeading ==
  status = "done" =>
    \A p \in PlacesOf("ssz_objects") :
      \E h \in Live(document, "heading") :
        /\ h < p[1] /\ document[h].name = DefinitionAt(document, p).name
        /\ \A g \in Live(document, "heading") : g <= h \/ p[1] < g

(* A document in which names are declared once, and before they are        *)
(* mentioned.                                                              *)
DeclaredBeforeUse ==
  \A p, q \in RowPlaces(document) :
    LET row == RowAt(document, p)  other == RowAt(document, q)
    IN /\ row.name = other.name => p = q
       /\ other.name \in row.mentions => Before(q, p)

(* The constants and types that are written before the presets need none   *)
(* of them, directly or through other constants of the document.           *)
PlainNeedsNoPreset ==
  (status = "done" /\ DeclaredBeforeUse) =>
    \A s \in {"constant_vars", "custom_types"} : \A i \in DOMAIN spec[s] :
      spec[s][i].def.mentions \cap (Preset \cup Keys(spec["preset_dep_constant_vars"])) = {}
===============================================================================
