------------------------------ MODULE MCDocuments ------------------------------
(***************************************************************************)
(* The elements of documents for TLC, and small documents: all sequences   *)
(* of a few elements, chosen so that names collide, headings are missing   *)
(* and comments meet each other.                                           *)
(***************************************************************************)
EXTENDS Naturals, Sequences
LOCAL INSTANCE SequencesExt

CONSTANTS None, MaxLength

Heading(name) == [kind |-> "heading", name |-> name]
Code(defs) == [kind |-> "code", lang |-> "python", defs |-> defs]
Table(rows) == [kind |-> "table", rows |-> rows, records |-> "the list", types |-> {}]
Comment == [kind |-> "skip"]
Records(name) == [kind |-> "list-of-records", name |-> name]
Paragraph == [kind |-> "other"]

Def(kind, name, self, mentions, text) ==
  [kind |-> kind, name |-> name, self |-> self, parent |-> "Container", text |-> text, mentions |-> mentions]
Function(name, mentions, text) == Def("function", name, None, mentions, text)
Method(name, self, mentions, text) == Def("function", name, self, mentions, text)
Dataclass(name, mentions, text) == Def("dataclass", name, None, mentions, text)
Class(name, mentions, text) == Def("class", name, None, mentions, text)
Container_(name, mentions, text) == << Heading(name), Code(<<Class(name, mentions, text)>>) >>

Row(name, constant, shape, mentions, text) ==
  [cells |-> 3, name |-> name, constant |-> constant, shape |-> shape, mentions |-> mentions,
   remark |-> "none", type |-> None, text |-> text, evaluated |-> None]
Constant(name, mentions, text) == Row(name, TRUE, "plain", mentions, text)
PresetRow(name, type) == [Row(name, TRUE, "plain", {type}, name) EXCEPT !.type = type]
Type(name, mentions, text) == Row(name, FALSE, "ssz", mentions, text)
GeneralizedIndex(name, value) == Row(name, TRUE, "gindex", {}, value)
Depth(name, value) == [Row(name, TRUE, "plain", {}, value) EXCEPT !.remark = "predefined"]

(* Code: two containers, a function defined twice, a method, a dataclass. *)
CodeElements ==
  { Heading("Fork"), Heading("Store"), Heading(None), Comment, Paragraph,
    Code(<<Class("Fork", {}, "v1"), Function("get_head", {}, "v1")>>),
    Code(<<Function("get_head", {}, "v2"), Dataclass("Store", {}, "v1")>>),
    Code(<<Method("notify", "Engine", {}, "v1"), Class("Store", {}, "v2")>>),
    [Code(<<>>) EXCEPT !.lang = "bash"] }

(* Tables: presets, what depends on them at one or two removes, types. *)
TableElements ==
  { Comment, Records("BLOB_SCHEDULE"), Records("NOTHING"),
    Table(<<Constant("WIDTH", {}, "8"), Constant("MAX", {}, "8")>>),
    Table(<<Constant("BYTES", {"WIDTH"}, "v1")>>),
    Table(<<[Constant("DOUBLE", {"BYTES"}, "v1") EXCEPT !.remark = "predefined"]>>),
    Table(<<Type("Blob", {"BYTES"}, "v1"), Type("Cell", {"DOUBLE"}, "v1"), Type("Slot", {}, "v1"),
            [Type("Set", {}, "v1") EXCEPT !.remark = "predefined-type"]>>),
    Table(<<GeneralizedIndex("ROOT", "v1"), Row("NAME", FALSE, "plain", {}, "v1")>>),
    Table(<<[Constant("MAX", {}, "9") EXCEPT !.evaluated = "9"]>>),
    Table(<<Constant("KZG_SETUP_G1_MONOMIAL", {"WIDTH"}, "v1"), Constant("KZG_SETUP_G1_LAGRANGE", {"WIDTH"}, "v1")>>),
    Table(<<Constant("KZG_SETUP_G2_MONOMIAL", {}, "v1"), Constant("CURDLEPROOFS_CRS", {}, "v1")>>) }

SmallDocuments == BoundedSeq(CodeElements, MaxLength) \cup BoundedSeq(TableElements, MaxLength)
===============================================================================
