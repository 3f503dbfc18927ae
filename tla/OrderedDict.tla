----------------------------- MODULE OrderedDict -----------------------------
(***************************************************************************)
(* Python dictionaries as the compiler uses them: the order in which names *)
(* were first inserted decides the order in which they are written.  A     *)
(* dictionary is a sequence of items with different names.                 *)
(***************************************************************************)
EXTENDS Integers, SequencesExt

IsList(q) == q \in Seq({q[i] : i \in DOMAIN q})

Keys(d) == {d[i].name : i \in DOMAIN d}

NamedOnce(d) == \A i, j \in DOMAIN d : d[i].name = d[j].name => i = j

Get(d, n) == d[CHOOSE i \in DOMAIN d : d[i].name = n].def

(* d[n] = v keeps the place of a name that is there. *)
Put(d, n, v) ==
  LET item == [name |-> n, def |-> v]
  IN IF n \in Keys(d)
     THEN [i \in DOMAIN d |-> IF d[i].name = n THEN item ELSE d[i]]
     ELSE Append(d, item)

\* Mutant: the older definition stays.
combine_dicts_KeepOld(old_dict, new_dict) ==
  FoldLeft(LAMBDA d, item : IF item.name \in Keys(d) THEN d ELSE Put(d, item.name, item.def),
           old_dict, new_dict)

(* {**old_dict, **new_dict} *)
combine_dicts(old_dict, new_dict) ==
  FoldLeft(LAMBDA d, item : Put(d, item.name, item.def), old_dict, new_dict)

(* The entries whose names are in a set, in their order. *)
Restricted(d, names) ==
  FoldLeft(LAMBDA r, item : IF item.name \in names THEN Append(r, item) ELSE r, <<>>, d)
==============================================================================
