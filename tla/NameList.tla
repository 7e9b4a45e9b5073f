------------------------------- MODULE NameList -------------------------------
(***************************************************************************)
(* Lists of names (namelist.c) and their comparison with the value of an   *)
(* option.  A name is a text without blanks; names that differ in nothing  *)
(* but case are one name here, as they are for strcasecmp().               *)
(***************************************************************************)
EXTENDS SequencesExt

CONSTANTS
  Removing,   \* words with "remove" in them
  Part        \* pairs <<x, y>>: the text of x occurs in that of y (10.0.0.1 and 10.0.0.10)

ASSUME PartAssumption == \A pair \in Part : Len(pair) = 2

namelist_add(name, list) == Append(list, name)

namelist_search(name, list) == Contains(list, name)

\* strcasestr(): the name occurs in a value.
OccursIn(name, value) == \E w \in ToSet(value) : w = name \/ <<name, w>> \in Part

\* MUTANT of namelist_compare: one way only.
NamelistContains(list, value) ==
  \A w \in ToSet(value) \ Removing : namelist_search(w, list)

\* Every word of the value is in the list, and every name of the list is somewhere in
\* the text of the value.
namelist_compare(list, value) ==
  /\ \A w \in ToSet(value) \ Removing : namelist_search(w, list)
  /\ \A name \in ToSet(list) : OccursIn(name, value)
=============================================================================
