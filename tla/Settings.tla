------------------------------ MODULE Settings ------------------------------
(***************************************************************************)
(* What the files of a BSD guest promise: values under keys, and a list of *)
(* static routes.  A step changes nothing but what the present request     *)
(* asks for, except that a write cut short may lose values; it never       *)
(* changes one into another, and of the routes it loses all or none.       *)
(***************************************************************************)
EXTENDS SequencesExt

CONSTANTS
  Key, Value,
  None,        \* no value
  RouteLine,   \* static routes
  RoutesLimit  \* more routes than this are not stored

VARIABLES
  conf,        \* the value of each key
  routes,      \* the static routes, in the order in which they are set up
  want,        \* the present request: values a key may get, and routes to add
  damaged      \* a write has been cut short

settingsVars == <<conf, routes, want, damaged>>

Request == [values: [Key -> SUBSET (Value \cup {None})], routes: Seq(RouteLine)]

Init ==
  /\ conf \in [Key -> Value \cup {None}]
  /\ routes \in Seq(RouteLine)
  /\ want \in Request
  /\ damaged = FALSE

\* The routes to add follow the others; one that is there already moves.
Added == SelectSeq(routes, LAMBDA r : r \notin Range(want.routes)) \o want.routes

Ask ==
  /\ want' \in Request
  /\ UNCHANGED <<conf, routes>>

Change(lost) ==
  /\ UNCHANGED want
  /\ \A k \in Key : conf'[k] \in {conf[k]} \cup want.values[k] \cup lost
  /\ \/ routes' \in {routes, Added}
     \/ Len(Added) > RoutesLimit /\ routes' \in Prefixes(Added)
     \/ lost # {} /\ routes' = <<>>

Store == ~damaged' /\ Change({})
Lose  == damaged' /\ Change({None})

Next == Ask \/ Store \/ Lose

Spec == Init /\ [][Next]_settingsVars
=============================================================================
