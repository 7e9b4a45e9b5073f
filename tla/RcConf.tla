------------------------------- MODULE RcConf -------------------------------
(***************************************************************************)
(* The lists that rcconf.c and rcconf_sublist.c keep of a file of lines    *)
(* key="value".  A list is a sequence of items, and so is a file: its      *)
(* other lines are dropped when it is read.  A sublist spreads a sequence  *)
(* of values over the keys <<"route", n>>, and one more item lists the n.  *)
(***************************************************************************)
EXTENDS SequencesExt

CONSTANTS
  None,        \* no value: the item is to be deleted
  MAX_ROUTES   \* names that fit into a value of RCCONF_SUBLIST_KEY_SET_MAX_LEN bytes

ASSUME MaxRoutesAssumption == MAX_ROUTES \in Nat \ {0}

Item(key, val) == [key |-> key, val |-> val]

Keys(items) == {items[n].key : n \in DOMAIN items}

Index(items, key) == SelectInSeq(items, LAMBDA it : it.key = key)

GetItem(items, key) == items[Index(items, key)]

\* MUTANT of SetItem: rcconf_add_item()'s way only; the item is there twice.
AppendItem(items, key, val) == Append(items, Item(key, val))

SetItem(items, key, val) ==
  IF key \in Keys(items)
    THEN [items EXCEPT ![Index(items, key)].val = val]
    ELSE Append(items, Item(key, val))

DelItem(items, key) == RemoveFirstMatch(items, LAMBDA it : it.key = key)

\* The items at some places, in their order.
Kept(items, places) ==
  LET kept[n \in 0..Len(items)] ==
        IF n = 0 THEN <<>>
        ELSE IF n \in places THEN Append(kept[n - 1], items[n]) ELSE kept[n - 1]
  IN  kept[Len(items)]

\* The places of the first items of their keys.
FirstPlaces(lines) ==
  {n \in DOMAIN lines : \A k \in 1..(n - 1) : lines[k].key # lines[n].key}

\* rcconf_load(): an item whose key has been seen is not added.
Load(lines) == Kept(lines, FirstPlaces(lines))

\* rcconf_save_items() in memory: the value None stands for NULL.
Apply(items, e) ==
  IF e.val = None THEN DelItem(items, e.key) ELSE SetItem(items, e.key, e.val)

\* One after the other.
Edit(items, edits) ==
  LET edited[n \in 0..Len(edits)] ==
        IF n = 0 THEN items ELSE Apply(edited[n - 1], edits[n])
  IN  edited[Len(edits)]

-----------------------------------------------------------------------------
ListKey     == <<"static_routes">>
RouteKey(n) == <<"route", n>>

\* Whether rcconf_sublist_load() finds the list and every item it names.
Loads(items) ==
  /\ ListKey \in Keys(items)
  /\ \A n \in Range(GetItem(items, ListKey).val) : RouteKey(n) \in Keys(items)

\* What it makes of the sublist, which stays empty after an error.
SubList(items) ==
  IF Loads(items)
    THEN LET names == GetItem(items, ListKey).val
         IN  [n \in DOMAIN names |-> GetItem(items, RouteKey(names[n])).val]
    ELSE <<>>

\* MUTANT of Cleaned: every item is taken for one of the sublist.
CleanedAll(items) == IF Loads(items) THEN <<>> ELSE items

\* load_clean(): the items of the sublist leave the list, unless there was an error.
Cleaned(items) ==
  IF Loads(items) THEN Kept(items, {n \in DOMAIN items : items[n].key[1] # "route"}) ELSE items

SubListSet(list, val) == Append(RemoveFirst(list, val), val)

SubListSetAll(list, vals) ==
  LET set[n \in 0..Len(vals)] == IF n = 0 THEN list ELSE SubListSet(set[n - 1], vals[n])
  IN  set[Len(vals)]

\* rcconf_sublist_save(): with too many values it stops half-way, before the names.
SubListSave(items, list) ==
  LET fits   == Min({Len(list), MAX_ROUTES})
      stored == Edit(items, [n \in 1..fits |-> Item(RouteKey(n - 1), list[n])])
  IN  IF Len(list) > MAX_ROUTES THEN stored
      ELSE SetItem(stored, ListKey, [n \in DOMAIN list |-> n - 1])
=============================================================================
