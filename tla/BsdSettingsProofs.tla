-------------------------- MODULE BsdSettingsProofs --------------------------
(***************************************************************************)
(* Proofs about BsdSettings: what the operations of RcConf and ResolvConf  *)
(* make of the lists, whatever is in them, and from this what the handlers *)
(* promise.                                                                *)
(*                                                                         *)
(* The lists are built by recursive functions.  Facts about them are       *)
(* proved by induction over the naturals in the form of a fact about sets. *)
(***************************************************************************)
EXTENDS BsdSettings, FiniteSetTheorems, SequenceTheorems, TLAPS

-----------------------------------------------------------------------------
(* Numbers, places in a list, recursion. *)

LEMMA Least ==
  ASSUME NEW Elem, Elem \subseteq Nat, Elem # {}
  PROVE  \E n \in Elem : \A m \in Elem : n <= m
<1> DEFINE Less == OpToRel(<, Nat)
<1>1. \A x, y \in Nat : y < x => <<y, x>> \in Less
  BY DEF OpToRel
<1>2. IsWellFoundedOn(Less, Nat)
  BY NatLessThanWellFounded
<1> HIDE DEF Less
<1>3. PICK x \in Elem : \A y \in Elem : ~(<<y, x>> \in Less)
  BY <1>2, WFMin
<1>4. \A y \in Elem : y \in Nat /\ x \in Nat /\ ~(y < x)
  BY <1>1, <1>3
<1> QED
  BY <1>4

LEMMA Induction ==
  ASSUME NEW Elem, 0 \in Elem, \A n \in Nat : n \in Elem => n + 1 \in Elem
  PROVE  Nat \subseteq Elem
<1> SUFFICES ASSUME Nat \ Elem # {} PROVE FALSE
  OBVIOUS
<1>1. PICK n \in Nat \ Elem : \A m \in Nat \ Elem : n <= m
  BY Least
<1> QED
  BY <1>1

\* A function given by its value at 0 and a step from each place to the next exists.
Iterates(g, T, base, len, F) ==
  /\ g \in [0..len -> T]
  /\ g[0] = base
  /\ \A n \in 1..len : g[n] = F[<<g[n - 1], n>>]

LEMMA Iteration ==
  ASSUME NEW T, NEW base \in T, NEW len \in Nat, NEW F \in [T \X (1..len) -> T]
  PROVE  \E g : Iterates(g, T, base, len, F)
<1> DEFINE Until(m) == \E g \in [0..m -> T] :
                         /\ g[0] = base
                         /\ \A n \in 1..m : g[n] = F[<<g[n - 1], n>>]
           Elem == {m \in Nat : m <= len => Until(m)}
<1>1. 0 \in Elem
  <2> DEFINE g == [n \in 0..0 |-> base]
  <2>1. g \in [0..0 -> T] /\ g[0] = base /\ 1..0 = {}
    OBVIOUS
  <2> QED
    BY <2>1
<1>2. ASSUME NEW m \in Nat, m \in Elem PROVE m + 1 \in Elem
  <2> SUFFICES ASSUME m + 1 <= len PROVE Until(m + 1)
    OBVIOUS
  <2>1. PICK g \in [0..m -> T] : /\ g[0] = base
                                 /\ \A n \in 1..m : g[n] = F[<<g[n - 1], n>>]
    BY <1>2
  <2> DEFINE h == [n \in 0..(m + 1) |-> IF n <= m THEN g[n] ELSE F[<<g[m], m + 1>>]]
  <2>2. F[<<g[m], m + 1>>] \in T
    <3>1. <<g[m], m + 1>> \in T \X (1..len)
      BY m \in 0..m, m + 1 \in 1..len
    <3> QED
      BY <3>1
  <2>3. h \in [0..(m + 1) -> T]
    <3>1. ASSUME NEW n \in 0..(m + 1), n <= m PROVE g[n] \in T
      BY <3>1
    <3> QED
      BY <2>2, <3>1
  <2>4. h[0] = base
    BY <2>1
  <2>5. ASSUME NEW n \in 1..(m + 1) PROVE h[n] = F[<<h[n - 1], n>>]
    <3>1. n - 1 \in 0..(m + 1) /\ n - 1 <= m /\ n \in 0..(m + 1)
      OBVIOUS
    <3>2. h[n - 1] = g[n - 1]
      BY <3>1
    <3>3. CASE n <= m
      <4>1. h[n] = g[n] /\ n \in 1..m
        BY <3>1, <3>3
      <4> QED
        BY <2>1, <3>2, <4>1
    <3>4. CASE ~(n <= m)
      <4>1. n = m + 1 /\ n - 1 = m
        BY <3>4
      <4>2. h[n] = F[<<g[m], m + 1>>]
        BY <3>1, <3>4
      <4> QED
        BY <3>2, <4>1, <4>2
    <3> QED
      BY <3>3, <3>4
  <2> HIDE DEF h
  <2> QED
    BY <2>3, <2>4, <2>5
<1> HIDE DEF Elem
<1>3. len \in Elem
  BY <1>1, <1>2, Induction
<1>4. Until(len)
  BY <1>3 DEF Elem
<1> QED
  BY <1>4 DEF Iterates
-----------------------------------------------------------------------------
(* Lists of items. *)

LEMMA KeptDef ==
  ASSUME NEW Elem, NEW items \in Seq(Elem), NEW places
  PROVE  \E kept \in [0..Len(items) -> Seq(Elem)] :
           /\ Kept(items, places) = kept[Len(items)]
           /\ kept[0] = <<>>
           /\ \A n \in 1..Len(items) :
                kept[n] = IF n \in places THEN Append(kept[n - 1], items[n]) ELSE kept[n - 1]
<1> DEFINE len == Len(items)
           L == Seq(Elem)
           base == <<>>
           Step(x, n) == IF n \in places THEN Append(x, items[n]) ELSE x
           F == [p \in L \X (1..len) |-> Step(p[1], p[2])]
           Eq(k) == k = [n \in 0..Len(items) |->
                           IF n = 0 THEN <<>>
                           ELSE IF n \in places THEN Append(k[n - 1], items[n]) ELSE k[n - 1]]
<1>1. len \in Nat /\ (\A n \in 1..len : items[n] \in Elem) /\ <<>> \in Seq(Elem)
  BY EmptySeq
<1>2. ASSUME NEW x \in L, NEW n \in 1..len PROVE Step(x, n) \in L
  <2>1. items[n] \in Elem
    BY <1>1
  <2> QED
    BY <2>1
<1> HIDE DEF len, L, Step
<1>3. F \in [L \X (1..len) -> L] /\ \A x \in L, n \in 1..len : F[<<x, n>>] = Step(x, n)
  <2>1. ASSUME NEW p \in L \X (1..len) PROVE Step(p[1], p[2]) \in L
    BY <1>2
  <2>2. ASSUME NEW x \in L, NEW n \in 1..len PROVE F[<<x, n>>] = Step(x, n)
    <3> DEFINE p == <<x, n>>
    <3>1. p \in L \X (1..len) /\ p[1] = x /\ p[2] = n
      OBVIOUS
    <3> HIDE DEF p
    <3>2. F[p] = Step(p[1], p[2])
      BY <3>1
    <3> QED
      BY <3>1, <3>2 DEF p
  <2> QED
    BY <2>1, <2>2
<1>4. base \in L
  BY <1>1 DEF L
<1> HIDE DEF F, base
<1>5. \E g : Iterates(g, L, base, len, F)
  BY <1>1, <1>3, <1>4, Iteration
<1>6. PICK g : Iterates(g, L, base, len, F)
  BY <1>5
<1>7. g \in [0..len -> L] /\ g[0] = base /\ \A n \in 1..len : g[n] = F[<<g[n - 1], n>>]
  BY <1>6 DEF Iterates
<1> USE DEF L, base
<1>8. ASSUME NEW n \in 0..len
      PROVE  g[n] = IF n = 0 THEN <<>>
                    ELSE IF n \in places THEN Append(g[n - 1], items[n]) ELSE g[n - 1]
  <2>1. CASE n = 0
    BY <1>7, <2>1
  <2>2. CASE n # 0
    <3>1. n \in 1..len /\ n - 1 \in 0..len
      BY <1>1, <2>2
    <3>2. g[n - 1] \in Seq(Elem)
      BY <1>7, <3>1
    <3>3. g[n] = Step(g[n - 1], n)
      BY <1>3, <1>7, <3>1, <3>2
    <3> QED
      BY <2>2, <3>3 DEF Step
  <2> QED
    BY <2>1, <2>2
<1>9. g = [n \in 0..len |-> g[n]]
  BY <1>7
<1>10. Eq(g)
  BY <1>8, <1>9 DEF len
<1>11. PICK kept : Eq(kept) /\ Kept(items, places) = kept[Len(items)]
  BY <1>10 DEF Kept
<1>12. \A n \in 0..len : kept[n] = IF n = 0 THEN <<>>
                                   ELSE IF n \in places THEN Append(kept[n - 1], items[n])
                                                        ELSE kept[n - 1]
  BY <1>11 DEF len
<1> DEFINE T == {n \in Nat : n <= len => kept[n] \in Seq(Elem)}
<1>13. 0 \in T
  <2>1. kept[0] = <<>>
    BY <1>1, <1>12
  <2> QED
    BY <1>4, <2>1
<1>14. ASSUME NEW n \in Nat, n \in T PROVE n + 1 \in T
  <2> SUFFICES ASSUME n + 1 <= len PROVE kept[n + 1] \in Seq(Elem)
    OBVIOUS
  <2>1. kept[n] \in Seq(Elem) /\ items[n + 1] \in Elem /\ (n + 1) - 1 = n /\ n + 1 # 0 /\ n + 1 \in 0..len
    BY <1>1, <1>14
  <2> HIDE DEF T
  <2>2. kept[n + 1] = IF n + 1 \in places THEN Append(kept[n], items[n + 1]) ELSE kept[n]
    BY <1>12, <2>1
  <2> QED
    BY <2>1, <2>2
<1> HIDE DEF T
<1>15. \A n \in 0..len : kept[n] \in Seq(Elem)
  <2>1. Nat \subseteq T
    BY <1>13, <1>14, Induction
  <2> QED
    BY <1>1, <2>1 DEF T
<1>16. kept = [n \in 0..len |-> kept[n]]
  BY <1>11 DEF len
<1>17. kept \in [0..len -> Seq(Elem)]
  BY <1>15, <1>16
<1>18. kept[0] = <<>> /\ \A n \in 1..len :
         kept[n] = IF n \in places THEN Append(kept[n - 1], items[n]) ELSE kept[n - 1]
  BY <1>1, <1>12
<1> QED
  BY <1>11, <1>17, <1>18 DEF len
-----------------------------------------------------------------------------
(* Items by their keys. *)

\* The value of the first item of a key, as a load yields it.
Val(items, key) == IF key \in Keys(items) THEN GetItem(items, key).val ELSE None

Unique(items) == \A m, n \in DOMAIN items : items[m].key = items[n].key => m = n

\* A list in which each key is once.
UniqueList(Elem) == {items \in Seq(Elem) : Unique(items)}

\* Other than for some keys, two lists hold the same.
SameBut(new, old, keys) ==
  \A k : k \notin keys => (k \in Keys(new) <=> k \in Keys(old)) /\ Val(new, k) = Val(old, k)

LEMMA IndexIs ==
  ASSUME NEW Elem, NEW items \in Seq(Elem), NEW key \in Keys(items)
  PROVE  /\ Index(items, key) \in DOMAIN items
         /\ items[Index(items, key)].key = key
         /\ \A k \in 1..(Index(items, key) - 1) : items[k].key # key
<1> DEFINE I == {i \in 1..Len(items) : items[i].key = key}
<1>1. Len(items) \in Nat /\ DOMAIN items = 1..Len(items)
  OBVIOUS
<1>2. I \subseteq Nat /\ I # {}
  BY <1>1 DEF Keys
<1>3. \E n \in I : \A m \in I : n <= m
  BY <1>2, Least
<1>4. Index(items, key) = Min(I)
  BY <1>2 DEF Index, SelectInSeq
<1>5. Min(I) \in I /\ \A m \in I : Min(I) <= m
  BY <1>3 DEF Min
<1>6. ASSUME NEW k \in 1..(Min(I) - 1) PROVE items[k].key # key
  BY <1>1, <1>5
<1> QED
  BY <1>1, <1>4, <1>5, <1>6

LEMMA FirstValue ==
  ASSUME NEW Elem, NEW items \in Seq(Elem), NEW n \in DOMAIN items,
         \A k \in 1..(n - 1) : items[k].key # items[n].key
  PROVE  Val(items, items[n].key) = items[n].val /\ items[n].key \in Keys(items)
<1> DEFINE key == items[n].key
           i == Index(items, key)
<1>1. key \in Keys(items)
  BY DEF Keys
<1>2. /\ i \in DOMAIN items /\ items[i].key = key
      /\ \A k \in 1..(i - 1) : items[k].key # key
  BY <1>1, IndexIs
<1>3. Len(items) \in Nat /\ DOMAIN items = 1..Len(items)
  OBVIOUS
<1>4. i = n
  <2> HIDE DEF i
  <2>1. ~(i < n)
    BY <1>2, <1>3
  <2>2. ~(n < i)
    BY <1>2, <1>3
  <2> QED
    BY <1>2, <1>3, <2>1, <2>2
<1> QED
  BY <1>1, <1>4 DEF Val, GetItem

LEMMA ValueOf ==
  ASSUME NEW Elem, NEW items \in UniqueList(Elem), NEW n \in DOMAIN items
  PROVE  Val(items, items[n].key) = items[n].val /\ items[n].key \in Keys(items)
<1>1. items \in Seq(Elem) /\ DOMAIN items = 1..Len(items) /\ Len(items) \in Nat
  BY DEF UniqueList
<1>2. ASSUME NEW k \in 1..(n - 1) PROVE items[k].key # items[n].key
  BY <1>1 DEF UniqueList, Unique
<1> QED
  BY <1>1, <1>2, FirstValue

\* Lists with the same items are the same, whatever their order.
LEMMA SameItems ==
  ASSUME NEW Elem, NEW new \in UniqueList(Elem), NEW old \in UniqueList(Elem), NEW keys,
         \A m \in DOMAIN new : new[m].key \in keys \/ \E n \in DOMAIN old : new[m] = old[n],
         \A n \in DOMAIN old : old[n].key \in keys \/ \E m \in DOMAIN new : new[m] = old[n]
  PROVE  SameBut(new, old, keys)
<1> SUFFICES ASSUME NEW k, k \notin keys
             PROVE  (k \in Keys(new) <=> k \in Keys(old)) /\ Val(new, k) = Val(old, k)
  BY DEF SameBut
<1>1. k \in Keys(new) <=> k \in Keys(old)
  BY DEF Keys
<1>2. CASE k \in Keys(new)
  <2>1. PICK m \in DOMAIN new : new[m].key = k
    BY <1>2 DEF Keys
  <2>2. PICK n \in DOMAIN old : new[m] = old[n]
    BY <2>1
  <2>3. Val(new, new[m].key) = new[m].val
    BY <2>1, ValueOf
  <2>4. Val(old, old[n].key) = old[n].val
    BY <2>2, ValueOf
  <2> QED
    BY <1>1, <2>1, <2>2, <2>3, <2>4
<1>3. CASE k \notin Keys(new)
  BY <1>1, <1>3 DEF Val
<1> QED
  BY <1>1, <1>2, <1>3
\* The items at places whose keys differ, once each.
LEMMA KeptIs ==
  ASSUME NEW Elem, NEW items \in Seq(Elem), NEW places, places \subseteq DOMAIN items,
         \A m, n \in places : items[m].key = items[n].key => m = n
  PROVE  /\ Kept(items, places) \in UniqueList(Elem)
         /\ \A i \in DOMAIN Kept(items, places) : \E m \in places : Kept(items, places)[i] = items[m]
         /\ \A m \in places : \E i \in DOMAIN Kept(items, places) : Kept(items, places)[i] = items[m]
<1> DEFINE len == Len(items)
           Good(list, n) ==
             /\ list \in UniqueList(Elem)
             /\ \A i \in DOMAIN list : \E m \in places : m <= n /\ list[i] = items[m]
             /\ \A m \in places : m <= n => \E i \in DOMAIN list : list[i] = items[m]
<1>1. PICK kept \in [0..len -> Seq(Elem)] :
        /\ Kept(items, places) = kept[len]
        /\ kept[0] = <<>>
        /\ \A n \in 1..len :
             kept[n] = IF n \in places THEN Append(kept[n - 1], items[n]) ELSE kept[n - 1]
  BY KeptDef
<1>2. len \in Nat /\ DOMAIN items = 1..len
  OBVIOUS
<1> HIDE DEF len
<1> DEFINE T == {n \in Nat : n <= len => Good(kept[n], n)}
<1>3. 0 \in T
  <2>1. <<>> \in Seq(Elem) /\ DOMAIN <<>> = {}
    BY EmptySeq
  <2>2. <<>> \in UniqueList(Elem)
    BY <2>1 DEF UniqueList, Unique
  <2>3. \A m \in places : ~(m <= 0)
    BY <1>2
  <2> QED
    BY <1>1, <2>1, <2>2, <2>3
<1>4. ASSUME NEW n \in Nat, n \in T PROVE n + 1 \in T
  <2> SUFFICES ASSUME n + 1 <= len PROVE Good(kept[n + 1], n + 1)
    OBVIOUS
  <2> DEFINE list == kept[n]
  <2>1. Good(list, n) /\ n + 1 \in 1..len /\ (n + 1) - 1 = n
    BY <1>2, <1>4
  <2>2. kept[n + 1] = IF n + 1 \in places THEN Append(list, items[n + 1]) ELSE list
    BY <1>1, <2>1
  <2> HIDE DEF list, T
  <2>3. \A m \in places : m <= n + 1 <=> m <= n \/ m = n + 1
    BY <1>2
  <2>4. CASE n + 1 \notin places
    BY <2>1, <2>2, <2>3, <2>4
  <2>5. CASE n + 1 \in places
    <3> DEFINE new == Append(list, items[n + 1])
    <3>1. list \in Seq(Elem) /\ items[n + 1] \in Elem
      BY <1>2, <2>1 DEF UniqueList
    <3>2. /\ new \in Seq(Elem) /\ Len(list) \in Nat /\ DOMAIN list = 1..Len(list)
          /\ DOMAIN new = 1..(Len(list) + 1)
          /\ new[Len(list) + 1] = items[n + 1]
          /\ \A i \in DOMAIN list : new[i] = list[i] /\ i \in DOMAIN new
      BY <3>1
    <3> HIDE DEF new
    <3>3. ASSUME NEW i \in DOMAIN list PROVE list[i].key # items[n + 1].key
      <4>1. PICK m \in places : m <= n /\ list[i] = items[m]
        BY <2>1
      <4>2. m # n + 1
        BY <1>2, <4>1
      <4> QED
        BY <2>5, <4>1, <4>2
    <3>4. ASSUME NEW i \in DOMAIN new, NEW j \in DOMAIN new, new[i].key = new[j].key PROVE i = j
      <4>1. CASE i \in DOMAIN list /\ j \in DOMAIN list
        <5>1. list[i].key = list[j].key
          BY <3>2, <3>4, <4>1
        <5> QED
          BY <2>1, <4>1, <5>1 DEF UniqueList, Unique
      <4>2. CASE i \notin DOMAIN list /\ j \notin DOMAIN list
        BY <3>2, <4>2
      <4>3. CASE i \in DOMAIN list /\ j \notin DOMAIN list
        <5>1. j = Len(list) + 1
          BY <3>2, <4>3
        <5> QED
          BY <3>2, <3>3, <3>4, <4>3, <5>1
      <4>4. CASE i \notin DOMAIN list /\ j \in DOMAIN list
        <5>1. i = Len(list) + 1
          BY <3>2, <4>4
        <5> QED
          BY <3>2, <3>3, <3>4, <4>4, <5>1
      <4> QED
        BY <4>1, <4>2, <4>3, <4>4
    <3>5. new \in UniqueList(Elem)
      BY <3>2, <3>4 DEF UniqueList, Unique
    <3>6. ASSUME NEW i \in DOMAIN new PROVE \E m \in places : m <= n + 1 /\ new[i] = items[m]
      <4>1. CASE i \in DOMAIN list
        <5>1. PICK m \in places : m <= n /\ list[i] = items[m]
          BY <2>1, <4>1
        <5> QED
          BY <2>3, <3>2, <4>1, <5>1
      <4>2. CASE i \notin DOMAIN list
        <5>1. i = Len(list) + 1
          BY <3>2, <4>2
        <5> QED
          BY <2>3, <2>5, <3>2, <5>1
      <4> QED
        BY <4>1, <4>2
    <3>7. ASSUME NEW m \in places, m <= n + 1 PROVE \E i \in DOMAIN new : new[i] = items[m]
      <4>1. CASE m <= n
        <5>1. PICK i \in DOMAIN list : list[i] = items[m]
          BY <2>1, <4>1
        <5> QED
          BY <3>2, <5>1
      <4>2. CASE m = n + 1
        <5>1. Len(list) + 1 \in DOMAIN new
          BY <3>2
        <5> QED
          BY <3>2, <4>2, <5>1
      <4> QED
        BY <2>3, <3>7, <4>1, <4>2
    <3>8. kept[n + 1] = new
      BY <2>2, <2>5 DEF new
    <3> QED
      BY <3>5, <3>6, <3>7, <3>8
  <2> QED
    BY <2>4, <2>5
<1> HIDE DEF T
<1>5. len \in T
  BY <1>2, <1>3, <1>4, Induction
<1>6. Good(kept[len], len)
  BY <1>2, <1>5 DEF T
<1>7. \A m \in places : m <= len
  BY <1>2
<1> QED
  BY <1>1, <1>6, <1>7

LEMMA LoadIs ==
  ASSUME NEW Elem, NEW lines \in Seq(Elem)
  PROVE  Load(lines) \in UniqueList(Elem) /\ SameBut(Load(lines), lines, {})
<1> DEFINE places == FirstPlaces(lines)
           items == Load(lines)
<1>1. DOMAIN lines = 1..Len(lines) /\ Len(lines) \in Nat
  OBVIOUS
<1>2. places \subseteq DOMAIN lines
  BY DEF FirstPlaces
<1>3. ASSUME NEW m \in places, NEW n \in places, lines[m].key = lines[n].key PROVE m = n
  <2>1. ~(m < n) /\ ~(n < m)
    BY <1>1, <1>3 DEF FirstPlaces
  <2> QED
    BY <1>1, <1>2, <2>1
<1>4. /\ items \in UniqueList(Elem)
      /\ \A i \in DOMAIN items : \E m \in places : items[i] = lines[m]
      /\ \A m \in places : \E i \in DOMAIN items : items[i] = lines[m]
  BY <1>2, <1>3, KeptIs DEF Load
<1> HIDE DEF items
<1>5. ASSUME NEW k PROVE (k \in Keys(items) <=> k \in Keys(lines)) /\ Val(items, k) = Val(lines, k)
  <2>1. ASSUME k \in Keys(items) PROVE k \in Keys(lines)
    BY <1>2, <1>4, <2>1 DEF Keys
  <2>2. ASSUME k \in Keys(lines) PROVE k \in Keys(items) /\ Val(items, k) = Val(lines, k)
    <3> DEFINE n == Index(lines, k)
    <3>1. /\ n \in DOMAIN lines /\ lines[n].key = k
          /\ \A i \in 1..(n - 1) : lines[i].key # k
      BY <2>2, IndexIs
    <3> HIDE DEF n
    <3>2. n \in places
      BY <3>1 DEF FirstPlaces
    <3>3. PICK i \in DOMAIN items : items[i] = lines[n]
      BY <1>4, <3>2
    <3>4. Val(items, items[i].key) = items[i].val /\ items[i].key \in Keys(items)
      BY <1>4, <3>3, ValueOf
    <3>5. Val(lines, lines[n].key) = lines[n].val
      BY <3>1, FirstValue
    <3> QED
      BY <3>1, <3>3, <3>4, <3>5
  <2> QED
    BY <2>1, <2>2 DEF Val
<1> QED
  BY <1>4, <1>5 DEF SameBut, items
ItemIn(K, V) == [key : K, val : V]

LEMMA SetItemIs ==
  ASSUME NEW K, NEW V, NEW items \in UniqueList(ItemIn(K, V)), NEW key \in K, NEW val \in V
  PROVE  /\ SetItem(items, key, val) \in UniqueList(ItemIn(K, V))
         /\ key \in Keys(SetItem(items, key, val)) /\ Val(SetItem(items, key, val), key) = val
         /\ SameBut(SetItem(items, key, val), items, {key})
<1> DEFINE Elem == ItemIn(K, V)
           new == SetItem(items, key, val)
<1>1. /\ items \in Seq(Elem) /\ DOMAIN items = 1..Len(items) /\ Len(items) \in Nat
      /\ \A n \in DOMAIN items : items[n] \in Elem
      /\ \A m, n \in DOMAIN items : items[m].key = items[n].key => m = n
  BY DEF UniqueList, Unique
<1> SUFFICES ASSUME TRUE
             PROVE  /\ new \in UniqueList(Elem)
                    /\ \E n \in DOMAIN new : new[n].key = key /\ new[n].val = val
                    /\ \A m \in DOMAIN new : new[m].key \in {key} \/ \E n \in DOMAIN items : new[m] = items[n]
                    /\ \A n \in DOMAIN items : items[n].key \in {key} \/ \E m \in DOMAIN new : new[m] = items[n]
  <2> HIDE DEF new
  <2>1. PICK n \in DOMAIN new : new[n].key = key /\ new[n].val = val
    OBVIOUS
  <2>2. Val(new, new[n].key) = new[n].val /\ new[n].key \in Keys(new)
    BY <2>1, ValueOf
  <2>3. SameBut(new, items, {key})
    BY SameItems
  <2> QED
    BY <2>1, <2>2, <2>3 DEF new
<1>2. CASE key \in Keys(items)
  <2> DEFINE i == Index(items, key)
  <2>1. i \in DOMAIN items /\ items[i].key = key
    BY <1>1, <1>2, IndexIs
  <2>2. new = [items EXCEPT ![i].val = val]
    BY <1>2 DEF SetItem
  <2> HIDE DEF i, new
  <2>3. ASSUME NEW n \in DOMAIN items PROVE items[n] \in ItemIn(K, V)
    BY <1>1
  <2>4. new[i] \in Elem /\ new[i].key = key /\ new[i].val = val
    <3> DEFINE it == items[i]
    <3>1. it \in [key : K, val : V]
      BY <2>1, <2>3 DEF ItemIn
    <3>2. new[i] = [it EXCEPT !.val = val]
      BY <2>1, <2>2
    <3> HIDE DEF it
    <3>3. [it EXCEPT !.val = val] \in [key : K, val : V] /\ [it EXCEPT !.val = val].key = it.key
          /\ [it EXCEPT !.val = val].val = val
      BY <3>1
    <3>4. it.key = key
      BY <2>1 DEF it
    <3> QED
      BY <3>2, <3>3, <3>4 DEF ItemIn
  <2>5. DOMAIN new = DOMAIN items /\ \A n \in DOMAIN items : n # i => new[n] = items[n]
    BY <2>1, <2>2
  <2>6. new = [n \in DOMAIN items |-> new[n]]
    BY <2>2
  <2>7. new \in Seq(Elem)
    <3>1. \A n \in DOMAIN items : new[n] \in Elem
      BY <1>1, <2>4, <2>5
    <3> HIDE DEF Elem
    <3> QED
      BY <1>1, <2>6, <3>1
  <2>8. \A n \in DOMAIN items : new[n].key = items[n].key
    BY <2>1, <2>4, <2>5
  <2>9. new \in UniqueList(Elem)
    BY <1>1, <2>5, <2>7, <2>8 DEF UniqueList, Unique
  <2>10. \A n \in DOMAIN items : n # i => items[n].key # key
    BY <1>1, <2>1
  <2>11. \A n \in DOMAIN items : items[n].key = key \/ new[n] = items[n]
    BY <2>1, <2>5
  <2>12. \A n \in DOMAIN items : new[n].key = key \/ new[n] = items[n]
    BY <2>4, <2>5
  <2> HIDE DEF Elem
  <2> QED
    BY <2>1, <2>4, <2>5, <2>9, <2>11, <2>12
<1>3. CASE key \notin Keys(items)
  <2> DEFINE it == Item(key, val)
             len == Len(items)
  <2>1. it \in Elem /\ it.key = key /\ it.val = val
    BY DEF Item, ItemIn
  <2>2. new = Append(items, it)
    BY <1>3 DEF SetItem
  <2>3. \A n \in DOMAIN items : items[n].key # key
    BY <1>3 DEF Keys
  <2> HIDE DEF it, new
  <2>4. /\ new \in Seq(Elem) /\ DOMAIN new = 1..(len + 1) /\ new[len + 1] = it
        /\ \A n \in DOMAIN items : n \in DOMAIN new /\ new[n] = items[n]
    <3> HIDE DEF Elem
    <3> QED
      BY <1>1, <2>1, <2>2
  <2>5. \A n \in DOMAIN new : n \in DOMAIN items \/ n = len + 1
    BY <1>1, <2>4
  <2> HIDE DEF Elem, len
  <2>6. ASSUME NEW m \in DOMAIN new, NEW n \in DOMAIN new, new[m].key = new[n].key PROVE m = n
    <3>1. CASE m \in DOMAIN items /\ n \in DOMAIN items
      <4>1. items[m].key = items[n].key
        BY <2>4, <2>6, <3>1
      <4> QED
        BY <1>1, <3>1, <4>1
    <3>2. CASE m = len + 1 /\ n = len + 1
      BY <3>2
    <3>3. CASE m \in DOMAIN items /\ n = len + 1
      BY <2>1, <2>3, <2>4, <2>6, <3>3
    <3>4. CASE m = len + 1 /\ n \in DOMAIN items
      BY <2>1, <2>3, <2>4, <2>6, <3>4
    <3> QED
      BY <2>5, <3>1, <3>2, <3>3, <3>4
  <2>7. new \in UniqueList(Elem)
    BY <2>4, <2>6 DEF UniqueList, Unique
  <2>8. len + 1 \in DOMAIN new
    BY <1>1, <2>4 DEF len
  <2> QED
    BY <2>1, <2>4, <2>5, <2>7, <2>8
<1> QED
  BY <1>2, <1>3

\* Every item but one, in the same order.
LEMMA RemoveAtIs ==
  ASSUME NEW Elem, NEW s \in Seq(Elem), NEW i \in DOMAIN s, NEW t, t = RemoveAt(s, i)
  PROVE  /\ t \in Seq(Elem) /\ Len(t) = Len(s) - 1
         /\ \A n \in DOMAIN t : t[n] = s[IF n < i THEN n ELSE n + 1]
<1> DEFINE a == SubSeq(s, 1, i - 1)
           b == SubSeq(s, i + 1, Len(s))
<1>1. Len(s) \in Nat /\ DOMAIN s = 1..Len(s) /\ i \in 1..Len(s)
  OBVIOUS
<1>2. a \in Seq(Elem) /\ Len(a) = i - 1 /\ \A n \in 1..(i - 1) : a[n] = s[n]
  BY <1>1
<1>3. b \in Seq(Elem) /\ Len(b) = Len(s) - i /\ \A n \in 1..(Len(s) - i) : b[n] = s[i + n]
  BY <1>1
<1> HIDE DEF a, b
<1>4. a \o b \in Seq(Elem) /\ Len(a \o b) = Len(s) - 1
  <2>1. a \in Seq(Elem) /\ b \in Seq(Elem)
    BY <1>2, <1>3
  <2>2. (i - 1) + (Len(s) - i) = Len(s) - 1
    BY <1>1
  <2>3. a \o b \in Seq(Elem) /\ Len(a \o b) = Len(a) + Len(b)
    BY <2>1, ConcatProperties
  <2> QED
    BY <1>2, <1>3, <2>2, <2>3
<1>5. ASSUME NEW n \in 1..(Len(s) - 1) PROVE (a \o b)[n] = s[IF n < i THEN n ELSE n + 1]
  <2>1. CASE n < i
    <3>1. n \in 1..(i - 1) /\ (a \o b)[n] = a[n]
      BY <1>1, <1>2, <1>3, <2>1
    <3> QED
      BY <1>2, <2>1, <3>1
  <2>2. CASE ~(n < i)
    <3>1. n - (i - 1) \in 1..(Len(s) - i) /\ i + (n - (i - 1)) = n + 1
      BY <1>1, <2>2
    <3>2. (a \o b)[n] = b[n - (i - 1)]
      BY <1>1, <1>2, <1>3, <2>2
    <3> QED
      BY <1>3, <2>2, <3>1, <3>2
  <2> QED
    BY <2>1, <2>2
<1>6. DOMAIN (a \o b) = 1..(Len(s) - 1)
  BY <1>4
<1> QED
  BY <1>4, <1>5, <1>6 DEF RemoveAt, a, b

LEMMA DelItemIs ==
  ASSUME NEW Elem, NEW items \in UniqueList(Elem), NEW key
  PROVE  /\ DelItem(items, key) \in UniqueList(Elem)
         /\ key \notin Keys(DelItem(items, key))
         /\ SameBut(DelItem(items, key), items, {key})
<1>1. /\ items \in Seq(Elem) /\ DOMAIN items = 1..Len(items) /\ Len(items) \in Nat
      /\ \A m, n \in DOMAIN items : items[m].key = items[n].key => m = n
  BY DEF UniqueList, Unique
<1>2. CASE key \notin Keys(items)
  <2>1. DelItem(items, key) = items
    BY <1>1, <1>2 DEF DelItem, RemoveFirstMatch, Keys
  <2> QED
    BY <1>2, <2>1 DEF SameBut
<1>3. CASE key \in Keys(items)
  <2> DEFINE i == Index(items, key)
             new == DelItem(items, key)
             old(n) == IF n < i THEN n ELSE n + 1
  <2>1. i \in DOMAIN items /\ items[i].key = key
    BY <1>1, <1>3, IndexIs
  <2>2. new = RemoveAt(items, i)
    BY <1>1, <1>3 DEF DelItem, RemoveFirstMatch, Keys, Index
  <2> HIDE DEF i, new
  <2>3. /\ new \in Seq(Elem) /\ DOMAIN new = 1..(Len(items) - 1)
        /\ \A n \in DOMAIN new : new[n] = items[old(n)]
    <3>1. items \in Seq(Elem) /\ i \in DOMAIN items
      BY <1>1, <2>1
    <3>2. /\ new \in Seq(Elem) /\ Len(new) = Len(items) - 1
          /\ \A n \in DOMAIN new : new[n] = items[IF n < i THEN n ELSE n + 1]
      BY <2>2, <3>1, RemoveAtIs
    <3>3. DOMAIN new = 1..(Len(items) - 1)
      BY <3>2
    <3> QED
      BY <3>2, <3>3
  <2>4. \A n \in DOMAIN new : old(n) \in DOMAIN items /\ old(n) # i
    BY <1>1, <2>1, <2>3
  <2>5. \A m, n \in DOMAIN new : old(m) = old(n) => m = n
    BY <1>1, <2>1, <2>3
  <2>6. ASSUME NEW m \in DOMAIN items, m # i PROVE \E n \in DOMAIN new : old(n) = m
    <3>1. CASE m < i
      <4>1. m \in DOMAIN new /\ old(m) = m
        BY <1>1, <2>1, <2>3, <3>1
      <4> QED
        BY <4>1
    <3>2. CASE ~(m < i)
      <4>1. m - 1 \in DOMAIN new /\ old(m - 1) = m
        BY <1>1, <2>1, <2>3, <2>6, <3>2
      <4> QED
        BY <4>1
    <3> QED
      BY <3>1, <3>2
  <2> HIDE DEF old
  <2>7. new \in UniqueList(Elem)
    <3>1. ASSUME NEW m \in DOMAIN new, NEW n \in DOMAIN new, new[m].key = new[n].key PROVE m = n
      <4>1. items[old(m)].key = items[old(n)].key
        BY <2>3, <3>1
      <4>2. old(m) = old(n)
        BY <1>1, <2>4, <4>1
      <4> QED
        BY <2>5, <4>2
    <3> QED
      BY <2>3, <3>1 DEF UniqueList, Unique
  <2>8. \A n \in DOMAIN new : new[n].key # key
    BY <1>1, <2>1, <2>3, <2>4
  <2>9. \A m \in DOMAIN new : \E n \in DOMAIN items : new[m] = items[n]
    BY <2>3, <2>4
  <2>10. \A n \in DOMAIN items : items[n].key \in {key} \/ \E m \in DOMAIN new : new[m] = items[n]
    BY <2>1, <2>3, <2>6
  <2>11. SameBut(new, items, {key})
    BY <2>7, <2>9, <2>10, SameItems
  <2>12. key \notin Keys(new)
    BY <2>8 DEF Keys
  <2> QED
    BY <2>7, <2>11, <2>12 DEF new
<1> QED
  BY <1>2, <1>3

ChangeOf(K, V) == [key : K, val : V \cup {None}]

LEMMA ApplyIs ==
  ASSUME NEW K, NEW V, NEW items \in UniqueList(ItemIn(K, V)), NEW e \in ChangeOf(K, V)
  PROVE  /\ Apply(items, e) \in UniqueList(ItemIn(K, V))
         /\ Val(Apply(items, e), e.key) = e.val
         /\ e.val # None => e.key \in Keys(Apply(items, e))
         /\ SameBut(Apply(items, e), items, {e.key})
<1>1. e.key \in K /\ e.val \in V \cup {None}
  BY DEF ChangeOf
<1>2. CASE e.val = None
  <2>1. Apply(items, e) = DelItem(items, e.key)
    BY <1>2 DEF Apply
  <2>2. /\ DelItem(items, e.key) \in UniqueList(ItemIn(K, V))
        /\ e.key \notin Keys(DelItem(items, e.key))
        /\ SameBut(DelItem(items, e.key), items, {e.key})
    BY DelItemIs
  <2> QED
    BY <1>2, <2>1, <2>2 DEF Val
<1>3. CASE e.val # None
  <2>1. Apply(items, e) = SetItem(items, e.key, e.val)
    BY <1>3 DEF Apply
  <2> DEFINE key == e.key
             val == e.val
             new == SetItem(items, key, val)
  <2>2. key \in K /\ val \in V
    BY <1>1, <1>3
  <2> HIDE DEF key, val
  <2>3. /\ new \in UniqueList(ItemIn(K, V)) /\ key \in Keys(new) /\ Val(new, key) = val
        /\ SameBut(new, items, {key})
    BY <2>2, SetItemIs
  <2> QED
    BY <2>1, <2>3 DEF key, val
<1> QED
  BY <1>2, <1>3
LEMMA SameButTwice ==
  ASSUME NEW a, NEW b, NEW c, NEW ab, NEW bc, SameBut(b, a, ab), SameBut(c, b, bc)
  PROVE  SameBut(c, a, ab \cup bc)
BY DEF SameBut

\* The lists a series of edits goes through.
EditsTo(edited, items, edits, Elem) ==
  /\ edited \in [0..Len(edits) -> UniqueList(Elem)]
  /\ Edit(items, edits) = edited[Len(edits)]
  /\ edited[0] = items
  /\ \A n \in 1..Len(edits) : edited[n] = Apply(edited[n - 1], edits[n])

LEMMA EditDef ==
  ASSUME NEW K, NEW V, NEW items \in UniqueList(ItemIn(K, V)), NEW edits \in Seq(ChangeOf(K, V))
  PROVE  \E edited : EditsTo(edited, items, edits, ItemIn(K, V))
<1> DEFINE len == Len(edits)
           L == UniqueList(ItemIn(K, V))
           Step(x, n) == Apply(x, edits[n])
           F == [p \in L \X (1..len) |-> Step(p[1], p[2])]
           Eq(k) == k = [n \in 0..Len(edits) |-> IF n = 0 THEN items ELSE Apply(k[n - 1], edits[n])]
<1>1. len \in Nat /\ (\A n \in 1..len : edits[n] \in ChangeOf(K, V)) /\ items \in L
  OBVIOUS
<1>2. ASSUME NEW x \in L, NEW n \in 1..len PROVE Step(x, n) \in L
  <2>1. edits[n] \in ChangeOf(K, V)
    BY <1>1
  <2> QED
    BY <2>1, ApplyIs
<1> HIDE DEF len, L, Step
<1>3. F \in [L \X (1..len) -> L] /\ \A x \in L, n \in 1..len : F[<<x, n>>] = Step(x, n)
  <2>1. ASSUME NEW p \in L \X (1..len) PROVE Step(p[1], p[2]) \in L
    BY <1>2
  <2>2. ASSUME NEW x \in L, NEW n \in 1..len PROVE F[<<x, n>>] = Step(x, n)
    <3> DEFINE p == <<x, n>>
    <3>1. p \in L \X (1..len) /\ p[1] = x /\ p[2] = n
      OBVIOUS
    <3> HIDE DEF p
    <3>2. F[p] = Step(p[1], p[2])
      BY <3>1
    <3> QED
      BY <3>1, <3>2 DEF p
  <2> QED
    BY <2>1, <2>2
<1> HIDE DEF F
<1>4. \E g : Iterates(g, L, items, len, F)
  BY <1>1, <1>3, Iteration
<1>5. PICK g : Iterates(g, L, items, len, F)
  BY <1>4
<1>6. g \in [0..len -> L] /\ g[0] = items /\ \A n \in 1..len : g[n] = F[<<g[n - 1], n>>]
  BY <1>5 DEF Iterates
<1>7. ASSUME NEW n \in 1..len PROVE g[n] = Step(g[n - 1], n)
  <2>1. n - 1 \in 0..len
    BY <1>1
  <2>2. g[n - 1] \in L
    BY <1>6, <2>1
  <2> QED
    BY <1>3, <1>6, <2>2
<1>8. ASSUME NEW n \in 0..len
      PROVE  g[n] = IF n = 0 THEN items ELSE Apply(g[n - 1], edits[n])
  BY <1>1, <1>6, <1>7 DEF Step
<1>9. g = [n \in 0..len |-> g[n]]
  BY <1>6
<1>10. Eq(g)
  BY <1>8, <1>9 DEF len
<1>11. PICK edited : Eq(edited) /\ Edit(items, edits) = edited[Len(edits)]
  BY <1>10 DEF Edit
<1>12. \A n \in 0..len : edited[n] = IF n = 0 THEN items ELSE Apply(edited[n - 1], edits[n])
  BY <1>11 DEF len
<1>13. edited[0] = items /\ \A n \in 1..len : edited[n] = Step(edited[n - 1], n)
  BY <1>1, <1>12 DEF Step
<1> DEFINE T == {n \in Nat : n <= len => edited[n] \in L}
<1>14. 0 \in T
  BY <1>1, <1>13
<1>15. ASSUME NEW n \in Nat, n \in T PROVE n + 1 \in T
  <2> SUFFICES ASSUME n + 1 <= len PROVE edited[n + 1] \in L
    OBVIOUS
  <2>1. edited[n] \in L /\ n + 1 \in 1..len /\ (n + 1) - 1 = n
    BY <1>1, <1>15
  <2> HIDE DEF T
  <2>2. edited[n + 1] = Step(edited[n], n + 1)
    BY <1>13, <2>1
  <2> QED
    BY <1>2, <2>1, <2>2
<1> HIDE DEF T
<1>16. \A n \in 0..len : edited[n] \in L
  <2>1. Nat \subseteq T
    BY <1>14, <1>15, Induction
  <2> QED
    BY <1>1, <2>1 DEF T
<1>17. edited = [n \in 0..len |-> edited[n]]
  BY <1>11 DEF len
<1>18. edited \in [0..len -> L]
  BY <1>16, <1>17
<1> QED
  BY <1>11, <1>13, <1>18 DEF EditsTo, len, L, Step

\* Edits of different keys: each has its effect, and nothing else changes.
LEMMA EditIs ==
  ASSUME NEW K, NEW V, NEW items \in UniqueList(ItemIn(K, V)), NEW edits \in Seq(ChangeOf(K, V)),
         \A m, n \in DOMAIN edits : edits[m].key = edits[n].key => m = n
  PROVE  /\ Edit(items, edits) \in UniqueList(ItemIn(K, V))
         /\ \A n \in DOMAIN edits :
              /\ Val(Edit(items, edits), edits[n].key) = edits[n].val
              /\ edits[n].val # None => edits[n].key \in Keys(Edit(items, edits))
         /\ SameBut(Edit(items, edits), items, Keys(edits))
<1> DEFINE len == Len(edits)
           L == UniqueList(ItemIn(K, V))
           KeysTo(n) == {edits[m].key : m \in 1..n}
           Done(list, n) ==
             /\ \A m \in 1..n : /\ Val(list, edits[m].key) = edits[m].val
                                /\ edits[m].val # None => edits[m].key \in Keys(list)
             /\ SameBut(list, items, KeysTo(n))
<1>1. PICK edited : EditsTo(edited, items, edits, ItemIn(K, V))
  BY EditDef
<1>2. /\ edited \in [0..len -> L]
      /\ Edit(items, edits) = edited[len]
      /\ edited[0] = items
      /\ \A n \in 1..len : edited[n] = Apply(edited[n - 1], edits[n])
  BY <1>1 DEF EditsTo
<1>3. len \in Nat /\ DOMAIN edits = 1..len /\ \A n \in 1..len : edits[n] \in ChangeOf(K, V)
  OBVIOUS
<1> HIDE DEF len, L
<1> DEFINE T == {n \in Nat : n <= len => Done(edited[n], n)}
<1>4. 0 \in T
  <2>1. 1..0 = {}
    OBVIOUS
  <2> QED
    BY <1>2, <2>1 DEF SameBut
<1>5. ASSUME NEW n \in Nat, n \in T PROVE n + 1 \in T
  <2> SUFFICES ASSUME n + 1 <= len PROVE Done(edited[n + 1], n + 1)
    OBVIOUS
  <2> DEFINE old == edited[n]
             new == edited[n + 1]
             e == edits[n + 1]
  <2>1. Done(old, n) /\ n + 1 \in 1..len /\ n \in 0..len /\ (n + 1) - 1 = n
    BY <1>3, <1>5
  <2>2. old \in L /\ new = Apply(old, e) /\ e \in ChangeOf(K, V)
    BY <1>2, <1>3, <2>1
  <2> HIDE DEF old, new, T
  <2>3. /\ Val(new, e.key) = e.val
        /\ e.val # None => e.key \in Keys(new)
        /\ SameBut(new, old, {e.key})
    <3> HIDE DEF e
    <3> QED
      BY <2>2, ApplyIs DEF L
  <2>4. SameBut(new, items, KeysTo(n) \cup {e.key})
    BY <2>1, <2>3, SameButTwice
  <2>5. KeysTo(n) \cup {e.key} = KeysTo(n + 1)
    <3>1. 1..(n + 1) = 1..n \cup {n + 1}
      OBVIOUS
    <3> QED
      BY <3>1
  <2>6. ASSUME NEW m \in 1..(n + 1)
        PROVE  /\ Val(new, edits[m].key) = edits[m].val
               /\ edits[m].val # None => edits[m].key \in Keys(new)
    <3>1. CASE m = n + 1
      BY <2>3, <3>1
    <3>2. CASE m # n + 1
      <4>1. m \in 1..n /\ m \in DOMAIN edits /\ n + 1 \in DOMAIN edits
        BY <1>3, <2>1, <3>2
      <4>2. edits[m].key # e.key
        BY <3>2, <4>1
      <4> QED
        BY <2>1, <2>3, <4>1, <4>2 DEF SameBut
    <3> QED
      BY <3>1, <3>2
  <2> QED
    BY <2>4, <2>5, <2>6 DEF new
<1> HIDE DEF T
<1>6. Done(edited[len], len)
  <2>1. len \in T
    BY <1>3, <1>4, <1>5, Induction
  <2> QED
    BY <1>3, <2>1 DEF T
<1>7. edited[len] \in L
  BY <1>2, <1>3
<1>8. KeysTo(len) = Keys(edits)
  BY <1>3 DEF Keys
<1> QED
  BY <1>2, <1>3, <1>6, <1>7, <1>8 DEF L
-----------------------------------------------------------------------------
(* The sublist of routes. *)

RouteKeys == {RouteKey(n) : n \in Nat}
ListOk(items) == ListKey \in Keys(items) => Val(items, ListKey) \in Seq(Nat)

LEMMA SubListSetIs ==
  ASSUME NEW V, NEW list \in Seq(V), NEW val \in V
  PROVE  SubListSet(list, val) \in Seq(V) /\ Range(SubListSet(list, val)) = Range(list) \cup {val}
<1> DEFINE less == RemoveFirst(list, val)
<1>1. Len(list) \in Nat /\ DOMAIN list = 1..Len(list)
  OBVIOUS
<1>2. less \in Seq(V) /\ Range(less) \subseteq Range(list) /\ Range(list) \subseteq Range(less) \cup {val}
  <2>1. CASE \A i \in 1..Len(list) : list[i] # val
    BY <2>1 DEF RemoveFirst
  <2>2. CASE \E i \in 1..Len(list) : list[i] = val
    <3> DEFINE I == {i \in 1..Len(list) : list[i] = val}
               at1 == Min(I)
    <3>1. I \subseteq Nat /\ I # {}
      BY <1>1, <2>2
    <3>2. \E n \in I : \A m \in I : n <= m
      BY <3>1, Least
    <3>3. at1 \in I
      BY <3>2 DEF Min
    <3>4. less = RemoveAt(list, at1)
      BY <2>2, <3>1 DEF RemoveFirst, SelectInSeq
    <3>5. at1 \in DOMAIN list /\ list[at1] = val
      BY <1>1, <3>3
    <3> HIDE DEF I, at1, less
    <3>6. /\ less \in Seq(V) /\ Len(less) = Len(list) - 1
          /\ \A n \in DOMAIN less : less[n] = list[IF n < at1 THEN n ELSE n + 1]
      BY <3>4, <3>5, RemoveAtIs
    <3>7. DOMAIN less = 1..(Len(list) - 1)
      BY <3>6
    <3>8. \A n \in DOMAIN less : (IF n < at1 THEN n ELSE n + 1) \in DOMAIN list
      BY <1>1, <3>5, <3>7
    <3>9. Range(less) \subseteq Range(list)
      BY <3>6, <3>8 DEF Range
    <3>10. ASSUME NEW m \in DOMAIN list PROVE list[m] \in Range(less) \cup {val}
      <4>1. CASE m = at1
        BY <3>5, <4>1
      <4>2. CASE m < at1
        <5>1. m \in DOMAIN less /\ less[m] = list[m]
          BY <1>1, <3>5, <3>6, <3>7, <4>2
        <5> QED
          BY <5>1 DEF Range
      <4>3. CASE m > at1
        <5>1. m - 1 \in DOMAIN less /\ ~(m - 1 < at1) /\ (m - 1) + 1 = m
          BY <1>1, <3>5, <3>7, <4>3
        <5>2. less[m - 1] = list[m]
          BY <3>6, <5>1
        <5> QED
          BY <5>1, <5>2 DEF Range
      <4> QED
        BY <1>1, <3>5, <4>1, <4>2, <4>3
    <3>11. Range(list) \subseteq Range(less) \cup {val}
      BY <3>10 DEF Range
    <3> QED
      BY <3>6, <3>9, <3>11
  <2> QED
    BY <2>1, <2>2
<1> DEFINE new == Append(less, val)
<1> HIDE DEF less
<1>3. /\ new \in Seq(V) /\ Len(less) \in Nat /\ DOMAIN less = 1..Len(less)
      /\ DOMAIN new = 1..(Len(less) + 1) /\ new[Len(less) + 1] = val
      /\ \A n \in DOMAIN less : new[n] = less[n]
  BY <1>2
<1> HIDE DEF new
<1>4. Len(less) + 1 \in DOMAIN new /\ \A n \in DOMAIN less : n \in DOMAIN new
  BY <1>3
<1>5. \A n \in DOMAIN new : n \in DOMAIN less \/ n = Len(less) + 1
  BY <1>3
<1>6. Range(new) = Range(less) \cup {val}
  <2>1. \A n \in DOMAIN new : new[n] \in Range(less) \cup {val}
    BY <1>3, <1>5 DEF Range
  <2>2. \A n \in DOMAIN less : less[n] \in Range(new)
    BY <1>3, <1>4 DEF Range
  <2>3. val \in Range(new)
    BY <1>3, <1>4 DEF Range
  <2> QED
    BY <2>1, <2>2, <2>3 DEF Range
<1> QED
  BY <1>2, <1>3, <1>6 DEF SubListSet, new, less

LEMMA SetAllIs ==
  ASSUME NEW V, NEW list \in Seq(V), NEW vals \in Seq(V)
  PROVE  SubListSetAll(list, vals) \in Seq(V) /\ Range(vals) \subseteq Range(SubListSetAll(list, vals))
<1> DEFINE len == Len(vals)
           L == Seq(V)
           Step(x, n) == SubListSet(x, vals[n])
           F == [p \in L \X (1..len) |-> Step(p[1], p[2])]
           Eq(k) == k = [n \in 0..Len(vals) |-> IF n = 0 THEN list ELSE SubListSet(k[n - 1], vals[n])]
<1>1. len \in Nat /\ DOMAIN vals = 1..len /\ (\A n \in 1..len : vals[n] \in V) /\ list \in L
  OBVIOUS
<1>2. ASSUME NEW x \in L, NEW n \in 1..len
      PROVE  Step(x, n) \in L /\ Range(Step(x, n)) = Range(x) \cup {vals[n]}
  <2>1. vals[n] \in V
    BY <1>1
  <2> QED
    BY <2>1, SubListSetIs
<1> HIDE DEF len, L, Step
<1>3. F \in [L \X (1..len) -> L] /\ \A x \in L, n \in 1..len : F[<<x, n>>] = Step(x, n)
  <2>1. ASSUME NEW p \in L \X (1..len) PROVE Step(p[1], p[2]) \in L
    BY <1>2
  <2>2. ASSUME NEW x \in L, NEW n \in 1..len PROVE F[<<x, n>>] = Step(x, n)
    <3> DEFINE p == <<x, n>>
    <3>1. p \in L \X (1..len) /\ p[1] = x /\ p[2] = n
      OBVIOUS
    <3> HIDE DEF p
    <3>2. F[p] = Step(p[1], p[2])
      BY <3>1
    <3> QED
      BY <3>1, <3>2 DEF p
  <2> QED
    BY <2>1, <2>2
<1> HIDE DEF F
<1>4. \E g : Iterates(g, L, list, len, F)
  BY <1>1, <1>3, Iteration
<1>5. PICK g : Iterates(g, L, list, len, F)
  BY <1>4
<1>6. g \in [0..len -> L] /\ g[0] = list /\ \A n \in 1..len : g[n] = F[<<g[n - 1], n>>]
  BY <1>5 DEF Iterates
<1>7. ASSUME NEW n \in 1..len PROVE g[n] = Step(g[n - 1], n)
  <2>1. n - 1 \in 0..len
    BY <1>1
  <2>2. g[n - 1] \in L
    BY <1>6, <2>1
  <2> QED
    BY <1>3, <1>6, <2>2
<1>8. ASSUME NEW n \in 0..len
      PROVE  g[n] = IF n = 0 THEN list ELSE SubListSet(g[n - 1], vals[n])
  BY <1>1, <1>6, <1>7 DEF Step
<1>9. g = [n \in 0..len |-> g[n]]
  BY <1>6
<1>10. Eq(g)
  BY <1>8, <1>9 DEF len
<1>11. PICK set : Eq(set) /\ SubListSetAll(list, vals) = set[Len(vals)]
  BY <1>10 DEF SubListSetAll
<1>12. \A n \in 0..len : set[n] = IF n = 0 THEN list ELSE SubListSet(set[n - 1], vals[n])
  BY <1>11 DEF len
<1>13. set[0] = list /\ \A n \in 1..len : set[n] = Step(set[n - 1], n)
  BY <1>1, <1>12 DEF Step
<1> DEFINE T == {n \in Nat : n <= len => set[n] \in L /\ \A m \in 1..n : vals[m] \in Range(set[n])}
<1>14. 0 \in T
  <2>1. 1..0 = {}
    OBVIOUS
  <2> QED
    BY <1>1, <1>13, <2>1
<1>15. ASSUME NEW n \in Nat, n \in T PROVE n + 1 \in T
  <2> SUFFICES ASSUME n + 1 <= len
               PROVE  set[n + 1] \in L /\ \A m \in 1..(n + 1) : vals[m] \in Range(set[n + 1])
    OBVIOUS
  <2>1. /\ set[n] \in L /\ \A m \in 1..n : vals[m] \in Range(set[n])
        /\ n + 1 \in 1..len /\ (n + 1) - 1 = n
    BY <1>1, <1>15
  <2> HIDE DEF T
  <2>2. set[n + 1] = Step(set[n], n + 1)
    BY <1>13, <2>1
  <2>3. set[n + 1] \in L /\ Range(set[n + 1]) = Range(set[n]) \cup {vals[n + 1]}
    BY <1>2, <2>1, <2>2
  <2>4. \A m \in 1..(n + 1) : m \in 1..n \/ m = n + 1
    OBVIOUS
  <2> QED
    BY <2>1, <2>3, <2>4
<1> HIDE DEF T
<1>16. len \in T
  BY <1>1, <1>14, <1>15, Induction
<1>17. set[len] \in L /\ \A m \in 1..len : vals[m] \in Range(set[len])
  BY <1>1, <1>16 DEF T
<1>18. Range(vals) \subseteq Range(set[len])
  <2>1. ASSUME NEW v \in Range(vals) PROVE v \in Range(set[len])
    <3>1. PICK m \in DOMAIN vals : v = vals[m]
      BY DEF Range
    <3> QED
      BY <1>1, <1>17, <3>1
  <2> QED
    BY <2>1
<1> QED
  BY <1>11, <1>17, <1>18 DEF len, L
LEMMA CleanedIs ==
  ASSUME NEW Elem, NEW items \in UniqueList(Elem)
  PROVE  /\ Cleaned(items) \in UniqueList(Elem)
         /\ SameBut(Cleaned(items), items, {k \in Keys(items) : k[1] = "route"})
<1> DEFINE routes == {k \in Keys(items) : k[1] = "route"}
           places == {n \in DOMAIN items : items[n].key[1] # "route"}
           new == Kept(items, places)
<1>1. CASE ~Loads(items)
  BY <1>1 DEF Cleaned, SameBut
<1>2. CASE Loads(items)
  <2>1. /\ items \in Seq(Elem)
        /\ \A m, n \in places : items[m].key = items[n].key => m = n
    BY DEF UniqueList, Unique
  <2>2. places \subseteq DOMAIN items
    OBVIOUS
  <2> HIDE DEF places
  <2>3. /\ new \in UniqueList(Elem)
        /\ \A i \in DOMAIN new : \E m \in places : new[i] = items[m]
        /\ \A m \in places : \E i \in DOMAIN new : new[i] = items[m]
    BY <2>1, <2>2, KeptIs
  <2> HIDE DEF new
  <2>4. \A m \in DOMAIN new : \E n \in DOMAIN items : new[m] = items[n]
    BY <2>2, <2>3
  <2>5. \A n \in DOMAIN items : items[n].key \in routes \/ \E m \in DOMAIN new : new[m] = items[n]
    BY <2>3 DEF places, Keys
  <2> HIDE DEF routes
  <2>6. SameBut(new, items, routes)
    BY <2>3, <2>4, <2>5, SameItems
  <2> QED
    BY <1>2, <2>3, <2>6 DEF Cleaned, routes, new, places
<1> QED
  BY <1>1, <1>2

LEMMA ValueType ==
  ASSUME NEW K, NEW V, NEW items \in UniqueList(ItemIn(K, V)), NEW k \in Keys(items)
  PROVE  Val(items, k) \in V /\ GetItem(items, k).val = Val(items, k)
<1>1. items \in Seq(ItemIn(K, V))
  BY DEF UniqueList
<1>2. Index(items, k) \in DOMAIN items
  BY <1>1, IndexIs
<1>3. items[Index(items, k)] \in ItemIn(K, V)
  BY <1>1, <1>2
<1>4. items[Index(items, k)].val \in V
  BY <1>3 DEF ItemIn
<1> QED
  BY <1>4 DEF Val, GetItem

LEMMA SubListType ==
  ASSUME NEW K, NEW V, NEW items \in UniqueList(ItemIn(K, V)), ListOk(items)
  PROVE  SubList(items) \in Seq(V)
<1>1. CASE ~Loads(items)
  BY <1>1 DEF SubList
<1>2. CASE Loads(items)
  <2> DEFINE names == GetItem(items, ListKey).val
             list == [n \in DOMAIN names |-> GetItem(items, RouteKey(names[n])).val]
  <2>1. ListKey \in Keys(items) /\ \A n \in Range(names) : RouteKey(n) \in Keys(items)
    BY <1>2 DEF Loads
  <2>2. names \in Seq(Nat)
    BY <2>1, ValueType DEF ListOk
  <2> HIDE DEF names
  <2>3. ASSUME NEW n \in DOMAIN names PROVE list[n] \in V
    <3>1. RouteKey(names[n]) \in Keys(items)
      BY <2>1 DEF Range
    <3>2. GetItem(items, RouteKey(names[n])).val \in V
      BY <3>1, ValueType
    <3> QED
      BY <3>2
  <2>4. DOMAIN names = 1..Len(names) /\ Len(names) \in Nat
    BY <2>2
  <2>5. list \in Seq(V)
    <3>1. DOMAIN list = 1..Len(names) /\ list = [n \in 1..Len(names) |-> list[n]]
      BY <2>4
    <3> HIDE DEF list
    <3> QED
      BY <2>3, <2>4, <3>1
  <2> QED
    BY <1>2, <2>5 DEF SubList, names
<1> QED
  BY <1>1, <1>2

LEMMA RouteKeysDiffer ==
  /\ \A m, n \in Nat : RouteKey(m) = RouteKey(n) => m = n
  /\ ListKey \notin RouteKeys
  /\ \A k \in RouteKeys : k[1] = "route"
<1>1. \A m, n \in Nat : RouteKey(m) = RouteKey(n) => m = n
  BY DEF RouteKey
<1>2. ListKey[1] = "static_routes"
  BY DEF ListKey
<1>3. \A k \in RouteKeys : k[1] = "route"
  BY DEF RouteKeys, RouteKey
<1> QED
  BY <1>1, <1>2, <1>3

\* Keys and values among which a sublist can be stored.
HoldRoutes(K, V) == RouteKeys \subseteq K /\ ListKey \in K /\ Seq(Nat) \subseteq V /\ None \notin V

LEMMA MinOfTwo ==
  ASSUME NEW m \in Nat, NEW n \in Nat
  PROVE  Min({m, n}) \in Nat /\ Min({m, n}) <= m /\ (m <= n => Min({m, n}) = m)
<1>1. {m, n} \subseteq Nat /\ {m, n} # {}
  OBVIOUS
<1>2. \E k \in {m, n} : \A l \in {m, n} : k <= l
  BY <1>1, Least
<1>3. Min({m, n}) \in {m, n} /\ \A l \in {m, n} : Min({m, n}) <= l
  BY <1>2 DEF Min
<1> QED
  BY <1>3

\* What is saved of a list is the list, if it fits, and no other key is touched.
LEMMA SubListSaveIs ==
  ASSUME NEW K, NEW V, HoldRoutes(K, V),
         NEW items \in UniqueList(ItemIn(K, V)), ListOk(items), NEW list \in Seq(V)
  PROVE  /\ SubListSave(items, list) \in UniqueList(ItemIn(K, V))
         /\ ListOk(SubListSave(items, list))
         /\ SameBut(SubListSave(items, list), items, RouteKeys \cup {ListKey})
         /\ Len(list) <= MAX_ROUTES => SubList(SubListSave(items, list)) = list
<1> DEFINE fits == Min({Len(list), MAX_ROUTES})
           edits == [n \in 1..fits |-> Item(RouteKey(n - 1), list[n])]
           after == Edit(items, edits)
           names == [n \in DOMAIN list |-> n - 1]
           new == SetItem(after, ListKey, names)
<1>1. Len(list) \in Nat /\ DOMAIN list = 1..Len(list) /\ \A n \in DOMAIN list : list[n] \in V
  OBVIOUS
<1>2. fits \in Nat /\ fits <= Len(list) /\ (Len(list) <= MAX_ROUTES => fits = Len(list))
  BY <1>1, MaxRoutesAssumption, MinOfTwo
<1> HIDE DEF fits
<1> DEFINE len == Len(list)
<1>3. len \in Nat /\ fits <= len /\ DOMAIN list = 1..len
  BY <1>1, <1>2
<1> HIDE DEF len
<1>4. \A n \in 1..fits : n \in 1..len /\ n - 1 \in Nat
  BY <1>2, <1>3
<1>5. \A n \in 1..len : n - 1 \in Nat /\ (fits = len => n \in 1..fits)
  BY <1>3
<1>6. ASSUME NEW n \in 1..fits
      PROVE  /\ edits[n] \in ChangeOf(K, V) /\ edits[n].key = RouteKey(n - 1)
             /\ edits[n].val = list[n] /\ edits[n].val # None
  <2>1. n - 1 \in Nat /\ n \in DOMAIN list
    BY <1>3, <1>4
  <2>2. RouteKey(n - 1) \in K /\ list[n] \in V
    BY <1>1, <2>1 DEF RouteKeys, HoldRoutes
  <2>3. list[n] # None
    BY <2>2 DEF HoldRoutes
  <2> QED
    BY <2>2, <2>3 DEF Item, ChangeOf
<1>7. edits \in Seq(ChangeOf(K, V)) /\ DOMAIN edits = 1..fits
  <2>1. edits = [n \in 1..fits |-> edits[n]]
    OBVIOUS
  <2> HIDE DEF edits
  <2> QED
    BY <1>2, <1>6, <2>1
<1> HIDE DEF edits
<1>8. ASSUME NEW m \in DOMAIN edits, NEW n \in DOMAIN edits, edits[m].key = edits[n].key PROVE m = n
  <2>1. RouteKey(m - 1) = RouteKey(n - 1) /\ m - 1 \in Nat /\ n - 1 \in Nat
    BY <1>2, <1>6, <1>7, <1>8
  <2>2. m - 1 = n - 1
    BY <2>1, RouteKeysDiffer
  <2> QED
    BY <1>2, <1>7, <2>2
<1>9. /\ after \in UniqueList(ItemIn(K, V))
      /\ \A n \in DOMAIN edits : /\ Val(after, edits[n].key) = edits[n].val
                                 /\ edits[n].val # None => edits[n].key \in Keys(after)
      /\ SameBut(after, items, Keys(edits))
  BY <1>7, <1>8, EditIs
<1>10. Keys(edits) \subseteq RouteKeys
  <2>1. \A n \in 1..fits : n - 1 \in Nat
    BY <1>2
  <2> QED
    BY <1>6, <1>7, <2>1 DEF Keys, RouteKeys
<1> HIDE DEF after
<1>11. SameBut(after, items, RouteKeys)
  BY <1>9, <1>10 DEF SameBut
<1>12. CASE Len(list) > MAX_ROUTES
  <2>1. SubListSave(items, list) = after
    BY <1>12 DEF SubListSave, after, edits, fits
  <2>2. ListOk(after)
    BY <1>11, RouteKeysDiffer DEF SameBut, ListOk
  <2>3. SameBut(after, items, RouteKeys \cup {ListKey})
    BY <1>11 DEF SameBut
  <2>4. ~(Len(list) <= MAX_ROUTES)
    BY <1>1, <1>12, MaxRoutesAssumption
  <2> QED
    BY <1>9, <2>1, <2>2, <2>3, <2>4
<1>13. CASE ~(Len(list) > MAX_ROUTES)
  <2>1. SubListSave(items, list) = new
    BY <1>13 DEF SubListSave, after, edits, fits
  <2>2. fits = len
    <3>1. Len(list) <= MAX_ROUTES
      BY <1>1, <1>13, MaxRoutesAssumption
    <3> QED
      BY <1>2, <3>1 DEF len
  <2>3. names \in Seq(Nat) /\ DOMAIN names = DOMAIN list /\ \A n \in DOMAIN list : names[n] = n - 1
    BY <1>1
  <2> HIDE DEF names
  <2>4. names \in V /\ ListKey \in K
    BY <2>3 DEF HoldRoutes
  <2>5. /\ new \in UniqueList(ItemIn(K, V))
        /\ ListKey \in Keys(new) /\ Val(new, ListKey) = names
        /\ SameBut(new, after, {ListKey})
    BY <1>9, <2>4, SetItemIs
  <2> HIDE DEF new
  <2>6. SameBut(new, items, RouteKeys \cup {ListKey})
    BY <1>11, <2>5, SameButTwice
  <2>7. ListOk(new)
    BY <2>3, <2>5 DEF ListOk
  <2>8. ASSUME NEW n \in DOMAIN list
        PROVE  RouteKey(names[n]) \in Keys(new) /\ Val(new, RouteKey(names[n])) = list[n]
    <3>1. n \in 1..fits /\ n - 1 \in Nat
      BY <1>3, <1>5, <2>2
    <3>2. RouteKey(n - 1) \in Keys(after) /\ Val(after, RouteKey(n - 1)) = list[n]
      BY <1>6, <1>7, <1>9, <3>1
    <3>3. RouteKey(n - 1) # ListKey
      BY <3>1, RouteKeysDiffer DEF RouteKeys
    <3> QED
      BY <2>3, <2>5, <3>2, <3>3 DEF SameBut
  <2>9. GetItem(new, ListKey).val = names
    BY <2>5, ValueType
  <2>10. Loads(new)
    <3>1. \A n \in Range(names) : RouteKey(n) \in Keys(new)
      BY <2>3, <2>8 DEF Range
    <3> QED
      BY <2>5, <2>9, <3>1 DEF Loads
  <2>11. SubList(new) = [n \in DOMAIN names |-> GetItem(new, RouteKey(names[n])).val]
    BY <2>9, <2>10 DEF SubList
  <2>12. \A n \in DOMAIN names : GetItem(new, RouteKey(names[n])).val = list[n]
    BY <2>3, <2>5, <2>8, ValueType
  <2>13. list = [n \in DOMAIN list |-> list[n]]
    OBVIOUS
  <2>14. SubList(new) = list
    BY <2>3, <2>11, <2>12, <2>13
  <2> QED
    BY <2>1, <2>5, <2>6, <2>7, <2>14
<1> QED
  BY <1>12, <1>13
-----------------------------------------------------------------------------
(* The requests and the files. *)

LEMMA KindsAre ==
  Range(all_flags) = {"dhcp", "ip", "gateway", "search", "dns", "route", "hostname"}
BY DEF Range, all_flags

LEMMA RequestType ==
  ASSUME NEW req \in Requests
  PROVE  /\ req.kind \in {"dhcp", "ip", "gateway", "search", "dns", "route", "hostname"}
         /\ req.value \in Seq(Word) /\ 1 \in DOMAIN req.value
         /\ req.kind \notin {"search", "hostname"} => req.dev \in Dev
         /\ req.kind = "dhcp" => Words(req) \subseteq Family
<1>1. /\ req \in [kind : Range(all_flags), dev : Dev \cup {None}, value : Seq(Word) \ {<<>>}]
      /\ req.kind \notin {"search", "hostname"} => req.dev \in Dev
      /\ req.kind = "dhcp" => Words(req) \subseteq Family
  BY RequestsAssumption
<1>2. req.value \in Seq(Word) /\ req.value # <<>> /\ req.kind \in Range(all_flags)
  BY <1>1
<1>3. 1 \in DOMAIN req.value
  BY <1>2
<1> QED
  BY <1>1, <1>2, <1>3, KindsAre

LEMMA WordIsOfKind ==
  ASSUME NEW req \in Requests, NEW n \in DOMAIN req.value
  PROVE  req.value[n] \in WordsOf({req.kind}) /\ req.value[n] \in Words(req)
BY DEF WordsOf, RequestsOf, Words, Range

RcList == UniqueList(ItemIn(RcKey, RcValue))

LEMMA RcItemIs == RcItem = ItemIn(RcKey, RcValue)
BY DEF RcItem, ItemIn

LEMMA SettingIs == \A key : Setting(key) = Val(Lines, key)
BY DEF Setting, Val

LEMMA ItemsType ==
  ASSUME TypeOK
  PROVE  Items \in RcList /\ ListOk(Items) /\ SameBut(Items, Lines, {})
<1>1. Lines \in Seq(ItemIn(RcKey, RcValue))
  BY RcItemIs DEF TypeOK, IsRcFile
<1>2. Items \in RcList /\ SameBut(Items, Lines, {})
  BY <1>1, LoadIs DEF Items, RcList
<1>3. ASSUME ListKey \in Keys(Lines) PROVE Val(Lines, ListKey) \in Seq(Nat)
  <2> DEFINE n == Index(Lines, ListKey)
  <2>1. n \in DOMAIN Lines /\ Lines[n].key = ListKey
    BY <1>1, <1>3, IndexIs
  <2> HIDE DEF n
  <2>2. Lines[n].val \in Seq(Nat)
    BY <2>1 DEF TypeOK, IsRcFile
  <2> QED
    BY <1>3, <2>2 DEF Val, GetItem, n
<1> QED
  BY <1>2, <1>3 DEF ListOk, SameBut

LEMMA FileOfList ==
  ASSUME NEW items \in RcList, ListOk(items)
  PROVE  IsRcFile(items) /\ items # NoFile
<1>1. items \in Seq(RcItem)
  BY RcItemIs DEF RcList, UniqueList
<1>2. ASSUME NEW n \in DOMAIN items, items[n].key = ListKey PROVE items[n].val \in Seq(Nat)
  <2>1. Val(items, items[n].key) = items[n].val /\ items[n].key \in Keys(items)
    BY ValueOf DEF RcList
  <2> QED
    BY <1>2, <2>1 DEF ListOk
<1> QED
  BY <1>1, <1>2, FilesAssumption DEF IsRcFile

LEMMA FileCut ==
  ASSUME NEW items, IsRcFile(items), NEW part \in Prefixes(items)
  PROVE  IsRcFile(part) /\ part # NoFile
<1>1. items \in Seq(RcItem)
  BY DEF IsRcFile
<1>2. PICK l \in 0..Len(items) : part = SubSeq(items, 1, l)
  BY DEF Prefixes
<1>3. part \in Seq(RcItem) /\ \A n \in DOMAIN part : n \in DOMAIN items /\ part[n] = items[n]
  BY <1>1, <1>2
<1> QED
  BY <1>3, FilesAssumption DEF IsRcFile

LEMMA RcHoldsRoutes == HoldRoutes(RcKey, RcValue)
<1>1. RouteKeys \subseteq RcKey
  <2>1. ASSUME NEW n \in Nat PROVE RouteKey(n) \in {"route"} \X Nat
    BY DEF RouteKey
  <2> QED
    BY <2>1 DEF RouteKeys, RcKey
<1>2. ListKey \in RcKey
  BY DEF RcKey
<1>3. Seq(Nat) \subseteq RcValue
  BY DEF RcValue
<1> QED
  BY <1>1, <1>2, <1>3, FilesAssumption DEF HoldRoutes

LEMMA FamilyOfType == \A word : FamilyOf(word) \in Family
BY DEF FamilyOf, Family
\* The edits of a handler are of settings, one for each.
LEMMA EditsAre ==
  ASSUME TypeOK, Saving, op.kind # "route"
  PROVE  /\ Edits \in Seq(ChangeOf(RcKey, RcValue))
         /\ \A m, n \in DOMAIN Edits : Edits[m].key = Edits[n].key => m = n
         /\ Keys(Edits) \subseteq SettingKeys
<1>1. op \in Requests /\ at \in DOMAIN op.value /\ op.kind \in {"dhcp", "ip", "gateway", "hostname"}
  BY RequestType DEF TypeOK, Saving
<1>2. SettingKeys \subseteq RcKey
  BY DEF RcKey
<1> DEFINE Change(k, v) == Item(k, v) \in ChangeOf(RcKey, RcValue)
<1>3. ASSUME NEW k \in SettingKeys, NEW v \in RcValue \cup {None} PROVE Change(k, v)
  BY <1>2, <1>3 DEF Item, ChangeOf
<1>4. HostnameKey \in SettingKeys /\ DhcpdKey \in SettingKeys
  BY DEF SettingKeys
<1>5. \A d \in Dev, f \in Family : IfconfigKey(d, f) \in SettingKeys
  BY DEF SettingKeys
<1>6. \A f \in Family : RouterKey(f) \in SettingKeys
  BY DEF SettingKeys
<1>7. 4 \in Family /\ 6 \in Family
  BY DEF Family
<1>8. op.kind \in {"dhcp", "ip"} => op.dev \in Dev
  BY <1>1, RequestType
<1>9. op.kind \in {"ip", "hostname"} => op.value \in RcValue
  <2>1. op.kind \in {"ip", "hostname"} => op.value \in {r.value : r \in RequestsOf({"ip", "hostname"})}
    BY <1>1 DEF RequestsOf
  <2> QED
    BY <2>1 DEF RcValue
<1>10. op.kind = "gateway" => Asked(op.value[at]) \in RcValue \cup {None}
  <2>1. op.kind = "gateway" => op.value[at] \in WordsOf({"gateway"})
    BY <1>1, WordIsOfKind
  <2> QED
    BY <2>1 DEF RcValue, Asked
<1>11. DHCP \in RcValue /\ Yes \in RcValue /\ \A f : ValueFor(f, op) \in RcValue \cup {None}
  BY DEF RcValue, ValueFor
<1> HIDE DEF Change
<1> DEFINE C == ChangeOf(RcKey, RcValue)
           Goal == /\ Edits \in Seq(C)
                   /\ \A m, n \in DOMAIN Edits : Edits[m].key = Edits[n].key => m = n
                   /\ Keys(Edits) \subseteq SettingKeys
           One(k, v) == Edits = <<Item(k, v)>> /\ k \in SettingKeys /\ Item(k, v) \in C
<1>12. ASSUME NEW k, NEW v, One(k, v) PROVE Goal
  <2> DEFINE e == Item(k, v)
  <2>1. Edits = <<e>> /\ e \in C /\ e.key \in SettingKeys
    BY <1>12 DEF Item
  <2> HIDE DEF e, C
  <2>2. Edits \in Seq(C) /\ DOMAIN Edits = {1} /\ Edits[1] = e
    BY <2>1
  <2> QED
    BY <2>1, <2>2 DEF Keys
<1> HIDE DEF Goal
<1>13. CASE op.kind = "ip"
  <2> DEFINE k == IfconfigKey(op.dev, 4)
             v == op.value
  <2>1. Edits = <<Item(k, v)>>
    BY <1>13 DEF Edits
  <2>2. k \in SettingKeys /\ v \in RcValue
    BY <1>5, <1>7, <1>8, <1>9, <1>13
  <2> HIDE DEF k, v
  <2>3. One(k, v)
    BY <1>3, <2>1, <2>2 DEF Change
  <2> QED
    BY <1>12, <2>3 DEF Goal
<1>14. CASE op.kind = "hostname"
  <2> DEFINE k == HostnameKey
             v == op.value
  <2>1. Edits = <<Item(k, v)>>
    BY <1>14 DEF Edits
  <2>2. k \in SettingKeys /\ v \in RcValue
    BY <1>4, <1>9, <1>14
  <2> HIDE DEF k, v
  <2>3. One(k, v)
    BY <1>3, <2>1, <2>2 DEF Change
  <2> QED
    BY <1>12, <2>3 DEF Goal
<1>15. CASE op.kind = "gateway"
  <2> DEFINE k == RouterKey(FamilyOf(op.value[at]))
             v == Asked(op.value[at])
  <2>1. Edits = <<Item(k, v)>>
    BY <1>15 DEF Edits
  <2>2. k \in SettingKeys /\ v \in RcValue \cup {None}
    BY <1>6, <1>10, <1>15, FamilyOfType
  <2> HIDE DEF k, v
  <2>3. One(k, v)
    BY <1>3, <2>1, <2>2 DEF Change
  <2> QED
    BY <1>12, <2>3 DEF Goal
<1>16. CASE op.kind = "dhcp"
  <2> DEFINE a == Item(IfconfigKey(op.dev, 4), ValueFor(4, op))
             b == Item(IfconfigKey(op.dev, 6), ValueFor(6, op))
             c == Item(DhcpdKey, Yes)
  <2>1. Edits = <<a, b, c>>
    BY <1>16 DEF Edits
  <2>2. a \in C /\ b \in C /\ c \in C
    BY <1>3, <1>4, <1>5, <1>7, <1>8, <1>11, <1>16 DEF Change
  <2>3. a.key \in SettingKeys /\ b.key \in SettingKeys /\ c.key \in SettingKeys
    BY <1>4, <1>5, <1>7, <1>8, <1>16 DEF Item
  <2>4. a.key # b.key /\ a.key # c.key /\ b.key # c.key
    BY DEF Item, IfconfigKey, DhcpdKey
  <2> HIDE DEF a, b, c, C
  <2>5. Edits \in Seq(C) /\ DOMAIN Edits = 1..3 /\ Edits[1] = a /\ Edits[2] = b /\ Edits[3] = c
    BY <2>1, <2>2
  <2>6. \A n \in DOMAIN Edits : n = 1 \/ n = 2 \/ n = 3
    BY <2>5
  <2>7. ASSUME NEW m \in DOMAIN Edits, NEW n \in DOMAIN Edits, Edits[m].key = Edits[n].key PROVE m = n
    BY <2>4, <2>5, <2>6, <2>7
  <2>8. Keys(Edits) \subseteq SettingKeys
    BY <2>3, <2>5, <2>6 DEF Keys
  <2> QED
    BY <2>5, <2>7, <2>8 DEF Goal, C
<1> QED
  BY <1>1, <1>13, <1>14, <1>15, <1>16 DEF Goal

LEMMA SettingKeysAreNoRoutes ==
  \A k \in SettingKeys : k \notin RouteKeys /\ k # ListKey /\ k[1] # "route"
<1>1. \A k \in SettingKeys : k[1] \in {"ifconfig", "defaultrouter", "hostname", "dhcpd_enable"}
  BY DEF SettingKeys, IfconfigKey, RouterKey, HostnameKey, DhcpdKey
<1>2. ListKey[1] = "static_routes"
  BY DEF ListKey
<1> QED
  BY <1>1, <1>2, RouteKeysDiffer
LEMMA RouteLinesType ==
  ASSUME NEW req \in Requests, req.kind = "route"
  PROVE  RouteLines(req) \in Seq(RcValue)
<1>1. req.value \in Seq(Word) /\ req.dev \in Dev
  BY RequestType
<1>2. DOMAIN req.value = 1..Len(req.value) /\ Len(req.value) \in Nat
  BY <1>1
<1>3. ASSUME NEW n \in DOMAIN req.value PROVE <<req.value[n], req.dev>> \in RcValue
  <2>1. req.value[n] \in WordsOf({"route"})
    BY WordIsOfKind
  <2> QED
    BY <1>1, <2>1 DEF RcValue
<1> DEFINE list == RouteLines(req)
<1>4. /\ DOMAIN list = 1..Len(req.value) /\ list = [n \in 1..Len(req.value) |-> list[n]]
      /\ \A n \in DOMAIN list : list[n] \in RcValue
  BY <1>2, <1>3 DEF RouteLines
<1> HIDE DEF list
<1>5. list \in Seq(RcValue)
  BY <1>2, <1>4
<1> QED
  BY <1>5 DEF list

\* What a save that is not cut short leaves, and that it is a list of items.
LEMMA ContentsIs ==
  ASSUME TypeOK, Saving
  PROVE  /\ Contents \in RcList /\ ListOk(Contents)
         /\ op.kind = "route" =>
              /\ SameBut(Contents, Lines, 
                         RouteKeys \cup {ListKey} \cup {k \in Keys(Items) : k[1] = "route"})
              /\ Full = {} => Range(RouteLines(op)) \subseteq Range(SubList(Contents))
         /\ op.kind # "route" =>
              /\ SameBut(Contents, Lines, Keys(Edits))
              /\ \A n \in DOMAIN Edits : Val(Contents, Edits[n].key) = Edits[n].val
<1>1. Items \in UniqueList(ItemIn(RcKey, RcValue)) /\ ListOk(Items) /\ SameBut(Items, Lines, {})
  BY ItemsType DEF RcList
<1>2. op \in Requests
  BY DEF TypeOK, Saving
<1>3. CASE op.kind = "route"
  <2> DEFINE routes == {k \in Keys(Items) : k[1] = "route"}
             clean == Cleaned(Items)
             list == RouteList
             before == SubList(Items)
             lines == RouteLines(op)
             new == SubListSave(clean, list)
             saved == RouteKeys \cup {ListKey}
  <2>1. before \in Seq(RcValue)
    BY <1>1, SubListType
  <2>2. lines \in Seq(RcValue)
    BY <1>2, <1>3, RouteLinesType
  <2>3. list = SubListSetAll(before, lines)
    BY DEF RouteList
  <2> HIDE DEF before, lines, list
  <2>4. list \in Seq(RcValue) /\ Range(lines) \subseteq Range(list)
    BY <2>1, <2>2, <2>3, SetAllIs
  <2>5. clean \in UniqueList(ItemIn(RcKey, RcValue)) /\ SameBut(clean, Items, routes)
    BY <1>1, CleanedIs
  <2>6. ListOk(clean)
    <3>1. ListKey \notin routes
      BY DEF ListKey
    <3> HIDE DEF clean, routes
    <3> QED
      BY <1>1, <2>5, <3>1 DEF ListOk, SameBut
  <2>7. Contents = new
    BY <1>3 DEF Contents, clean, list
  <2> HIDE DEF clean, new, routes, saved
  <2>8. /\ new \in UniqueList(ItemIn(RcKey, RcValue)) /\ ListOk(new)
        /\ SameBut(new, clean, saved)
        /\ Len(list) <= MAX_ROUTES => SubList(new) = list
    BY <2>4, <2>5, <2>6, SubListSaveIs, RcHoldsRoutes DEF new, saved
  <2>9. SameBut(new, Lines, saved \cup routes)
    BY <1>1, <2>5, <2>8 DEF SameBut
  <2>10. Full = {} => Len(list) <= MAX_ROUTES
    <3>1. Len(list) \in Nat /\ MAX_ROUTES \in Nat
      BY <2>4, MaxRoutesAssumption
    <3>2. Full = {} => ~(Len(RouteList) > MAX_ROUTES)
      BY <1>3 DEF Full
    <3>3. Len(list) = Len(RouteList)
      BY DEF list
    <3> HIDE DEF Full
    <3> QED
      BY <3>1, <3>2, <3>3
  <2>11. Full = {} => Range(lines) \subseteq Range(SubList(new))
    BY <2>4, <2>8, <2>10
  <2> QED
    BY <1>3, <2>7, <2>8, <2>9, <2>11 DEF lines, saved, routes, RcList
<1>4. CASE op.kind # "route"
  <2>1. Contents = Edit(Items, Edits)
    BY <1>4 DEF Contents
  <2>2. /\ Edits \in Seq(ChangeOf(RcKey, RcValue))
        /\ \A m, n \in DOMAIN Edits : Edits[m].key = Edits[n].key => m = n
        /\ Keys(Edits) \subseteq SettingKeys
    BY <1>4, EditsAre
  <2>3. /\ Contents \in UniqueList(ItemIn(RcKey, RcValue))
        /\ \A n \in DOMAIN Edits : Val(Contents, Edits[n].key) = Edits[n].val
        /\ SameBut(Contents, Items, Keys(Edits))
    BY <1>1, <2>1, <2>2, EditIs
  <2>4. SameBut(Contents, Lines, Keys(Edits))
    BY <1>1, <2>3 DEF SameBut
  <2>5. ListKey \notin Keys(Edits)
    BY <2>2, SettingKeysAreNoRoutes
  <2>6. ListOk(Contents)
    BY <1>1, <2>3, <2>5 DEF ListOk, SameBut
  <2> QED
    BY <1>4, <2>3, <2>4, <2>6 DEF RcList
<1> QED
  BY <1>3, <1>4
-----------------------------------------------------------------------------
(* resolv.conf. *)

LEMMA PrefixIs ==
  ASSUME NEW Elem, NEW s \in Seq(Elem), NEW n \in 0..(Len(s) - 1)
  PROVE  /\ SubSeq(s, 1, n) \in Seq(Elem) /\ DOMAIN SubSeq(s, 1, n) = 1..n /\ Len(SubSeq(s, 1, n)) = n
         /\ \A i \in 1..n : i \in DOMAIN s /\ SubSeq(s, 1, n)[i] = s[i]
<1>1. Len(s) \in Nat /\ DOMAIN s = 1..Len(s)
  OBVIOUS
<1> QED
  BY <1>1

LEMMA OtherLineType == OtherLine \in ResolvLine /\ OtherLine.kind = "other"
BY DEF OtherLine, Line, ResolvLine

LEMMA LineType ==
  ASSUME NEW kind \in {"nameserver", "search"}, NEW words \in Seq(ResolvWord), words # <<>>
  PROVE  /\ Line(kind, words) \in ResolvLine
         /\ Line(kind, words).kind = kind /\ Line(kind, words).words = words
BY DEF Line, ResolvLine

\* A line that is not another one has words.
LEMMA LineIs ==
  ASSUME NEW line \in ResolvLine
  PROVE  \/ line = OtherLine /\ line.kind = "other" /\ line.words = <<>>
         \/ /\ line.kind \in {"nameserver", "search"}
            /\ line.words \in Seq(ResolvWord) /\ line.words # <<>>
            /\ line = Line(line.kind, line.words)
BY OtherLineType DEF Line, ResolvLine, OtherLine

\* Two lines run together are one of two words at least.
LEMMA RunOnIs ==
  ASSUME NEW last \in ResolvLine, NEW line \in ResolvLine, line # OtherLine
  PROVE  /\ RunOn(last, line) \in ResolvLine
         /\ RunOn(last, line).kind = "nameserver" => Len(RunOn(last, line).words) # 1
<1> DEFINE front == Front(last.words)
           words == front \o <<Garbled>> \o line.words
<1>1. line.words \in Seq(ResolvWord) /\ line.words # <<>>
  BY LineIs
<1>2. CASE last.kind = "other"
  BY <1>2, OtherLineType DEF RunOn
<1>3. CASE last.kind # "other"
  <2>1. last.words \in Seq(ResolvWord) /\ last.words # <<>> /\ last.kind \in {"nameserver", "search"}
    BY <1>3, LineIs
  <2>2. front \in Seq(ResolvWord)
    BY <2>1 DEF Front
  <2>3. Garbled \in ResolvWord
    <3>1. Garbled \in TornWord
      BY DEF TornWord
    <3> QED
      BY <3>1 DEF ResolvWord
  <2> DEFINE mid == <<Garbled>>
  <2>7. mid \in Seq(ResolvWord) /\ Len(mid) = 1
    BY <2>3
  <2>8. line.words \in Seq(ResolvWord) /\ Len(line.words) >= 1
    BY <1>1
  <2> DEFINE head == front \o mid
             rest == line.words
  <2> HIDE DEF front, mid, rest
  <2>9. head \in Seq(ResolvWord) /\ Len(head) >= 1
    BY <2>2, <2>7
  <2> HIDE DEF head
  <2>10. head \o rest \in Seq(ResolvWord) /\ Len(head \o rest) >= 2
    BY <2>8, <2>9 DEF rest
  <2>4. words \in Seq(ResolvWord) /\ Len(words) >= 2
    BY <2>10 DEF head, mid, rest
  <2>5. RunOn(last, line) = Line(last.kind, words)
    BY <1>3 DEF RunOn, front
  <2> HIDE DEF words
  <2>6. words # <<>> /\ Len(words) # 1
    <3> DEFINE len == Len(words)
    <3>1. len \in Nat
      BY <2>4, LenProperties
    <3>2. len >= 2
      BY <2>4
    <3> HIDE DEF len
    <3>3. len # 0 /\ len # 1
      BY <3>1, <3>2
    <3>4. words # <<>>
      BY <3>3, EmptySeq DEF len
    <3> QED
      BY <3>3, <3>4 DEF len
  <2>11. Line(last.kind, words) \in ResolvLine /\ Line(last.kind, words).words = words
    BY <2>1, <2>4, <2>6, LineType
  <2> QED
    BY <2>5, <2>6, <2>11
<1> QED
  BY <1>2, <1>3

\* A handler of resolv.conf has a list of its words.
LEMMA ResolvValue ==
  ASSUME TypeOK, Resolving
  PROVE  /\ op \in Requests /\ op.value \in Seq(ResolvWord) /\ 1 \in DOMAIN op.value
         /\ op.value # <<>> /\ op.value[1] # Blank
<1>1. op \in Requests /\ op.kind \in {"dns", "search"}
  BY DEF TypeOK, Resolving
<1>2. op.value \in Seq(Word) /\ 1 \in DOMAIN op.value
  BY <1>1, RequestType
<1>3. ASSUME NEW n \in DOMAIN op.value PROVE op.value[n] \in ResolvWord
  <2>1. op.value[n] \in Words(op) /\ op \in RequestsOf({"dns", "search"})
    BY <1>1, WordIsOfKind DEF RequestsOf
  <2> QED
    BY <2>1 DEF ResolvWord, WordsOf
<1>4. /\ op.value = [n \in 1..Len(op.value) |-> op.value[n]]
      /\ DOMAIN op.value = 1..Len(op.value) /\ Len(op.value) \in Nat
  BY <1>2
<1>5. op.value # <<>> /\ op.value[1] \in Word
  BY <1>2
<1>6. Blank \notin Word
  BY FilesAssumption
<1> QED
  BY <1>1, <1>2, <1>3, <1>4, <1>5, <1>6

LEMMA AddLineIs ==
  ASSUME NEW f \in ResolvFile, NEW line \in ResolvLine, line # OtherLine
  PROVE  /\ AddLine(f, line) \in ResolvFile /\ AddLine(f, line).ended
         /\ Terminated(f) =>
              /\ DOMAIN AddLine(f, line).lines = 1..(Len(f.lines) + 1)
              /\ AddLine(f, line).lines[Len(f.lines) + 1] = line
              /\ \A n \in DOMAIN f.lines : AddLine(f, line).lines[n] = f.lines[n]
         /\ ~Terminated(f) =>
              /\ DOMAIN AddLine(f, line).lines = DOMAIN f.lines
              /\ AddLine(f, line).lines[Len(f.lines)] = RunOn(f.lines[Len(f.lines)], line)
              /\ \A n \in DOMAIN f.lines :
                   n # Len(f.lines) => AddLine(f, line).lines[n] = f.lines[n]
<1> DEFINE old == f.lines
           new == AddLine(f, line).lines
<1>1. old \in Seq(ResolvLine)
  BY DEF ResolvFile
<1>2. Len(old) \in Nat /\ DOMAIN old = 1..Len(old)
  BY <1>1
<1>3. AddLine(f, line).ended = TRUE /\ AddLine(f, line) = [lines |-> new, ended |-> TRUE]
  BY DEF AddLine
<1>4. CASE Terminated(f)
  <2>1. new = Append(old, line)
    BY <1>4 DEF AddLine
  <2> HIDE DEF new, old
  <2>2. /\ new \in Seq(ResolvLine) /\ DOMAIN new = 1..(Len(old) + 1)
        /\ new[Len(old) + 1] = line /\ \A n \in DOMAIN old : new[n] = old[n]
    BY <1>1, <2>1
  <2>3. AddLine(f, line) \in ResolvFile
    BY <1>3, <2>2 DEF ResolvFile
  <2> QED
    BY <1>3, <1>4, <2>2, <2>3 DEF new, old
<1>5. CASE ~Terminated(f)
  <2> DEFINE front == SubSeq(old, 1, Len(old) - 1)
             joined == RunOn(old[Len(old)], line)
  <2> HIDE DEF joined
  <2>1. new = Append(front, joined)
    BY <1>5 DEF AddLine, Front, Last, joined
  <2>2. old # <<>>
    BY <1>5 DEF Terminated
  <2> HIDE DEF new, old
  <2>3. Len(old) >= 1
    BY <1>1, <2>2
  <2>4. front \in Seq(ResolvLine) /\ Len(front) = Len(old) - 1
        /\ \A n \in 1..(Len(old) - 1) : front[n] = old[n]
    <3>1. Len(old) - 1 \in 0..(Len(old) - 1)
      BY <1>1, <2>3
    <3> QED
      BY <1>1, <3>1, PrefixIs
  <2>10. joined \in ResolvLine
    <3>1. old[Len(old)] \in ResolvLine
      BY <1>1, <2>3
    <3> QED
      BY <3>1, RunOnIs DEF joined
  <2> HIDE DEF front
  <2> DEFINE len == Len(front)
  <2>5. /\ new \in Seq(ResolvLine) /\ DOMAIN new = 1..(len + 1) /\ new[len + 1] = joined
        /\ \A n \in 1..len : new[n] = front[n]
    BY <2>1, <2>4, <2>10
  <2> HIDE DEF len
  <2>6. len = Len(old) - 1 /\ len + 1 = Len(old)
    BY <1>2, <2>4 DEF len
  <2>7. /\ new \in Seq(ResolvLine) /\ DOMAIN new = 1..Len(old)
        /\ new[Len(old)] = joined /\ \A n \in 1..(Len(old) - 1) : new[n] = old[n]
    BY <2>4, <2>5, <2>6
  <2>8. \A n \in DOMAIN old : n # Len(old) => new[n] = old[n]
    BY <1>2, <2>7
  <2>9. AddLine(f, line) \in ResolvFile
    BY <1>3, <2>7 DEF ResolvFile
  <2> QED
    BY <1>2, <1>5, <2>7, <2>8, <2>9, <1>3 DEF new, old, joined
<1> QED
  BY <1>4, <1>5

\* The first search line, if there is one.
LEMMA SearchLineIs ==
  ASSUME NEW f \in ResolvFile
  PROVE  \/ /\ SearchLine(f) = 0
            /\ \A n \in DOMAIN f.lines : ~Reads(f.lines[n], "search")
         \/ /\ SearchLine(f) \in DOMAIN f.lines /\ SearchLine(f) # 0
            /\ Reads(f.lines[SearchLine(f)], "search")
            /\ \A n \in DOMAIN f.lines : Reads(f.lines[n], "search") => SearchLine(f) <= n
<1> DEFINE I == {n \in 1..Len(f.lines) : Reads(f.lines[n], "search")}
<1>1. f.lines \in Seq(ResolvLine)
  BY DEF ResolvFile
<1>2. DOMAIN f.lines = 1..Len(f.lines) /\ Len(f.lines) \in Nat
  BY <1>1
<1>3. CASE I = {}
  <2>1. SearchLine(f) = 0
    BY <1>3 DEF SearchLine, SelectInSeq
  <2> QED
    BY <1>2, <1>3, <2>1
<1>4. CASE I # {}
  <2>1. SearchLine(f) = Min(I)
    BY <1>4 DEF SearchLine, SelectInSeq
  <2>2. I \subseteq Nat
    OBVIOUS
  <2>3. \E n \in I : \A m \in I : n <= m
    <3> HIDE DEF I
    <3> QED
      BY <1>4, <2>2, Least
  <2>4. Min(I) \in I /\ \A m \in I : Min(I) <= m
    BY <2>3 DEF Min
  <2> QED
    BY <1>2, <2>1, <2>4
<1> QED
  BY <1>3, <1>4

LEMMA SetSearchIs ==
  ASSUME NEW f \in ResolvFile, NEW domains \in Seq(ResolvWord), domains # <<>>,
         SearchLine(f) # 0
  PROVE  /\ SetSearch(f, domains) \in ResolvFile
         /\ DOMAIN SetSearch(f, domains).lines = DOMAIN f.lines
         /\ Len(SetSearch(f, domains).lines) = Len(f.lines)
         /\ SetSearch(f, domains).ended <=> f.ended \/ SearchLine(f) = Len(f.lines)
         /\ SetSearch(f, domains).lines[SearchLine(f)] = Line("search", domains)
         /\ \A n \in DOMAIN f.lines :
              n # SearchLine(f) => SetSearch(f, domains).lines[n] = f.lines[n]
<1> DEFINE old == f.lines
           at1 == SearchLine(f)
           line == [old[at1] EXCEPT !.words = domains]
           new == [old EXCEPT ![at1].words = domains]
           ended == f.ended \/ at1 = Len(old)
<1>1. old \in Seq(ResolvLine)
  BY DEF ResolvFile
<1>2. at1 \in DOMAIN old /\ old[at1].kind = "search"
  BY SearchLineIs DEF Reads
<1>3. SetSearch(f, domains) = [lines |-> new, ended |-> ended] /\ ended \in BOOLEAN
  BY DEF SetSearch, ResolvFile
<1> HIDE DEF old, at1, ended
<1>4. old[at1] \in ResolvLine
  BY <1>1, <1>2
<1>5. line \in ResolvLine /\ line = Line("search", domains)
  <2>1. old[at1] = Line("search", old[at1].words)
    BY <1>2, <1>4, LineIs
  <2>2. line = Line("search", domains)
    BY <2>1 DEF Line
  <2> QED
    BY <2>2, LineType
<1>6. new = [old EXCEPT ![at1] = line]
  BY <1>2
<1> HIDE DEF line, new
<1>7. /\ new \in Seq(ResolvLine) /\ DOMAIN new = DOMAIN old /\ new[at1] = line
      /\ \A n \in DOMAIN old : n # at1 => new[n] = old[n]
  BY <1>1, <1>2, <1>5, <1>6
<1>8. /\ SetSearch(f, domains) \in ResolvFile /\ SetSearch(f, domains).lines = new
      /\ SetSearch(f, domains).ended = ended
  BY <1>3, <1>7 DEF ResolvFile
<1>9. Len(new) = Len(old)
  BY <1>1, <1>7
<1> QED
  BY <1>5, <1>7, <1>8, <1>9 DEF old, at1, ended

\* A part of a line is a line.
LEMMA TornIs ==
  ASSUME NEW line \in ResolvLine, NEW torn \in Torn(line)
  PROVE  torn \in ResolvLine
<1> SUFFICES ASSUME NEW k \in DOMAIN line.words, NEW part \in PartsOf(line.words[k]),
                    torn = Line(line.kind, Append(SubSeq(line.words, 1, k - 1), part))
             PROVE  torn \in ResolvLine
  BY OtherLineType DEF Torn
<1> DEFINE words == line.words
           front == SubSeq(words, 1, k - 1)
<1>1. words \in Seq(ResolvWord) /\ line.kind \in {"nameserver", "search"}
  BY LineIs
<1>2. part \in ResolvWord
  <2>1. words[k] \in ResolvWord
    BY <1>1
  <2>2. part = words[k] \/ part \in TornWord
    BY DEF PartsOf, TornWord
  <2> QED
    BY <2>1, <2>2 DEF ResolvWord
<1>3. k - 1 \in 0..(Len(words) - 1)
  BY <1>1
<1> HIDE DEF words
<1>4. front \in Seq(ResolvWord)
  BY <1>1, <1>3, PrefixIs
<1> HIDE DEF front
<1>5. Append(front, part) \in Seq(ResolvWord) /\ Append(front, part) # <<>>
  BY <1>2, <1>4
<1> QED
  BY <1>1, <1>5, LineType DEF front, words

\* What a cut leaves finished of a file is its first lines, finished before.
LEMMA CutShortIs ==
  ASSUME NEW f \in ResolvFile, NEW g \in CutShort(f)
  PROVE  /\ g \in ResolvFile
         /\ \A n \in Finished(g) : n \in Finished(f) /\ g.lines[n] = f.lines[n]
<1> DEFINE old == f.lines
<1>1. old \in Seq(ResolvLine)
  BY DEF ResolvFile
<1>2. PICK n \in DOMAIN old :
        \/ g = [lines |-> SubSeq(old, 1, n - 1), ended |-> TRUE]
        \/ \E torn \in Torn(old[n]) :
             g = [lines |-> Append(SubSeq(old, 1, n - 1), torn), ended |-> FALSE]
  BY DEF CutShort
<1> DEFINE part == SubSeq(old, 1, n - 1)
<1> HIDE DEF old
<1>3. /\ n - 1 \in 0..(Len(old) - 1) /\ DOMAIN old = 1..Len(old) /\ Len(old) \in Nat
      /\ old[n] \in ResolvLine /\ n \in Nat
  BY <1>1
<1>4. /\ part \in Seq(ResolvLine) /\ DOMAIN part = 1..(n - 1) /\ Len(part) = n - 1
      /\ \A i \in 1..(n - 1) : i \in DOMAIN old /\ part[i] = old[i]
  BY <1>1, <1>3, PrefixIs
<1>5. \A i \in 1..(n - 1) : i < Len(old)
  BY <1>3
<1> HIDE DEF part
<1>6. \A i \in 1..(n - 1) : i \in Finished(f) /\ part[i] = f.lines[i]
  BY <1>4, <1>5 DEF Finished, old
<1>7. CASE g = [lines |-> part, ended |-> TRUE]
  <2>1. g \in ResolvFile
    BY <1>4, <1>7 DEF ResolvFile
  <2>2. g.lines = part
    BY <1>7
  <2>3. Finished(g) \subseteq 1..(n - 1)
    BY <1>4, <2>2 DEF Finished
  <2> QED
    BY <1>6, <2>1, <2>2, <2>3
<1>8. ASSUME NEW torn \in Torn(old[n]), g = [lines |-> Append(part, torn), ended |-> FALSE]
      PROVE  g \in ResolvFile /\ \A i \in Finished(g) : i \in Finished(f) /\ g.lines[i] = f.lines[i]
  <2>1. torn \in ResolvLine
    BY <1>3, <1>8, TornIs
  <2> DEFINE all == Append(part, torn)
  <2>2. /\ all \in Seq(ResolvLine) /\ Len(all) = n /\ DOMAIN all = 1..n
        /\ \A i \in 1..(n - 1) : all[i] = part[i]
    BY <1>3, <1>4, <2>1
  <2> HIDE DEF all
  <2>3. g.lines = all /\ g.ended = FALSE /\ g = [lines |-> all, ended |-> FALSE]
    BY <1>8 DEF all
  <2>4. g \in ResolvFile
    BY <2>2, <2>3 DEF ResolvFile
  <2>5. Finished(g) \subseteq 1..(n - 1)
    BY <1>3, <2>2, <2>3 DEF Finished
  <2> QED
    BY <1>6, <2>2, <2>3, <2>4, <2>5
<1> QED
  BY <1>2, <1>7, <1>8 DEF part

\* What a handler makes of the file, and that what it was asked for is in there.
LEMMA ResolvContentsIs ==
  ASSUME TypeOK, Resolving
  PROVE  /\ ResolvContents \in ResolvFile
         /\ ListsServersOnce(resolv) => ListsServersOnce(ResolvContents)
         /\ ~RunTogether /\ op.kind = "dns" => HasServer(ResolvContents, <<op.value[1]>>)
         /\ ~RunTogether /\ op.kind = "search" =>
              ResolvContents.lines[SearchLine(ResolvContents)] = Line("search", op.value)
<1> DEFINE f == resolv
           g == ResolvContents
           value == op.value
           len == Len(f.lines)
<1>1. /\ f \in ResolvFile /\ value \in Seq(ResolvWord) /\ 1 \in DOMAIN value
      /\ op.kind \in {"dns", "search"} /\ value # <<>> /\ value[1] # Blank
  BY ResolvValue DEF TypeOK, Resolving
<1>2. f.lines \in Seq(ResolvLine) /\ DOMAIN f.lines = 1..len /\ len \in Nat
  BY <1>1 DEF ResolvFile
<1>3. ASSUME NEW h \in ResolvFile,
             \A n \in Finished(h) : \/ h.lines[n].kind # "nameserver"
                                    \/ Len(h.lines[n].words) # 1
                                    \/ n \in Finished(f) /\ h.lines[n] = f.lines[n]
      PROVE  ListsServersOnce(f) => ListsServersOnce(h)
  <2> HIDE DEF f
  <2> SUFFICES ASSUME ListsServersOnce(f), NEW m \in Finished(h), NEW n \in Finished(h), m # n,
                      h.lines[m].kind = "nameserver", Len(h.lines[m].words) = 1,
                      h.lines[m] = h.lines[n]
               PROVE  FALSE
    BY DEF ListsServersOnce
  <2>1. /\ m \in Finished(f) /\ h.lines[m] = f.lines[m]
        /\ n \in Finished(f) /\ h.lines[n] = f.lines[n]
    BY <1>3
  <2> QED
    BY <2>1 DEF ListsServersOnce
<1> HIDE DEF f, g, value
<1>4. ASSUME NEW line \in ResolvLine, line # OtherLine, ~Terminated(f)
      PROVE  /\ AddLine(f, line) \in ResolvFile
             /\ ListsServersOnce(f) => ListsServersOnce(AddLine(f, line))
  <2> DEFINE h == AddLine(f, line)
             joined == RunOn(f.lines[len], line)
  <2>1. /\ h \in ResolvFile /\ DOMAIN h.lines = DOMAIN f.lines /\ h.lines[len] = joined
        /\ \A n \in DOMAIN f.lines : n # len => h.lines[n] = f.lines[n]
    BY <1>1, <1>4, AddLineIs
  <2>2. joined.kind = "nameserver" => Len(joined.words) # 1
    <3>1. f.lines[len] \in ResolvLine
      <4>1. f.lines # <<>>
        BY <1>4 DEF Terminated
      <4> QED
        BY <1>2, <4>1
    <3> QED
      BY <1>4, <3>1, RunOnIs
  <2> HIDE DEF h, joined
  <2>3. ASSUME NEW n \in DOMAIN f.lines, n # len PROVE n \in Finished(f)
    <3>1. n < len
      BY <1>2, <2>3
    <3> QED
      BY <3>1 DEF Finished
  <2>4. \A n \in Finished(h) : \/ h.lines[n].kind # "nameserver"
                               \/ Len(h.lines[n].words) # 1
                               \/ n \in Finished(f) /\ h.lines[n] = f.lines[n]
    <3>1. \A n \in Finished(h) : n \in DOMAIN f.lines
      BY <2>1 DEF Finished
    <3> HIDE DEF len
    <3> QED
      BY <2>1, <2>2, <2>3, <3>1
  <2>5. ListsServersOnce(f) => ListsServersOnce(h)
    BY <1>3, <2>1, <2>4
  <2> QED
    BY <2>1, <2>5 DEF h
<1>5. CASE op.kind = "dns" /\ HasServer(f, value)
  <2>1. g = f
    BY <1>5 DEF f, g, value, ResolvContents, SetServer
  <2>2. PICK n \in DOMAIN f.lines : Names(f.lines[n], value)
    BY <1>5 DEF HasServer
  <2>3. value = <<f.lines[n].words[1]>>
    BY <2>2 DEF Names
  <2>4. <<value[1]>> = value
    BY <2>3
  <2> QED
    BY <1>1, <1>5, <2>1, <2>4 DEF f, g, value
<1>6. CASE op.kind = "dns" /\ ~HasServer(f, value)
  <2> DEFINE line == Line("nameserver", value)
  <2>1. /\ line \in ResolvLine /\ line.kind = "nameserver" /\ line.words = value
        /\ line # OtherLine
    BY <1>1, LineType, OtherLineType
  <2>2. g = AddLine(f, line)
    BY <1>6 DEF f, g, value, ResolvContents, SetServer
  <2> HIDE DEF line
  <2>3. CASE ~Terminated(f)
    <3>1. RunTogether
      BY <1>6, <2>3 DEF RunTogether, f, value
    <3> QED
      BY <1>4, <1>6, <2>1, <2>2, <2>3, <3>1 DEF f, g
  <2>4. CASE Terminated(f)
    <3>1. /\ g \in ResolvFile /\ DOMAIN g.lines = 1..(len + 1) /\ g.lines[len + 1] = line
          /\ \A n \in DOMAIN f.lines : g.lines[n] = f.lines[n]
      BY <1>1, <2>1, <2>2, <2>4, AddLineIs
    <3>2. len + 1 \in DOMAIN g.lines
      BY <1>2, <3>1
    <3>6. \A n \in DOMAIN f.lines : n \in Finished(f)
      BY <2>4 DEF Terminated, Finished
    <3> HIDE DEF len
    <3>3. HasServer(g, <<value[1]>>)
      BY <1>1, <2>1, <3>1, <3>2 DEF HasServer, Names, Reads
    <3>4. ASSUME NEW n \in DOMAIN f.lines, f.lines[n].kind = "nameserver", Len(f.lines[n].words) = 1
          PROVE  f.lines[n] # line
      <4> SUFFICES ASSUME f.lines[n] = line PROVE FALSE
        OBVIOUS
      <4>1. f.lines[n].words = value /\ Len(value) = 1
        BY <2>1, <3>4
      <4>2. value = <<value[1]>>
        BY <1>1, <4>1
      <4>3. Names(f.lines[n], value)
        BY <1>1, <3>4, <4>1, <4>2 DEF Names, Reads
      <4> QED
        BY <1>6, <4>3 DEF HasServer
    <3>5. ASSUME ListsServersOnce(f) PROVE ListsServersOnce(g)
      <4> SUFFICES ASSUME NEW m \in Finished(g), NEW n \in Finished(g), m # n,
                          g.lines[m].kind = "nameserver", Len(g.lines[m].words) = 1
                   PROVE  g.lines[m] # g.lines[n]
        BY DEF ListsServersOnce
      <4>1. \A i \in Finished(g) : i \in DOMAIN f.lines \/ i = len + 1
        BY <1>2, <3>1 DEF Finished, len
      <4>2. CASE m \in DOMAIN f.lines /\ n \in DOMAIN f.lines
        BY <3>1, <3>5, <3>6, <4>2 DEF ListsServersOnce
      <4>3. CASE m \in DOMAIN f.lines /\ n = len + 1
        BY <3>1, <3>4, <4>3
      <4>4. CASE m = len + 1 /\ n \in DOMAIN f.lines
        BY <3>1, <3>4, <4>4
      <4> QED
        BY <4>1, <4>2, <4>3, <4>4
    <3> QED
      BY <1>6, <3>1, <3>3, <3>5 DEF f, g, value
  <2> QED
    BY <2>3, <2>4
<1>7. CASE op.kind = "search" /\ SearchLine(f) # 0
  <2> DEFINE n == SearchLine(f)
  <2>1. g = SetSearch(f, value)
    BY <1>7 DEF f, g, value, ResolvContents
  <2>2. /\ n \in DOMAIN f.lines
        /\ \A k \in DOMAIN f.lines : Reads(f.lines[k], "search") => n <= k
    BY <1>1, <1>7, SearchLineIs
  <2>3. /\ g \in ResolvFile /\ DOMAIN g.lines = DOMAIN f.lines
        /\ Len(g.lines) = len /\ (g.ended <=> f.ended \/ n = len)
        /\ g.lines[n] = Line("search", value)
        /\ \A k \in DOMAIN f.lines : k # n => g.lines[k] = f.lines[k]
    BY <1>1, <1>7, <2>1, SetSearchIs
  <2>4. g.lines[n].kind = "search" /\ Reads(g.lines[n], "search")
    BY <1>1, <2>3, LineType DEF Reads
  <2> HIDE DEF n
  <2>5. SearchLine(g) = n
    <3>1. /\ SearchLine(g) \in DOMAIN g.lines
          /\ Reads(g.lines[SearchLine(g)], "search")
          /\ SearchLine(g) <= n
      BY <2>2, <2>3, <2>4, SearchLineIs
    <3>2. SearchLine(g) # n => Reads(f.lines[SearchLine(g)], "search")
      BY <2>3, <3>1
    <3>3. SearchLine(g) # n => n <= SearchLine(g)
      BY <2>2, <2>3, <3>1, <3>2
    <3>4. SearchLine(g) \in Nat /\ n \in Nat
      BY <1>2, <2>2, <2>3, <3>1
    <3> QED
      BY <3>1, <3>3, <3>4
  <2>6. \A k \in Finished(g) : \/ g.lines[k].kind # "nameserver"
                               \/ Len(g.lines[k].words) # 1
                               \/ k \in Finished(f) /\ g.lines[k] = f.lines[k]
    <3> SUFFICES ASSUME NEW k \in Finished(g), k # n
                 PROVE  k \in Finished(f) /\ g.lines[k] = f.lines[k]
      BY <2>4
    <3>1. k \in DOMAIN f.lines /\ g.lines[k] = f.lines[k]
      BY <2>3 DEF Finished
    <3>2. k < len \/ g.ended
      BY <2>3 DEF Finished
    <3>3. k < len \/ f.ended
      BY <1>2, <2>3, <3>1, <3>2
    <3> QED
      BY <3>1, <3>3 DEF Finished
  <2>7. ListsServersOnce(f) => ListsServersOnce(g)
    BY <1>3, <2>3, <2>6
  <2> QED
    BY <1>7, <2>3, <2>5, <2>7 DEF f, g, value
<1>8. CASE op.kind = "search" /\ SearchLine(f) = 0
  <2> DEFINE line == Line("search", value)
  <2>1. line \in ResolvLine /\ line.kind = "search" /\ Reads(line, "search") /\ line # OtherLine
    BY <1>1, LineType, OtherLineType DEF Reads
  <2>2. g = AddLine(f, line)
    BY <1>8 DEF f, g, value, ResolvContents, SetSearch
  <2> HIDE DEF line
  <2>3. CASE ~Terminated(f)
    <3>1. RunTogether
      BY <1>8, <2>3 DEF RunTogether, f
    <3> QED
      BY <1>4, <1>8, <2>1, <2>2, <2>3, <3>1 DEF f, g
  <2>4. CASE Terminated(f)
    <3>1. /\ g \in ResolvFile /\ DOMAIN g.lines = 1..(len + 1) /\ g.lines[len + 1] = line
          /\ \A n \in DOMAIN f.lines : g.lines[n] = f.lines[n]
      BY <1>1, <2>1, <2>2, <2>4, AddLineIs
    <3>2. /\ len + 1 \in DOMAIN g.lines
          /\ \A i \in DOMAIN g.lines : i \in DOMAIN f.lines \/ i = len + 1
      BY <1>2, <3>1
    <3>7. \A n \in DOMAIN f.lines : n \in Finished(f)
      BY <2>4 DEF Terminated, Finished
    <3> HIDE DEF len
    <3>3. \A n \in DOMAIN f.lines : ~Reads(f.lines[n], "search")
      <4>1. \/ \A n \in DOMAIN f.lines : ~Reads(f.lines[n], "search")
            \/ SearchLine(f) # 0
        BY <1>1, SearchLineIs
      <4> QED
        BY <1>8, <4>1
    <3>4. SearchLine(g) = len + 1
      <4>1. \/ \A n \in DOMAIN g.lines : ~Reads(g.lines[n], "search")
            \/ SearchLine(g) \in DOMAIN g.lines /\ Reads(g.lines[SearchLine(g)], "search")
        BY <3>1, SearchLineIs
      <4> QED
        BY <2>1, <3>1, <3>2, <3>3, <4>1
    <3>5. \A k \in Finished(g) : \/ g.lines[k].kind # "nameserver"
                                 \/ Len(g.lines[k].words) # 1
                                 \/ k \in Finished(f) /\ g.lines[k] = f.lines[k]
      <4>1. \A k \in Finished(g) : k \in DOMAIN g.lines
        BY DEF Finished
      <4> QED
        BY <2>1, <3>1, <3>2, <3>7, <4>1
    <3>6. ListsServersOnce(f) => ListsServersOnce(g)
      BY <1>3, <3>1, <3>5
    <3> QED
      BY <1>8, <3>1, <3>4, <3>6 DEF f, g, value, line
  <2> QED
    BY <2>3, <2>4
<1> QED
  BY <1>1, <1>5, <1>6, <1>7, <1>8
-----------------------------------------------------------------------------
(* The type invariant. *)

LEMMA PhaseType == \A req \in Requests : PhaseOf(req) \in DOMAIN all_flags
<1> SUFFICES ASSUME NEW req \in Requests PROVE PhaseOf(req) \in DOMAIN all_flags
  OBVIOUS
<1> DEFINE I == {i \in 1..Len(all_flags) : all_flags[i] = req.kind}
<1>1. Len(all_flags) = 7 /\ DOMAIN all_flags = 1..7
  BY DEF all_flags
<1>2. req.kind \in Range(all_flags)
  BY RequestsAssumption
<1>3. I # {} /\ I \subseteq Nat /\ I \subseteq DOMAIN all_flags
  BY <1>1, <1>2 DEF Range
<1>4. PhaseOf(req) = Min(I)
  BY <1>3 DEF PhaseOf, SelectInSeq
<1> HIDE DEF I
<1>5. \E n \in I : \A m \in I : n <= m
  BY <1>3, Least
<1>6. Min(I) \in I
  BY <1>5 DEF Min
<1> QED
  BY <1>3, <1>4, <1>6

LEMMA SettingType ==
  ASSUME IsRcFile(Lines)
  PROVE  \A key : Setting(key) \in RcValue \cup {None}
<1> SUFFICES ASSUME NEW key, key \in Keys(Lines) PROVE GetItem(Lines, key).val \in RcValue
  BY DEF Setting
<1>1. Lines \in Seq(RcItem)
  BY DEF IsRcFile
<1>2. Index(Lines, key) \in DOMAIN Lines
  BY <1>1, IndexIs
<1>3. Lines[Index(Lines, key)] \in RcItem
  BY <1>1, <1>2
<1> QED
  BY <1>3 DEF GetItem, RcItem

LEMMA AskedType ==
  ASSUME NEW req \in Requests, req.kind = "gateway", NEW n \in DOMAIN req.value
  PROVE  Asked(req.value[n]) \in RcValue \cup {None}
<1>1. req.value[n] \in WordsOf({"gateway"})
  BY WordIsOfKind
<1> QED
  BY <1>1 DEF Asked, RcValue

LEMMA TypeInit == Init => TypeOK
<1> SUFFICES ASSUME Init PROVE TypeOK
  OBVIOUS
<1>1. IsRcFile(Lines)
  <2>1. CASE rcFile = NoFile
    <3>1. <<>> \in Seq(RcItem) /\ DOMAIN <<>> = {}
      BY EmptySeq
    <3> QED
      BY <2>1, <3>1 DEF Lines, IsRcFile
  <2>2. CASE rcFile # NoFile
    BY <2>2, FilesAssumption DEF Init, Lines
  <2> QED
    BY <2>1, <2>2
<1>2. resolv \in ResolvFile
  BY FilesAssumption DEF Init
<1>3. kernel \in [Family -> RcValue \cup {None}]
  BY <1>1, SettingType DEF Init
<1>4. 1 \in DOMAIN all_flags
  BY DEF all_flags
<1>5. flags \in [Dev -> SUBSET Family]
  BY DEF Init
<1> QED
  BY <1>1, <1>2, <1>3, <1>4, <1>5 DEF Init, TypeOK

LEMMA SameLines ==
  ASSUME UNCHANGED rcFile
  PROVE  Lines' = Lines /\ \A key : Setting(key)' = Setting(key)
BY DEF Lines, Setting

LEMMA FaultType ==
  ASSUME TypeOK, NEW kind, Fault(kind)
  PROVE  faults' \in Nat
BY DEF Fault, TypeOK

LEMMA TypeStart ==
  ASSUME TypeOK, Start \/ Exit \/ Kill
  PROVE  TypeOK'
<1>1. IsRcFile(Lines')
  BY SameLines DEF Start, Exit, Kill, stored, TypeOK
<1>2. flags' \in [Dev -> SUBSET Family]
  <2>1. CASE Start
    <3>1. \A d : ReadDhcp(d) \subseteq Family
      BY MainDhcpAssumption DEF ReadDhcp
    <3> QED
      BY <2>1, <3>1 DEF Start
  <2>2. CASE Exit \/ Kill
    BY <2>2 DEF Exit, Kill, Gone
  <2> QED
    BY <2>1, <2>2
<1>3. 1 \in DOMAIN all_flags
  BY DEF all_flags
<1>4. faults' \in Nat
  BY FaultType DEF Start, Exit, Kill, bounds, TypeOK
<1> QED
  BY <1>1, <1>2, <1>3, <1>4 DEF Start, Exit, Kill, Gone, stored, bounds, TypeOK

LEMMA TypeCall ==
  ASSUME TypeOK, NEW req \in Requests, Skip(req) \/ Begin(req) \/ BeginFails(req)
  PROVE  TypeOK'
<1>1. Call(req)
  BY DEF Skip, Begin, BeginFails
<1>2. IsRcFile(Lines')
  BY <1>1, SameLines DEF Call, stored, TypeOK
<1>3. faults' \in Nat
  BY FaultType DEF Skip, Begin, BeginFails, TypeOK
<1>4. phase' \in DOMAIN all_flags /\ ops' \in Nat
  BY <1>1, PhaseType DEF Call, TypeOK
<1>5. op' = req /\ at' = 1 /\ 1 \in DOMAIN req.value
  BY <1>1, RequestType DEF Call
<1>6. note' \subseteq Notes
  BY DEF Skip, Begin, BeginFails, Lasting, TypeOK, Notes
<1>7. \/ pc' = "idle" /\ rc' \in 0..1
      \/ /\ pc' = IF req.kind \in {"gateway", "route"} THEN "command" ELSE "save"
         /\ req.kind = "route" => rcFile # NoFile
         /\ rc' \in 0..1
  BY DEF Skip, Begin, BeginFails, Finish, TypeOK
<1> QED
  BY <1>1, <1>2, <1>3, <1>4, <1>5, <1>6, <1>7 DEF Call, stored, TypeOK

LEMMA TypeSave ==
  ASSUME TypeOK, SaveWhole \/ SaveShort \/ SaveKilled \/ SaveFails
  PROVE  TypeOK'
<1>1. Saving /\ op \in Requests /\ at \in DOMAIN op.value /\ op.kind \notin {"dns", "search"}
  BY DEF SaveWhole, SaveShort, SaveKilled, SaveFails, Saving, TypeOK
<1>2. Contents \in RcList /\ ListOk(Contents)
  BY <1>1, ContentsIs
<1>3. IsRcFile(Contents) /\ Contents # NoFile
  BY <1>2, FileOfList
<1>4. IsRcFile(Lines') /\ (rcFile' = NoFile => rcFile = NoFile)
  <2>1. CASE SaveWhole
    BY <1>3, <2>1 DEF SaveWhole, Lines
  <2>2. CASE SaveShort \/ SaveKilled
    <3>1. rcFile' \in Prefixes(Contents)
      BY <2>2 DEF SaveShort, SaveKilled
    <3>2. IsRcFile(rcFile') /\ rcFile' # NoFile
      BY <1>3, <3>1, FileCut
    <3> QED
      BY <3>2 DEF Lines
  <2>3. CASE SaveFails
    BY <2>3, SameLines DEF SaveFails, stored, TypeOK
  <2> QED
    BY <2>1, <2>2, <2>3
<1>5. faults' \in Nat
  BY FaultType DEF SaveWhole, SaveShort, SaveKilled, SaveFails, bounds, TypeOK
<1>6. note' \subseteq Notes
  BY DEF SaveWhole, SaveShort, SaveKilled, SaveFails, Full, Stale, Notes, TypeOK
<1>7. CASE SaveWhole \/ SaveShort
  <2>1. Saved
    BY <1>7 DEF SaveWhole, SaveShort
  <2>2. op' = op /\ phase' = phase
    BY <2>1 DEF Saved
  <2>3. op.kind \in {"route", "gateway", "ip", "dhcp", "hostname"} /\ (op.kind = "ip" => op.dev \in Dev)
    BY <1>1, RequestType
  <2>4. op.value \in Seq(Word)
    BY <1>1, RequestType
  <2>5. at \in 1..Len(op.value) /\ Len(op.value) \in Nat
    BY <1>1, <2>4
  <2>6. /\ flags' \in [Dev -> SUBSET Family] /\ rc' \in 0..1
        /\ pc' \in {"idle", "command"} /\ at' \in DOMAIN op.value
    <3>1. CASE op.kind = "gateway" /\ at < Len(op.value)
      <4>1. pc' = "command" /\ at' = at + 1 /\ UNCHANGED <<rc, flags>>
        BY <2>1, <3>1 DEF Saved
      <4>2. at + 1 \in DOMAIN op.value
        BY <2>4, <2>5, <3>1
      <4> QED
        BY <4>1, <4>2 DEF TypeOK
    <3>2. CASE op.kind = "gateway" /\ ~(at < Len(op.value))
      <4>1. at = Len(op.value)
        BY <2>5, <3>2
      <4>2. Finish(0) /\ UNCHANGED <<at, flags>>
        BY <2>1, <3>2, <4>1 DEF Saved
      <4> QED
        BY <1>1, <4>2 DEF TypeOK, Finish
    <3>3. CASE op.kind = "ip" /\ ~TooLong
      <4>1. pc' = "command" /\ flags' = [flags EXCEPT ![op.dev] = @ \ {4}] /\ UNCHANGED <<at, rc>>
        BY <2>1, <3>3 DEF Saved
      <4> QED
        BY <1>1, <2>3, <3>3, <4>1 DEF TypeOK
    <3>6. CASE op.kind = "ip" /\ TooLong
      <4>1. Finish(1) /\ UNCHANGED <<at, flags>>
        BY <2>1, <3>6 DEF Saved
      <4> QED
        BY <1>1, <4>1 DEF TypeOK, Finish
    <3>4. CASE op.kind = "route"
      <4>1. Finish(0) /\ UNCHANGED <<at, flags>>
        BY <2>1, <3>4 DEF Saved
      <4> QED
        BY <1>1, <4>1 DEF TypeOK, Finish
    <3>5. CASE op.kind \in {"dhcp", "hostname"}
      <4>1. pc' = "command" /\ UNCHANGED <<at, rc, flags>>
        BY <2>1, <3>5 DEF Saved
      <4> QED
        BY <1>1, <4>1 DEF TypeOK
    <3> QED
      BY <2>3, <3>1, <3>2, <3>3, <3>4, <3>5, <3>6
  <2>7. at' \in Nat \ {0}
    BY <2>4, <2>6
  <2>8. UNCHANGED <<resolv, kernel, ops>> /\ rcFile # NoFile
    BY <1>7 DEF SaveWhole, SaveShort, bounds
  <2> QED
    BY <1>1, <1>4, <1>5, <1>6, <2>2, <2>6, <2>7, <2>8 DEF TypeOK
<1>8. CASE SaveKilled
  BY <1>4, <1>5, <1>6, <1>8 DEF SaveKilled, Gone, TypeOK
<1>9. CASE SaveFails
  BY <1>4, <1>5, <1>6, <1>9 DEF SaveFails, Finish, stored, TypeOK
<1> QED
  BY <1>7, <1>8, <1>9

LEMMA TypeCommand ==
  ASSUME TypeOK, Command \/ GatewayCommand \/ RouteCommand
  PROVE  TypeOK'
<1>1. op \in Requests /\ at \in DOMAIN op.value
  BY DEF Command, GatewayCommand, RouteCommand, TypeOK
<1>2. IsRcFile(Lines') /\ UNCHANGED <<rcFile, resolv, op, phase, note, ops>>
  BY SameLines DEF Command, GatewayCommand, RouteCommand, stored, TypeOK
<1>3. faults' \in Nat
  BY FaultType DEF Command, GatewayCommand, RouteCommand, TypeOK
<1>4. CASE Command
  <2>1. flags' \in [Dev -> SUBSET Family]
    <3>1. CASE op.kind = "dhcp"
      <4>1. op.dev \in Dev /\ Words(op) \subseteq Family
        BY <1>1, <3>1, RequestType
      <4> QED
        BY <1>4, <3>1, <4>1 DEF Command, TypeOK
    <3>2. CASE op.kind # "dhcp"
      BY <1>4, <3>2 DEF Command, TypeOK
    <3> QED
      BY <3>1, <3>2
  <2> QED
    BY <1>2, <1>3, <1>4, <2>1 DEF Command, Finish, stored, TypeOK
<1>5. CASE GatewayCommand
  <2> DEFINE f == FamilyOf(op.value[at])
             v == Asked(op.value[at])
  <2>1. f \in Family /\ v \in RcValue \cup {None}
    BY <1>1, <1>5, FamilyOfType, AskedType DEF GatewayCommand
  <2>2. kernel \in [Family -> RcValue \cup {None}]
    BY DEF TypeOK
  <2>3. UNCHANGED <<flags, at>>
    BY <1>5 DEF GatewayCommand
  <2>4. /\ kernel' \in [Family -> RcValue \cup {None}]
        /\ \/ pc' = "save" /\ rc' = rc
           \/ pc' = "idle" /\ rc' = 1
    <3>1. \/ kernel' = [kernel EXCEPT ![f] = v] /\ pc' = "save" /\ rc' = rc
          \/ /\ \E left \in {None, kernel[f]} : kernel' = [kernel EXCEPT ![f] = left]
             /\ pc' = "idle" /\ rc' = 1
      BY <1>5 DEF GatewayCommand, Finish
    <3> HIDE DEF f, v
    <3> QED
      BY <2>1, <2>2, <3>1
  <2> QED
    BY <1>1, <1>2, <1>3, <1>5, <2>3, <2>4 DEF GatewayCommand, TypeOK
<1>6. CASE RouteCommand
  <2>1. op.value \in Seq(Word)
    BY <1>1, RequestType
  <2>2. at' \in DOMAIN op.value
    BY <1>1, <1>6, <2>1 DEF RouteCommand
  <2>3. at' \in Nat \ {0} /\ pc' \in {"command", "save", "idle"} /\ rc' \in 0..1
    BY <1>6, <2>1, <2>2 DEF RouteCommand, Finish, TypeOK
  <2> QED
    BY <1>2, <1>3, <1>6, <2>2, <2>3 DEF RouteCommand, stored, TypeOK
<1> QED
  BY <1>4, <1>5, <1>6

LEMMA TypeResolv ==
  ASSUME TypeOK, ResolvSaved \/ ResolvCut \/ ResolvFails
  PROVE  TypeOK'
<1>1. Resolving
  BY DEF ResolvSaved, ResolvCut, ResolvFails
<1>2. ResolvContents \in ResolvFile
  BY <1>1, ResolvContentsIs
<1>3. resolv' \in ResolvFile
  BY <1>2, CutShortIs DEF ResolvSaved, ResolvCut, ResolvFails, stored, TypeOK
<1>4. faults' \in Nat
  BY FaultType DEF ResolvSaved, ResolvCut, ResolvFails, bounds, TypeOK
<1>5. IsRcFile(Lines') /\ UNCHANGED <<rcFile, kernel, phase, ops>>
  BY SameLines DEF ResolvSaved, ResolvCut, ResolvFails, stored, bounds, TypeOK
<1>6. note' \subseteq Notes
  BY DEF ResolvSaved, ResolvCut, ResolvFails, Notes, TypeOK
<1>7. /\ flags' \in [Dev -> SUBSET Family] /\ UNCHANGED <<op, at>>
      /\ pc' \in {"idle", "off"} /\ rc' \in 0..1
  BY DEF ResolvSaved, ResolvCut, ResolvFails, Finish, Gone, TypeOK
<1> QED
  BY <1>3, <1>4, <1>5, <1>6, <1>7 DEF TypeOK

\* One action after the other.
LEMMA TypeNext == TypeOK /\ [Next]_vars => TypeOK'
<1> SUFFICES ASSUME TypeOK, [Next]_vars PROVE TypeOK'
  OBVIOUS
<1>1. CASE Next
  BY <1>1, TypeStart, TypeCall, TypeSave, TypeCommand, TypeResolv DEF Next
<1>2. CASE UNCHANGED vars
  BY <1>2, SameLines DEF vars, stored, bounds, TypeOK
<1> QED
  BY <1>1, <1>2

\* The files stay lists of items and of lines of what was in them at first or was asked for,
\* and a handler of BSD/setnet.c at work has a word of its request in hand.
THEOREM TypeCorrect == Spec => []TypeOK
<1> QED
  BY TypeInit, TypeNext, PTL DEF Spec
-----------------------------------------------------------------------------
(* Name servers. *)

LEMMA OnceStep == TypeOK /\ ServersOnce /\ [Next]_vars => ServersOnce'
<1> SUFFICES ASSUME TypeOK, ServersOnce, [Next]_vars PROVE ServersOnce'
  OBVIOUS
<1>1. ASSUME Resolving PROVE ListsServersOnce(ResolvContents) /\ ResolvContents \in ResolvFile
  BY <1>1, ResolvContentsIs DEF ServersOnce
<1>2. CASE ResolvSaved
  BY <1>1, <1>2 DEF ResolvSaved, ServersOnce
<1>3. CASE ResolvCut
  <2>1. resolv' \in CutShort(ResolvContents) /\ Resolving
    BY <1>3 DEF ResolvCut
  <2>2. \A n \in Finished(resolv') :
          n \in Finished(ResolvContents) /\ resolv'.lines[n] = ResolvContents.lines[n]
    BY <1>1, <2>1, CutShortIs
  <2> QED
    BY <1>1, <2>1, <2>2 DEF ServersOnce, ListsServersOnce
<1>4. CASE UNCHANGED resolv
  BY <1>4 DEF ServersOnce
<1>5. ResolvSaved \/ ResolvCut \/ UNCHANGED resolv
  BY DEF Next, vars, stored, Start, Exit, Kill, Skip, Begin, BeginFails, Call, SaveWhole, SaveShort,
         SaveKilled, SaveFails, Command, GatewayCommand, RouteCommand, ResolvFails
<1> QED
  BY <1>2, <1>3, <1>4, <1>5

\* If resolv.conf names no server twice at first, set_dns() never makes it do so, however it is
\* called and wherever its saves are cut.
THEOREM ServersOnceHolds ==
  ASSUME \A file \in ResolvFiles : ListsServersOnce(file)
  PROVE  Spec => []ServersOnce
<1>1. Init => ServersOnce
  BY DEF Init, ServersOnce
<1> QED
  BY <1>1, TypeCorrect, OnceStep, PTL DEF Spec
-----------------------------------------------------------------------------
(* The flags in memory and the settings in the files. *)

\* DHCP is asked for in a file.
InAFile(lines, d, f) == Val(lines, IfconfigKey(d, f)) = DHCP \/ f \in MainDhcp

\* Why the flags do not outlive the settings: but for the moment between the save and the
\* command of set_dhcp(), each flag has its setting.
FlagsInv ==
  /\ "skipped" \in note => pc \in {"idle", "off"}
  /\ Lasting = {} /\ pc # "off" =>
       /\ \A d \in Dev : \A f \in flags[d] :
            InAFile(Lines, d, f) \/ (pc = "command" /\ op.kind = "dhcp" /\ d = op.dev)
       /\ pc = "command" /\ op.kind = "dhcp" => \A f \in Words(op) : InAFile(Lines, op.dev, f)
       /\ "skipped" \in note => \A f \in Family : InAFile(Lines, op.dev, f)

\* A save that is not cut short changes the settings it is asked for, and no other.
LEMMA SaveWholeIs ==
  ASSUME TypeOK, SaveWhole
  PROVE  /\ op \in Requests /\ Lines' = Contents
         /\ op.kind = "route" => \A k \in SettingKeys : Val(Lines', k) = Val(Lines, k)
         /\ op.kind # "route" =>
              /\ \A k : k \notin Keys(Edits) => Val(Lines', k) = Val(Lines, k)
              /\ \A n \in DOMAIN Edits : Val(Lines', Edits[n].key) = Edits[n].val
<1>1. Saving /\ rcFile' = Contents /\ op \in Requests
  BY DEF SaveWhole, Saving, TypeOK
<1>2. Contents # NoFile
  BY <1>1, ContentsIs, FileOfList
<1>3. Lines' = Contents
  BY <1>1, <1>2 DEF Lines
<1>4. /\ op.kind = "route" =>
           SameBut(Contents, Lines, RouteKeys \cup {ListKey} \cup {k \in Keys(Items) : k[1] = "route"})
      /\ op.kind # "route" => /\ SameBut(Contents, Lines, Keys(Edits))
                              /\ \A n \in DOMAIN Edits : Val(Contents, Edits[n].key) = Edits[n].val
  BY <1>1, ContentsIs
<1>5. op.kind = "route" => \A k \in SettingKeys : Val(Contents, k) = Val(Lines, k)
  BY <1>4, SettingKeysAreNoRoutes DEF SameBut
<1>6. op.kind # "route" => \A k : k \notin Keys(Edits) => Val(Contents, k) = Val(Lines, k)
  BY <1>4 DEF SameBut
<1> QED
  BY <1>1, <1>3, <1>4, <1>5, <1>6

\* The same for each kind of request.
LEMMA SettingsSaved ==
  ASSUME TypeOK, SaveWhole
  PROVE  /\ op.kind = "ip" =>
              /\ Val(Lines', IfconfigKey(op.dev, 4)) = op.value
              /\ \A k : k # IfconfigKey(op.dev, 4) => Val(Lines', k) = Val(Lines, k)
         /\ op.kind = "dhcp" =>
              /\ \A f \in Family : Val(Lines', IfconfigKey(op.dev, f)) = ValueFor(f, op)
              /\ \A k : /\ \A f \in Family : k # IfconfigKey(op.dev, f)
                        /\ k # DhcpdKey
                        => Val(Lines', k) = Val(Lines, k)
         /\ op.kind = "hostname" =>
              /\ Val(Lines', HostnameKey) = op.value
              /\ \A k : k # HostnameKey => Val(Lines', k) = Val(Lines, k)
         /\ op.kind = "gateway" =>
              /\ Val(Lines', RouterKey(FamilyOf(op.value[at]))) = Asked(op.value[at])
              /\ \A k : k # RouterKey(FamilyOf(op.value[at])) => Val(Lines', k) = Val(Lines, k)
<1> DEFINE One(k, v) == Edits = <<Item(k, v)>>
           Goal(k, v) == /\ Val(Lines', k) = v
                         /\ \A j : j # k => Val(Lines', j) = Val(Lines, j)
<1>1. op.kind # "route" =>
        /\ \A k : k \notin Keys(Edits) => Val(Lines', k) = Val(Lines, k)
        /\ \A n \in DOMAIN Edits : Val(Lines', Edits[n].key) = Edits[n].val
  BY SaveWholeIs
<1>2. ASSUME NEW k, NEW v, One(k, v), op.kind # "route" PROVE Goal(k, v)
  <2>1. DOMAIN Edits = {1} /\ Edits[1].key = k /\ Edits[1].val = v
    BY <1>2 DEF Item
  <2>2. Keys(Edits) = {k}
    BY <2>1 DEF Keys
  <2> QED
    BY <1>1, <1>2, <2>1, <2>2
<1>3. ASSUME op.kind = "ip" PROVE Goal(IfconfigKey(op.dev, 4), op.value)
  <2>1. One(IfconfigKey(op.dev, 4), op.value)
    BY <1>3 DEF Edits
  <2> HIDE DEF One, Goal
  <2> QED
    BY <1>2, <1>3, <2>1
<1>4. ASSUME op.kind = "hostname" PROVE Goal(HostnameKey, op.value)
  <2>1. One(HostnameKey, op.value)
    BY <1>4 DEF Edits
  <2> HIDE DEF One, Goal
  <2> QED
    BY <1>2, <1>4, <2>1
<1>5. ASSUME op.kind = "gateway"
      PROVE  Goal(RouterKey(FamilyOf(op.value[at])), Asked(op.value[at]))
  <2>1. One(RouterKey(FamilyOf(op.value[at])), Asked(op.value[at]))
    BY <1>5 DEF Edits
  <2> HIDE DEF One, Goal
  <2> QED
    BY <1>2, <1>5, <2>1
<1>6. ASSUME op.kind = "dhcp"
      PROVE  /\ \A f \in Family : Val(Lines', IfconfigKey(op.dev, f)) = ValueFor(f, op)
             /\ \A k : /\ \A f \in Family : k # IfconfigKey(op.dev, f)
                       /\ k # DhcpdKey
                       => Val(Lines', k) = Val(Lines, k)
  <2> DEFINE a == Item(IfconfigKey(op.dev, 4), ValueFor(4, op))
             b == Item(IfconfigKey(op.dev, 6), ValueFor(6, op))
             c == Item(DhcpdKey, Yes)
  <2>1. Edits = <<a, b, c>>
    BY <1>6 DEF Edits
  <2>2. /\ a.key = IfconfigKey(op.dev, 4) /\ a.val = ValueFor(4, op)
        /\ b.key = IfconfigKey(op.dev, 6) /\ b.val = ValueFor(6, op)
        /\ c.key = DhcpdKey
    BY DEF Item
  <2> HIDE DEF a, b, c
  <2>3. DOMAIN Edits = {1, 2, 3} /\ Edits[1] = a /\ Edits[2] = b /\ Edits[3] = c
    BY <2>1
  <2>4. Keys(Edits) = {a.key, b.key, c.key}
    BY <2>3 DEF Keys
  <2>5. Val(Lines', a.key) = a.val /\ Val(Lines', b.key) = b.val
    BY <1>1, <1>6, <2>3
  <2>6. Family = {4, 6}
    BY DEF Family
  <2> QED
    BY <1>1, <1>6, <2>2, <2>4, <2>5, <2>6
<1> QED
  BY <1>3, <1>4, <1>5, <1>6

LEMMA FlagsSave ==
  ASSUME TypeOK, FlagsInv, SaveWhole
  PROVE  FlagsInv'
<1>1. pc = "save" /\ Saved /\ op' = op /\ op \in Requests /\ "skipped" \notin note
  BY DEF SaveWhole, Saving, Saved, FlagsInv, TypeOK
<1>2. "skipped" \notin note' /\ (Lasting' = {} => Lasting = {})
  BY <1>1 DEF SaveWhole, Full, Stale, Lasting
<1> SUFFICES ASSUME Lasting' = {}
             PROVE  /\ \A d \in Dev : \A f \in flags'[d] :
                         InAFile(Lines', d, f) \/ (pc' = "command" /\ op.kind = "dhcp" /\ d = op.dev)
                    /\ pc' = "command" /\ op.kind = "dhcp" =>
                         \A f \in Words(op) : InAFile(Lines', op.dev, f)
  BY <1>1, <1>2 DEF FlagsInv
<1>3. \A d \in Dev : flags[d] \subseteq Family /\ \A f \in flags[d] : InAFile(Lines, d, f)
  BY <1>1, <1>2 DEF FlagsInv, TypeOK
<1>4. op.kind \in {"dhcp", "ip", "gateway", "hostname", "route"}
  BY <1>1, RequestType DEF SaveWhole, Saving
<1>5. \A d, e, f, g : IfconfigKey(d, f) = IfconfigKey(e, g) => d = e /\ f = g
  BY DEF IfconfigKey
<1>6. \A d \in Dev, f \in Family : /\ IfconfigKey(d, f) \in SettingKeys
                                   /\ IfconfigKey(d, f) # DhcpdKey /\ IfconfigKey(d, f) # HostnameKey
  BY DEF SettingKeys, IfconfigKey, DhcpdKey, HostnameKey
<1>7. \A d, f, g : IfconfigKey(d, f) # RouterKey(g)
  BY DEF IfconfigKey, RouterKey
<1>8. CASE op.kind = "ip"
  <2>5. ~TooLong
    BY <1>8 DEF SaveWhole, Stale, Lasting
  <2>1. pc' = "command" /\ flags' = [flags EXCEPT ![op.dev] = @ \ {4}] /\ op.dev \in Dev
    BY <1>1, <1>8, <2>5, RequestType DEF Saved
  <2>2. \A k : k # IfconfigKey(op.dev, 4) => Val(Lines', k) = Val(Lines, k)
    BY <1>8, SettingsSaved
  <2>3. \A d \in Dev : flags'[d] = IF d = op.dev THEN flags[d] \ {4} ELSE flags[d]
    BY <2>1 DEF TypeOK
  <2>4. ASSUME NEW d \in Dev, NEW f \in flags'[d] PROVE InAFile(Lines', d, f)
    <3>1. f \in flags[d] /\ (d = op.dev => f # 4)
      BY <2>3, <2>4
    <3>2. IfconfigKey(d, f) # IfconfigKey(op.dev, 4)
      BY <1>5, <3>1
    <3> QED
      BY <1>3, <2>2, <3>1, <3>2 DEF InAFile
  <2> QED
    BY <1>8, <2>4
<1>9. CASE op.kind = "dhcp"
  <2>1. pc' = "command" /\ flags' = flags /\ Words(op) \subseteq Family
    BY <1>1, <1>9, RequestType DEF Saved
  <2>2. ASSUME NEW f \in Words(op) PROVE InAFile(Lines', op.dev, f)
    <3>1. Val(Lines', IfconfigKey(op.dev, f)) = ValueFor(f, op)
      BY <1>9, <2>1, SettingsSaved
    <3> QED
      BY <3>1 DEF InAFile, ValueFor
  <2>3. ASSUME NEW d \in Dev, d # op.dev, NEW f \in flags'[d] PROVE InAFile(Lines', d, f)
    <3>1. f \in Family /\ InAFile(Lines, d, f)
      BY <1>3, <2>1
    <3>2. \A g \in Family : IfconfigKey(d, f) # IfconfigKey(op.dev, g)
      BY <1>5, <2>3
    <3>3. Val(Lines', IfconfigKey(d, f)) = Val(Lines, IfconfigKey(d, f))
      BY <1>6, <1>9, <3>1, <3>2, SettingsSaved
    <3> QED
      BY <3>1, <3>3 DEF InAFile
  <2> QED
    BY <1>9, <2>1, <2>2, <2>3
<1>10. CASE op.kind \in {"gateway", "hostname", "route"}
  <2>1. flags' = flags
    BY <1>1, <1>10 DEF Saved
  <2>2. ASSUME NEW d \in Dev, NEW f \in flags[d] PROVE InAFile(Lines', d, f)
    <3>1. f \in Family /\ InAFile(Lines, d, f)
      BY <1>3
    <3>2. CASE op.kind = "gateway"
      BY <1>7, <3>1, <3>2, SettingsSaved DEF InAFile
    <3>3. CASE op.kind = "hostname"
      BY <1>6, <3>1, <3>3, SettingsSaved DEF InAFile
    <3>4. CASE op.kind = "route"
      BY <1>6, <3>1, <3>4, SaveWholeIs DEF InAFile
    <3> QED
      BY <1>10, <3>2, <3>3, <3>4
  <2> QED
    BY <1>10, <2>1, <2>2
<1> QED
  BY <1>4, <1>8, <1>9, <1>10

LEMMA FlagsStep == TypeOK /\ FlagsInv /\ [Next]_vars => FlagsInv'
<1> SUFFICES ASSUME TypeOK, FlagsInv, [Next]_vars PROVE FlagsInv'
  OBVIOUS
<1>1. ASSUME UNCHANGED rcFile PROVE Lines' = Lines
  BY <1>1, SameLines
<1>2. CASE Start
  <2>1. ASSUME NEW d \in Dev, NEW f \in flags'[d] PROVE InAFile(Lines, d, f)
    <3>1. f \in ReadDhcp(d)
      BY <1>2, <2>1 DEF Start
    <3> QED
      BY <3>1, SettingIs DEF ReadDhcp, InAFile
  <2> QED
    BY <1>1, <1>2, <2>1 DEF Start, stored, FlagsInv
<1>3. CASE pc' = "off"
  BY <1>3 DEF FlagsInv
<1>4. ASSUME NEW req \in Requests, Skip(req) PROVE FlagsInv'
  <2>1. /\ pc = "idle" /\ Lines' = Lines /\ flags' = flags /\ op' = req /\ pc' = "idle"
        /\ flags[req.dev] = Family /\ (Lasting' = {} => Lasting = {})
    BY <1>1, <1>4 DEF Skip, Call, Finish, LeavesGateway, Lasting, stored
  <2>2. req.dev \in Dev
    BY <1>4, RequestType DEF Skip, LeavesGateway
  <2> QED
    BY <2>1, <2>2 DEF FlagsInv
<1>5. ASSUME NEW req \in Requests, Begin(req) \/ BeginFails(req) PROVE FlagsInv'
  <2>1. /\ pc = "idle" /\ Lines' = Lines /\ flags' = flags /\ op' = req
        /\ "skipped" \notin note' /\ Lasting' = Lasting
        /\ pc' = "command" => req.kind \in {"gateway", "route"}
    BY <1>1, <1>5 DEF Begin, BeginFails, Call, Finish, Lasting, stored
  <2> QED
    BY <2>1 DEF FlagsInv
<1>6. CASE SaveShort
  <2>1. Lasting' # {} /\ ("skipped" \in note' => "skipped" \in note) /\ pc = "save"
    BY <1>6 DEF SaveShort, Saving, Full, Stale, Lasting
  <2> QED
    BY <2>1 DEF FlagsInv
<1>7. CASE Command
  <2>1. /\ pc = "command" /\ Lines' = Lines /\ note' = note /\ pc' = "idle" /\ op \in Requests
        /\ Lasting' = Lasting
    BY <1>1, <1>7 DEF Command, stored, Finish, Lasting, TypeOK
  <2>2. "skipped" \notin note
    BY <2>1 DEF FlagsInv
  <2>3. CASE op.kind = "dhcp"
    <3>1. op.dev \in Dev /\ flags' = [flags EXCEPT ![op.dev] = Words(op)]
      BY <1>7, <2>1, <2>3, RequestType DEF Command
    <3>2. \A d \in Dev : flags'[d] = IF d = op.dev THEN Words(op) ELSE flags[d]
      BY <3>1 DEF TypeOK
    <3> QED
      BY <2>1, <2>2, <2>3, <3>2 DEF FlagsInv
  <2>4. CASE op.kind # "dhcp"
    <3>1. flags' = flags
      BY <1>7, <2>4 DEF Command
    <3> QED
      BY <2>1, <2>2, <2>4, <3>1 DEF FlagsInv
  <2> QED
    BY <2>3, <2>4
<1>8. CASE GatewayCommand \/ RouteCommand
  <2>1. /\ pc = "command" /\ Lines' = Lines /\ note' = note /\ flags' = flags /\ op' = op
        /\ op.kind # "dhcp" /\ Lasting' = Lasting
    BY <1>1, <1>8 DEF GatewayCommand, RouteCommand, Lasting, stored
  <2> QED
    BY <2>1 DEF FlagsInv
<1>9. CASE SaveFails \/ ResolvSaved \/ ResolvCut \/ ResolvFails
  <2>1. pc = "save" /\ Lines' = Lines
    BY <1>1, <1>9 DEF SaveFails, ResolvSaved, ResolvCut, ResolvFails, Saving, Resolving, stored
  <2>2. \/ pc' = "off"
        \/ pc' = "idle" /\ flags' = flags
    BY <1>9 DEF SaveFails, ResolvSaved, ResolvCut, ResolvFails, Finish, Gone
  <2>3. ("skipped" \in note' => "skipped" \in note) /\ (Lasting' = {} => Lasting = {})
    BY <1>9 DEF SaveFails, ResolvSaved, ResolvCut, ResolvFails, Full, Lasting
  <2> QED
    BY <1>3, <2>1, <2>2, <2>3 DEF FlagsInv
<1>10. CASE Exit \/ Kill \/ SaveKilled
  BY <1>3, <1>10 DEF Exit, Kill, SaveKilled, Gone
<1>11. CASE UNCHANGED vars
  BY <1>1, <1>11 DEF vars, stored, Lasting, FlagsInv
<1> QED
  BY <1>2, <1>4, <1>5, <1>6, <1>7, <1>8, <1>9, <1>10, <1>11, FlagsSave DEF Next

\* set_gateway() and set_route() leave an adapter alone only if a file asks for DHCP for both
\* families, whatever handlers have been called, failed or been killed before.
THEOREM SkippedOnlyIfDhcpHolds == Spec => []SkippedOnlyIfDhcp
<1>1. Init => FlagsInv
  BY DEF Init, FlagsInv
<1>2. FlagsInv => SkippedOnlyIfDhcp
  BY SettingIs DEF FlagsInv, SkippedOnlyIfDhcp, InAFile
<1> QED
  BY <1>1, <1>2, TypeCorrect, FlagsStep, PTL DEF Spec
-----------------------------------------------------------------------------
(* What was asked for. *)

\* Of the words before a place, the k-th is the last of its family.
LastBefore(value, k, n) ==
  /\ k \in DOMAIN value /\ k < n
  /\ \A j \in DOMAIN value : k < j /\ j < n => FamilyOf(value[j]) # FamilyOf(value[k])

InKernel(routers, value, k) == routers[FamilyOf(value[k])] = Asked(value[k])
InFile(lines, value, k)     == Val(lines, RouterKey(FamilyOf(value[k]))) = Asked(value[k])

\* The words before a place are done with.
DoneBefore(n) ==
  \A k \in DOMAIN op.value :
    LastBefore(op.value, k, n) => InKernel(kernel, op.value, k) /\ InFile(Lines, op.value, k)

\* Why a handler that returns 0 has stored what it was asked for: of a gateway's words, those
\* before the one in hand are in the kernel and in the file, and between the command and the
\* save the one in hand is in the kernel.
SuccessInv ==
  Unnoted /\ op \in Requests =>
    /\ pc = "command" /\ op.kind \in {"ip", "dhcp", "hostname"} => Stored(op)
    /\ pc = "idle" /\ rc = 0 => Stored(op)
    /\ pc = "command" /\ op.kind = "gateway" => DoneBefore(at)
    /\ pc = "idle" /\ op.kind = "gateway" /\ rc = 0 => DoneBefore(Len(op.value) + 1)
    /\ pc = "save" /\ op.kind = "gateway" =>
         /\ InKernel(kernel, op.value, at)
         /\ \A k \in DOMAIN op.value :
              LastBefore(op.value, k, at) =>
                /\ InFile(Lines, op.value, k)
                /\ \/ FamilyOf(op.value[k]) = FamilyOf(op.value[at])
                   \/ InKernel(kernel, op.value, k)

LEMMA LastWordIs ==
  ASSUME NEW req \in Requests, NEW f \in FamiliesOf(req)
  PROVE  \E k \in DOMAIN req.value : /\ LastBefore(req.value, k, Len(req.value) + 1)
                                     /\ FamilyOf(req.value[k]) = f
                                     /\ LastWord(req, f) = req.value[k]
<1> DEFINE len == Len(req.value)
           I == {i \in 1..len : FamilyOf(req.value[i]) = f}
           J == {len - i : i \in I}
<1>1. req.value \in Seq(Word)
  BY RequestType
<1>2. len \in Nat /\ DOMAIN req.value = 1..len
  BY <1>1
<1>3. I # {} /\ I \subseteq 1..len
  BY <1>2 DEF FamiliesOf, Words, Range
<1>4. LastWord(req, f) = req.value[Max(I)]
  BY <1>3 DEF LastWord, SelectLastInSeq
<1>5. \E k \in I : \A i \in I : k >= i
  <2> HIDE DEF I, len
  <2>1. J \subseteq Nat /\ J # {}
    <3>1. \A i \in I : len - i \in Nat
      BY <1>2, <1>3
    <3> QED
      BY <1>3, <3>1
  <2>2. PICK j \in J : \A i \in J : j <= i
    BY <2>1, Least
  <2>3. PICK k \in I : j = len - k
    BY <2>2
  <2>4. ASSUME NEW i \in I PROVE k >= i
    <3>1. len - k <= len - i
      BY <2>2, <2>3
    <3> QED
      BY <1>2, <1>3, <3>1
  <2> QED
    BY <2>4
<1>6. Max(I) \in I /\ \A i \in I : Max(I) >= i
  <2> HIDE DEF I
  <2> QED
    BY <1>5 DEF Max
<1>7. LastBefore(req.value, Max(I), len + 1)
  <2>1. Max(I) \in DOMAIN req.value /\ Max(I) < len + 1
    BY <1>2, <1>6
  <2>2. ASSUME NEW j \in DOMAIN req.value, Max(I) < j
        PROVE  FamilyOf(req.value[j]) # FamilyOf(req.value[Max(I)])
    <3>1. j \notin I
      BY <1>2, <1>6, <2>1, <2>2
    <3> QED
      BY <1>2, <1>6, <3>1
  <2> QED
    BY <2>1, <2>2 DEF LastBefore
<1>8. Max(I) \in DOMAIN req.value /\ FamilyOf(req.value[Max(I)]) = f
  BY <1>2, <1>6
<1> QED
  BY <1>4, <1>7, <1>8

LEMMA SameStored ==
  ASSUME UNCHANGED <<rcFile, resolv, op>>
  PROVE  Stored(op)' <=> Stored(op)
<1>1. Lines' = Lines
  BY SameLines
<1> QED
  BY <1>1 DEF Stored, Setting

LEMMA SuccessSaveOne ==
  ASSUME TypeOK, SaveWhole, op.kind \in {"ip", "dhcp", "hostname"}
  PROVE  Stored(op)'
<1>1. op' = op
  BY DEF SaveWhole, Saved
<1>2. CASE op.kind = "ip"
  <2>1. Val(Lines', IfconfigKey(op.dev, 4)) = op.value
    BY <1>2, SettingsSaved
  <2> QED
    BY <1>1, <1>2, <2>1 DEF Stored, Setting, Val
<1>3. CASE op.kind = "dhcp"
  <2>1. \A f \in Family : Val(Lines', IfconfigKey(op.dev, f)) = ValueFor(f, op)
    BY <1>3, SettingsSaved
  <2> QED
    BY <1>1, <1>3, <2>1 DEF Stored, Setting, Val
<1>4. CASE op.kind = "hostname"
  <2>1. Val(Lines', HostnameKey) = op.value
    BY <1>4, SettingsSaved
  <2> QED
    BY <1>1, <1>4, <2>1 DEF Stored, Setting, Val
<1> QED
  BY <1>2, <1>3, <1>4

LEMMA SuccessSaveRoute ==
  ASSUME TypeOK, SaveWhole, op.kind = "route", Unnoted'
  PROVE  Stored(op)'
<1>1. op' = op /\ Full = {} /\ Saving
  BY DEF SaveWhole, Saved, Full, Unnoted
<1>2. Range(RouteLines(op)) \subseteq Range(SubList(Contents))
  BY <1>1, ContentsIs
<1>3. Lines' = Contents
  BY SaveWholeIs
<1> QED
  BY <1>1, <1>2, <1>3 DEF Stored

\* The word in hand is saved, and with it those before are done with.
LEMMA SuccessSaveGateway ==
  ASSUME TypeOK, SuccessInv, SaveWhole, op.kind = "gateway", Unnoted'
  PROVE  \A k \in DOMAIN op.value :
           LastBefore(op.value, k, at + 1) =>
             InKernel(kernel', op.value, k) /\ InFile(Lines', op.value, k)
<1>1. /\ Unnoted /\ pc = "save" /\ op \in Requests /\ at \in DOMAIN op.value
      /\ kernel' = kernel /\ DOMAIN op.value \subseteq Nat
  <2>1. op \in Requests
    BY DEF SaveWhole, Saving, TypeOK
  <2>2. op.value \in Seq(Word)
    BY <2>1, RequestType
  <2> QED
    BY <2>1, <2>2 DEF SaveWhole, Saving, Unnoted, TypeOK
<1>2. /\ InKernel(kernel, op.value, at)
      /\ \A k \in DOMAIN op.value :
           LastBefore(op.value, k, at) =>
             /\ InFile(Lines, op.value, k)
             /\ \/ FamilyOf(op.value[k]) = FamilyOf(op.value[at])
                \/ InKernel(kernel, op.value, k)
  BY <1>1 DEF SuccessInv
<1>3. /\ Val(Lines', RouterKey(FamilyOf(op.value[at]))) = Asked(op.value[at])
      /\ \A k : k # RouterKey(FamilyOf(op.value[at])) => Val(Lines', k) = Val(Lines, k)
  BY SettingsSaved
<1> SUFFICES ASSUME NEW k \in DOMAIN op.value, LastBefore(op.value, k, at + 1)
             PROVE  InKernel(kernel', op.value, k) /\ InFile(Lines', op.value, k)
  OBVIOUS
<1>4. CASE k = at
  BY <1>1, <1>2, <1>3, <1>4 DEF InFile
<1>5. CASE k # at
  <2>1. k < at /\ at < at + 1
    BY <1>1, <1>5 DEF LastBefore
  <2>2. FamilyOf(op.value[at]) # FamilyOf(op.value[k])
    BY <1>1, <2>1 DEF LastBefore
  <2>3. LastBefore(op.value, k, at)
    <3>1. \A j \in DOMAIN op.value : j < at => j < at + 1
      BY <1>1
    <3> QED
      BY <2>1, <3>1 DEF LastBefore
  <2>4. RouterKey(FamilyOf(op.value[k])) # RouterKey(FamilyOf(op.value[at]))
    BY <2>2 DEF RouterKey
  <2>5. InFile(Lines', op.value, k)
    BY <1>2, <1>3, <2>3, <2>4 DEF InFile
  <2>6. InKernel(kernel', op.value, k)
    BY <1>1, <1>2, <2>2, <2>3
  <2> QED
    BY <2>5, <2>6
<1> QED
  BY <1>4, <1>5

LEMMA SuccessSave ==
  ASSUME TypeOK, SuccessInv, SaveWhole
  PROVE  SuccessInv'
<1>1. /\ Saved /\ Saving /\ op' = op /\ op \in Requests /\ at \in DOMAIN op.value
      /\ op.kind \notin {"dns", "search"}
  BY DEF SaveWhole, Saving, Saved, TypeOK
<1>2. op.kind \in {"route", "gateway", "ip", "dhcp", "hostname"} /\ op.value \in Seq(Word)
  BY <1>1, RequestType
<1> SUFFICES ASSUME Unnoted' PROVE SuccessInv'
  BY DEF SuccessInv
<1>3. CASE op.kind \in {"ip", "dhcp", "hostname"}
  <2>1. (pc' = "command" \/ pc' = "idle") /\ Stored(op)'
    BY <1>1, <1>3, SuccessSaveOne DEF Saved, Finish
  <2> QED
    BY <1>1, <1>3, <2>1 DEF SuccessInv
<1>4. CASE op.kind = "route"
  <2>1. pc' = "idle" /\ Stored(op)'
    BY <1>1, <1>4, SuccessSaveRoute DEF Saved, Finish
  <2> QED
    BY <1>1, <1>4, <2>1 DEF SuccessInv
<1>5. CASE op.kind = "gateway" /\ at < Len(op.value)
  <2>1. pc' = "command" /\ at' = at + 1
    BY <1>1, <1>5 DEF Saved
  <2>2. DoneBefore(at)'
    BY <1>1, <1>5, <2>1, SuccessSaveGateway DEF DoneBefore
  <2> QED
    BY <1>1, <1>5, <2>1, <2>2 DEF SuccessInv
<1>6. CASE op.kind = "gateway" /\ ~(at < Len(op.value))
  <2>1. at = Len(op.value)
    BY <1>1, <1>2, <1>6
  <2>2. pc' = "idle"
    BY <1>1, <1>6, <2>1 DEF Saved, Finish
  <2>3. \A k \in DOMAIN op.value :
          LastBefore(op.value, k, Len(op.value) + 1) =>
            InKernel(kernel', op.value, k) /\ InFile(Lines', op.value, k)
    BY <1>6, <2>1, SuccessSaveGateway
  <2>4. DoneBefore(Len(op.value) + 1)'
    BY <1>1, <2>3 DEF DoneBefore
  <2>5. ASSUME NEW f \in FamiliesOf(op)
        PROVE  Val(Lines', RouterKey(f)) = Asked(LastWord(op, f))
    <3>1. PICK k \in DOMAIN op.value : /\ LastBefore(op.value, k, Len(op.value) + 1)
                                       /\ FamilyOf(op.value[k]) = f
                                       /\ LastWord(op, f) = op.value[k]
      BY <1>1, LastWordIs
    <3> QED
      BY <2>3, <3>1 DEF InFile
  <2>6. Stored(op)'
    BY <1>1, <1>6, <2>5 DEF Stored, Setting, Val
  <2> QED
    BY <1>1, <1>6, <2>2, <2>4, <2>6 DEF SuccessInv
<1> QED
  BY <1>2, <1>3, <1>4, <1>5, <1>6

LEMMA SuccessGateway ==
  ASSUME TypeOK, SuccessInv, GatewayCommand
  PROVE  SuccessInv'
<1>1. /\ pc = "command" /\ op.kind = "gateway" /\ op \in Requests /\ at \in DOMAIN op.value
      /\ Lines' = Lines /\ UNCHANGED <<op, at, note>>
  BY SameLines DEF GatewayCommand, TypeOK
<1> SUFFICES ASSUME Unnoted, pc' # "idle" \/ rc' = 0 PROVE SuccessInv'
  BY <1>1 DEF SuccessInv, Unnoted
<1>2. /\ pc' = "save"
      /\ kernel' = [kernel EXCEPT ![FamilyOf(op.value[at])] = Asked(op.value[at])]
  BY DEF GatewayCommand, Finish
<1>3. DoneBefore(at)
  BY <1>1 DEF SuccessInv
<1> DEFINE f == FamilyOf(op.value[at])
<1>4. \A g \in Family : kernel'[g] = IF g = f THEN Asked(op.value[at]) ELSE kernel[g]
  BY <1>2 DEF TypeOK
<1>5. InKernel(kernel', op.value, at)
  BY <1>4, FamilyOfType DEF InKernel
<1>6. ASSUME NEW k \in DOMAIN op.value, LastBefore(op.value, k, at)
      PROVE  /\ InFile(Lines, op.value, k)
             /\ FamilyOf(op.value[k]) = f \/ InKernel(kernel', op.value, k)
  <2>1. InKernel(kernel, op.value, k) /\ InFile(Lines, op.value, k)
    BY <1>3, <1>6 DEF DoneBefore
  <2>2. FamilyOf(op.value[k]) # f => InKernel(kernel', op.value, k)
    BY <1>4, <2>1, FamilyOfType DEF InKernel
  <2> QED
    BY <2>1, <2>2
<1> QED
  BY <1>1, <1>2, <1>5, <1>6 DEF SuccessInv

LEMMA SuccessStep == TypeOK /\ SuccessInv /\ [Next]_vars => SuccessInv'
<1> SUFFICES ASSUME TypeOK, SuccessInv, [Next]_vars PROVE SuccessInv'
  OBVIOUS
<1>1. NoOp \notin Requests
  BY RequestType DEF NoOp
<1>2. CASE Start
  <2>1. op' \notin Requests
    BY <1>1, <1>2 DEF Start
  <2> QED
    BY <2>1 DEF SuccessInv
<1>3. CASE pc' = "off" \/ (pc' = "idle" /\ rc' = 1) \/ ~Unnoted'
  BY <1>3 DEF SuccessInv
<1>4. CASE Exit \/ Kill \/ SaveShort \/ SaveKilled \/ ResolvCut \/ ResolvFails
  <2>1. pc' = "off" \/ (pc' = "idle" /\ rc' = 1) \/ ~Unnoted'
    BY <1>4 DEF Exit, Kill, SaveShort, SaveKilled, ResolvCut, ResolvFails, Gone, Finish, Unnoted
  <2> QED
    BY <1>3, <2>1
<1>5. CASE SaveFails
  <2>1. (pc' = "idle" /\ rc' = 1) \/ ~Unnoted'
    BY <1>5 DEF SaveFails, Finish, Unnoted
  <2> QED
    BY <1>3, <2>1
<1>6. ASSUME NEW req \in Requests, Skip(req) \/ BeginFails(req) PROVE SuccessInv'
  <2>1. (pc' = "idle" /\ rc' = 1) \/ ~Unnoted'
    BY <1>6 DEF Skip, BeginFails, Finish, Unnoted
  <2> QED
    BY <1>3, <2>1
<1>7. ASSUME NEW req \in Requests, Begin(req) PROVE SuccessInv'
  <2>1. /\ op' = req /\ at' = 1
        /\ pc' = IF req.kind \in {"gateway", "route"} THEN "command" ELSE "save"
    BY <1>7 DEF Begin, Call
  <2>2. req.value \in Seq(Word)
    BY RequestType
  <2>3. \A k \in DOMAIN req.value : ~LastBefore(req.value, k, 1)
    BY <2>2 DEF LastBefore
  <2>4. DoneBefore(at)'
    BY <2>1, <2>3 DEF DoneBefore
  <2> QED
    BY <2>1, <2>4 DEF SuccessInv
<1>8. CASE Command
  <2>1. /\ pc = "command" /\ op.kind \in {"ip", "dhcp", "hostname"} /\ pc' = "idle"
        /\ UNCHANGED <<rcFile, resolv, op, note>> /\ op \in Requests
    BY <1>8 DEF Command, Finish, stored, TypeOK
  <2>2. Stored(op)' <=> Stored(op)
    BY <2>1, SameStored
  <2> QED
    BY <2>1, <2>2 DEF SuccessInv, Unnoted
<1>9. CASE RouteCommand
  <2>1. op' = op /\ op.kind = "route" /\ (pc' \in {"command", "save"} \/ rc' = 1)
    BY <1>9 DEF RouteCommand, Finish
  <2> QED
    BY <2>1 DEF SuccessInv
<1>10. CASE ResolvSaved
  <2>1. /\ Resolving /\ op \in Requests /\ resolv' = ResolvContents /\ op' = op /\ pc' = "idle"
        /\ Unnoted' => ~RunTogether
    BY <1>10 DEF ResolvSaved, Resolving, Finish, Unnoted, TypeOK
  <2>2. op.kind \in {"dns", "search"}
    BY <2>1 DEF Resolving
  <2>3. ASSUME Unnoted' PROVE Stored(op)'
    <3>1. /\ op.kind = "dns" => HasServer(resolv', <<op.value[1]>>)
          /\ op.kind = "search" =>
               resolv'.lines[SearchLine(resolv')] = Line("search", op.value)
      BY <2>1, <2>3, ResolvContentsIs
    <3> QED
      BY <2>1, <2>2, <3>1 DEF Stored
  <2> QED
    BY <2>1, <2>2, <2>3 DEF SuccessInv
<1>11. CASE UNCHANGED vars
  <2>1. /\ UNCHANGED <<rcFile, resolv, kernel, op, at, pc, rc, note>>
        /\ Lines' = Lines
    BY <1>11, SameLines DEF vars, stored
  <2>2. Stored(op)' <=> Stored(op)
    BY <2>1, SameStored
  <2> QED
    BY <2>1, <2>2 DEF SuccessInv, DoneBefore, Unnoted
<1> QED
  BY <1>2, <1>4, <1>5, <1>6, <1>7, <1>8, <1>9, <1>10, <1>11, SuccessSave, SuccessGateway DEF Next

LEMMA SuccessCorrect == Spec => [](TypeOK /\ SuccessInv)
<1>1. Init => SuccessInv
  BY DEF Init, SuccessInv, NoOp
<1> QED
  BY <1>1, TypeCorrect, SuccessStep, PTL DEF Spec

\* A handler of BSD/setnet.c that returns 0 without a note has stored what it was asked for:
\* the next load of the files yields it, whatever was in them and whatever came before.
THEOREM SuccessIsStoredHolds == Spec => []SuccessIsStored
<1>1. TypeOK /\ SuccessInv => SuccessIsStored
  BY DEF TypeOK, SuccessInv, SuccessIsStored, Succeeded
<1> QED
  BY <1>1, SuccessCorrect, PTL

\* After a set_gateway() that returns 0, the kernel and the file name the same gateway for each
\* family asked for.
THEOREM GatewayAgreesHolds == Spec => []GatewayAgrees
<1>1. TypeOK /\ SuccessInv => GatewayAgrees
  <2> SUFFICES ASSUME TypeOK, SuccessInv, Succeeded, op.kind = "gateway", NEW f \in FamiliesOf(op)
               PROVE  kernel[f] = Setting(RouterKey(f))
    BY DEF GatewayAgrees
  <2>1. op \in Requests
    BY DEF Succeeded, TypeOK
  <2>2. DoneBefore(Len(op.value) + 1)
    BY <2>1 DEF SuccessInv, Succeeded
  <2>3. PICK k \in DOMAIN op.value : /\ LastBefore(op.value, k, Len(op.value) + 1)
                                     /\ FamilyOf(op.value[k]) = f
    BY <2>1, LastWordIs
  <2>4. kernel[f] = Asked(op.value[k]) /\ Val(Lines, RouterKey(f)) = Asked(op.value[k])
    BY <2>2, <2>3 DEF DoneBefore, InKernel, InFile
  <2> QED
    BY <2>4, SettingIs
<1> QED
  BY <1>1, SuccessCorrect, PTL

=============================================================================
