-------------------------- MODULE ScriptFilesProofs --------------------------
(***************************************************************************)
(* Theorems about ScriptFiles: a killed script leaves the old or the new   *)
(* files, and one that ends has done what Ifcfg says, for any addresses,   *)
(* any requests and any number of scripts and kills.                       *)
(***************************************************************************)
EXTENDS ScriptFiles, NaturalsInduction, WellFoundedInduction, TLAPS

Places == {"off", "clear", "copy", "backup", "create", "write", "remove", "move", "rmbak"}

TypeOK ==
  /\ main \in Config /\ main.alias = {} /\ (~main.exists => main = Absent)
  /\ alias \in SUBSET Addr4
  /\ found \in Config /\ (~found.exists => MainOf(found) = Absent)
  /\ req \in Requests
  /\ pc \in Places

\* The script is about the request its place belongs to.
PlaceFits ==
  /\ pc \in {"copy", "write"} => req.op = "ip"
  /\ pc \in {"backup", "create"} => req.op = "dhcp"
  /\ pc = "copy" => Removes(req.value)
  /\ pc = "write" => ~Removes(req.value) /\ word \in 1..Len(req.value)
  /\ pc = "clear" => word = 1 /\ ~half
  /\ pc # "off" => outcome = "none"
  /\ outcome \in {"none", "ok", "failed", "killed"}

\* The old files are as they were found.
Untouched == main = MainOf(found) /\ alias = found.alias

\* add_ip6() finds the n-th word's address in one of an earlier word.
PassedOver(n) == \E k \in 1..(n - 1) : <<req.value[n], req.value[k]>> \in PartOf

\* The addresses of the first n words that go into ifcfg-<name>.
MainIps(n) == {req.value[k] : k \in {m \in 1..n : ~HasAlias(m) /\ ~PassedOver(m)}}

\* The alias files that are complete after n words.
AliasesOf(n) == {req.value[k] : k \in {m \in 1..n : HasAlias(m)}}

\* What is in bak after n words.
Written(n) ==
  [main  |-> IF MainIps(n) = {} THEN Absent ELSE [MainOf(Goal) EXCEPT !.ips = MainIps(n)],
   alias |-> AliasesOf(n)]

WholeBak == [main |-> MainOf(Goal), alias |-> Goal.alias]

\* bak, place by place.
BakInv ==
  /\ bak = [main |-> bak.main, alias |-> bak.alias]
  /\ pc \in {"copy", "backup"} => bak = NoFiles
  /\ pc = "create" => bak.alias = Goal.alias
  /\ pc = "write" =>
       IF ~half
       THEN bak = Written(word - 1)
       ELSE IF HasAlias(word)
       THEN bak.main = Written(word - 1).main /\ bak.alias = AliasesOf(word - 1) \cup {Half}
       ELSE bak.alias = AliasesOf(word - 1)
              /\ bak.main = [MainOf(Goal) EXCEPT !.ips = MainIps(word - 1) \cup {Half}]
  /\ pc = "remove" => bak = WholeBak

\* The files in use, place by place.
FilesInv ==
  /\ pc \in {"clear", "copy", "backup", "create", "write"} => Untouched
  /\ pc = "remove" => main \in {MainOf(found), Absent} /\ alias \subseteq found.alias
  /\ pc = "move" =>
       \/ /\ bak = WholeBak /\ alias = {}
          /\ main \in {MainOf(found), Absent} /\ (req.op = "ip" => main = Absent)
       \/ bak.main = Absent /\ main = MainOf(Goal) /\ alias \cup bak.alias = Goal.alias
  /\ pc = "rmbak" => main = MainOf(Goal) /\ alias = Goal.alias

IInv == TypeOK /\ PlaceFits /\ BakInv /\ FilesInv /\ OldOrNew /\ EndsAsAsked /\ FailureChangesNothing

-----------------------------------------------------------------------------
(* About configurations. *)

LEMMA MainOfConfig ==
  ASSUME NEW c \in Config
  PROVE  /\ MainOf(c) \in Config /\ MainOf(c).alias = {} /\ MainOf(MainOf(c)) = MainOf(c)
         /\ MainOf(c).exists = c.exists
         /\ [MainOf(c) EXCEPT !.alias = c.alias] = c
         /\ c.alias \in SUBSET Addr4
BY DEF MainOf, Config

LEMMA StoredConfig ==
  ASSUME NEW m \in Config, m.alias = {}, NEW al \in SUBSET Addr4
  PROVE  /\ [m EXCEPT !.alias = al] \in Config
         /\ MainOf([m EXCEPT !.alias = al]) = m
         /\ [m EXCEPT !.alias = al].alias = al
         /\ [m EXCEPT !.alias = al].exists = m.exists
BY DEF MainOf, Config

LEMMA AbsentConfig == Absent \in Config /\ Absent.alias = {} /\ MainOf(Absent) = Absent /\ ~Absent.exists
<1>1. Absent \in Config
  <2>1. {} \in SUBSET (Addr4 \cup Addr6) /\ {} \in SUBSET Addr4
    OBVIOUS
  <2> QED
    BY <2>1 DEF Absent, Config
<1>2. MainOf(Absent) = Absent
  <2>1. Absent.alias = {}
    BY DEF Absent
  <2> QED
    BY <1>1, <2>1 DEF Config, MainOf
<1> QED
  BY <1>1, <1>2 DEF Absent

\* What a script makes of a configuration is a configuration.
LEMMA DhcpIsConfig ==
  ASSUME NEW c \in Config, NEW protos
  PROVE  /\ DhcpConfig(c, protos) \in Config
         /\ DhcpConfig(c, protos).alias = IF "4" \in protos THEN {} ELSE c.alias
         /\ DhcpConfig(c, protos).exists
<1> DEFINE kept == IF "4" \in protos THEN {} ELSE c.alias
<1>1. kept \in SUBSET Addr4 /\ {} \in SUBSET (Addr4 \cup Addr6)
  BY DEF Config
<1>2. DhcpConfig(c, protos) =
        [Absent EXCEPT !.exists = TRUE, !.dhcp4 = "4" \in protos, !.dhcp6 = "6" \in protos,
                       !.alias = kept]
  BY DEF DhcpConfig
<1>3. ("4" \in protos) \in BOOLEAN /\ ("6" \in protos) \in BOOLEAN
  OBVIOUS
<1> HIDE DEF kept
<1>4. /\ DhcpConfig(c, protos) \in Config
      /\ DhcpConfig(c, protos).alias = kept
      /\ DhcpConfig(c, protos).exists
  BY <1>1, <1>2, <1>3, AbsentConfig DEF Config
<1> QED
  BY <1>4 DEF kept

LEMMA NoAddressIsConfig ==
  ASSUME NEW c \in Config, ~c.exists => MainOf(c) = Absent
  PROVE  /\ NoAddressConfig(c) \in Config
         /\ NoAddressConfig(c).alias = {}
         /\ MainOf(NoAddressConfig(c)) =
              IF c.exists THEN [MainOf(c) EXCEPT !.ips = {}] ELSE Absent
         /\ NoAddressConfig(c).exists = c.exists
BY AbsentConfig DEF NoAddressConfig, Config, MainOf

LEMMA StaticIsConfig ==
  ASSUME NEW value, Tokens(value) # {}, NEW protos
  PROVE  /\ StaticConfig(value, protos) \in Config
         /\ StaticConfig(value, protos).alias = IPv4Of(value) \ FirstIPv4(value)
         /\ StaticConfig(value, protos).ips = FirstIPv4(value) \cup WrittenIPv6(value)
         /\ StaticConfig(value, protos).exists
<1>1. /\ IPv4Of(value) \subseteq Addr4 /\ FirstIPv4(value) \subseteq Addr4
      /\ WrittenIPv6(value) \subseteq Addr6
  BY DEF IPv4Of, FirstIPv4, WrittenIPv6
<1> DEFINE i4 == IPv4Of(value)
           i6 == IPv6Of(value)
           w6 == WrittenIPv6(value)
           f4 == FirstIPv4(value)
<1>2. f4 \cup w6 \in SUBSET (Addr4 \cup Addr6) /\ i4 \ f4 \in SUBSET Addr4
  BY <1>1
<1>3. (i4 = {} /\ "4" \in protos) \in BOOLEAN /\ (i6 = {} /\ "6" \in protos) \in BOOLEAN
  OBVIOUS
<1>4. StaticConfig(value, protos) =
        [Absent EXCEPT !.exists = TRUE,
                       !.dhcp4 = i4 = {} /\ "4" \in protos, !.dhcp6 = i6 = {} /\ "6" \in protos,
                       !.ips = f4 \cup w6, !.alias = i4 \ f4]
  BY DEF StaticConfig
<1> HIDE DEF i4, i6, w6, f4
<1>5. /\ StaticConfig(value, protos) \in Config
      /\ StaticConfig(value, protos).alias = i4 \ f4
      /\ StaticConfig(value, protos).ips = f4 \cup w6
      /\ StaticConfig(value, protos).exists
  BY <1>2, <1>3, <1>4, AbsentConfig DEF Config
<1> QED
  BY <1>5 DEF i4, w6, f4

LEMMA GoalIsConfig ==
  ASSUME found \in Config, ~found.exists => MainOf(found) = Absent
  PROVE  /\ Goal \in Config
         /\ Goal.alias \in SUBSET Addr4
         /\ ~Goal.exists => Goal = Absent
         /\ req.op # "ip" => Goal.exists
<1>1. CASE req.op = "ip" /\ Removes(req.value)
  <2>1. Goal = NoAddressConfig(found)
    BY <1>1 DEF Goal, IpConfig
  <2>2. ~found.exists => NoAddressConfig(found) = Absent
    BY DEF NoAddressConfig
  <2> QED
    BY <1>1, <2>1, <2>2, NoAddressIsConfig, MainOfConfig
<1>2. CASE req.op = "ip" /\ ~Removes(req.value)
  <2>1. Goal = StaticConfig(req.value, req.protos)
    BY <1>2 DEF Goal, IpConfig
  <2>2. CASE Tokens(req.value) = {}
    <3>1. Goal = Absent
      BY <2>1, <2>2 DEF StaticConfig
    <3> QED
      BY <1>2, <3>1, AbsentConfig
  <2>3. CASE Tokens(req.value) # {}
    BY <1>2, <2>1, <2>3, StaticIsConfig, MainOfConfig
  <2> QED
    BY <2>2, <2>3
<1>3. CASE req.op # "ip"
  <2>1. Goal = DhcpConfig(found, req.protos)
    BY <1>3 DEF Goal
  <2> QED
    BY <1>3, <2>1, DhcpIsConfig, MainOfConfig
<1> QED
  BY <1>1, <1>2, <1>3

-----------------------------------------------------------------------------
(* About the list of addresses, word by word. *)

LEMMA NoWords == MainIps(0) = {} /\ AliasesOf(0) = {}
<1>1. 1..0 = {}
  OBVIOUS
<1> QED
  BY <1>1 DEF MainIps, AliasesOf

\* What add_ip6() finds in the file is what it would find in the words before: of those the
\* address is a part of, the first is in the file.
LEMMA FoundInFile ==
  ASSUME NEW n \in Nat \ {0}
  PROVE  PassedOver(n) <=> \E a \in MainIps(n - 1) : <<req.value[n], a>> \in PartOf
<1> DEFINE v == req.value
           Longer == {k \in 1..(n - 1) : <<v[n], v[k]>> \in PartOf}
           Less == OpToRel(<, Nat)
<1>1. ASSUME PassedOver(n)
      PROVE  \E a \in MainIps(n - 1) : <<v[n], a>> \in PartOf
  <2>1. Longer # {} /\ Longer \subseteq Nat
    BY <1>1 DEF PassedOver
  <2>2. \A x, y \in Nat : y < x => <<y, x>> \in Less
    BY DEF OpToRel
  <2>3. PICK k \in Longer : \A m \in Longer : <<m, k>> \notin Less
    <3> HIDE DEF Less, Longer
    <3> QED
      BY <2>1, NatLessThanWellFounded, WFMin DEF Less
  <2>4. v[n] \in Addr6 /\ v[k] \in Addr6 /\ k \in 1..(n - 1)
    BY <2>3, PartOfAssumption
  <2>5. ASSUME NEW j \in 1..(k - 1), <<v[k], v[j]>> \in PartOf PROVE FALSE
    <3>1. v[j] \in Addr6 /\ <<v[n], v[j]>> \in PartOf
      BY <2>3, <2>4, <2>5, PartOfAssumption
    <3>2. j \in Longer /\ j < k
      BY <2>4, <3>1
    <3> HIDE DEF Longer, Less
    <3> QED
      BY <2>1, <2>2, <2>3, <3>2
  <2>6. ~HasAlias(k) /\ ~PassedOver(k)
    BY <2>4, <2>5, AddrAssumption DEF HasAlias, PassedOver
  <2> QED
    BY <2>3, <2>4, <2>6 DEF MainIps
<1>2. ASSUME NEW a \in MainIps(n - 1), <<v[n], a>> \in PartOf
      PROVE  PassedOver(n)
  BY <1>2 DEF MainIps, PassedOver
<1> QED
  BY <1>1, <1>2

LEMMA NextWord ==
  ASSUME NEW n \in Nat \ {0}
  PROVE  /\ HasAlias(n) => /\ MainIps(n) = MainIps(n - 1)
                           /\ AliasesOf(n) = AliasesOf(n - 1) \cup {req.value[n]}
         /\ ~HasAlias(n) => /\ MainIps(n) = IF PassedOver(n) THEN MainIps(n - 1)
                                            ELSE MainIps(n - 1) \cup {req.value[n]}
                            /\ MainIps(n) # {}
                            /\ AliasesOf(n) = AliasesOf(n - 1)
<1>1. 1..n = (1..(n - 1)) \cup {n}
  OBVIOUS
<1>2. PassedOver(n) => MainIps(n - 1) # {}
  BY FoundInFile
<1>3. ~HasAlias(n) => /\ MainIps(n) = IF PassedOver(n) THEN MainIps(n - 1)
                                      ELSE MainIps(n - 1) \cup {req.value[n]}
                      /\ AliasesOf(n) = AliasesOf(n - 1)
  BY <1>1 DEF MainIps, AliasesOf
<1>4. HasAlias(n) => /\ MainIps(n) = MainIps(n - 1)
                     /\ AliasesOf(n) = AliasesOf(n - 1) \cup {req.value[n]}
  BY <1>1 DEF MainIps, AliasesOf
<1> QED
  BY <1>2, <1>3, <1>4

LEMMA MainIpsAreAddresses ==
  ASSUME NEW n, \A k \in 1..n : req.value[k] \in Addr4 \cup Addr6
  PROVE  MainIps(n) \subseteq Addr4 \cup Addr6
BY DEF MainIps

LEMMA AliasesAreAddr4 == ASSUME NEW n PROVE AliasesOf(n) \subseteq Addr4
BY DEF AliasesOf, HasAlias

\* After the last word everything that is to be written has been.
LEMMA LastWord ==
  ASSUME TypeOK, req.op = "ip", ~Removes(req.value), req.value # <<>>
  PROVE  Written(Len(req.value)) = WholeBak
<1> DEFINE v == req.value
<1>1. v \in Seq(Addr4 \cup Addr6 \cup {"remove"}) /\ v # <<>>
  BY RequestsAssumption DEF TypeOK
<1>2. Len(v) \in Nat \ {0} /\ DOMAIN v = 1..Len(v)
  BY <1>1
<1>3. \A k \in DOMAIN v : v[k] \in Addr4 \cup Addr6
  BY <1>1 DEF Removes, Tokens
<1>4. MainIps(Len(v)) = FirstIPv4(v) \cup WrittenIPv6(v)
  <2>1. \A k \in 1..Len(v) :
          v[k] \in Addr4 => ~PassedOver(k) /\ (~HasAlias(k) <=> v[k] \in FirstIPv4(v))
    BY AddrAssumption, PartOfAssumption DEF PassedOver, HasAlias
  <2>2. \A k \in 1..Len(v) :
          v[k] \in Addr6 => v[k] \notin Addr4 /\ ~HasAlias(k)
    BY AddrAssumption DEF HasAlias
  <2>3. ASSUME NEW x \in MainIps(Len(v)) PROVE x \in FirstIPv4(v) \cup WrittenIPv6(v)
    <3>1. PICK k \in 1..Len(v) : x = v[k] /\ ~HasAlias(k) /\ ~PassedOver(k)
      BY DEF MainIps
    <3> QED
      BY <1>2, <1>3, <2>1, <3>1 DEF WrittenIPv6, PassedOver
  <2>4. ASSUME NEW x \in FirstIPv4(v) PROVE x \in MainIps(Len(v))
    <3>1. PICK k \in 1..Len(v) : x = v[k] /\ v[k] \in Addr4
      BY <1>2 DEF FirstIPv4
    <3> QED
      BY <2>1, <3>1 DEF MainIps
  <2>5. ASSUME NEW x \in WrittenIPv6(v) PROVE x \in MainIps(Len(v))
    <3>1. PICK k \in 1..Len(v) : x = v[k] /\ v[k] \in Addr6 /\ ~PassedOver(k)
      BY <1>2 DEF WrittenIPv6, PassedOver
    <3> QED
      BY <2>2, <3>1 DEF MainIps
  <2> QED
    BY <2>3, <2>4, <2>5
<1>5. AliasesOf(Len(v)) = IPv4Of(v) \ FirstIPv4(v)
  BY <1>2 DEF AliasesOf, HasAlias, IPv4Of, Tokens
<1>6. MainIps(Len(v)) # {}
  <2>1. v[1] \in Addr4 => v[1] \in FirstIPv4(v)
    BY <1>2 DEF FirstIPv4
  <2>2. ~HasAlias(1) /\ 1 \in 1..Len(v)
    BY <2>1, <1>2 DEF HasAlias
  <2>3. v[1] \in MainIps(Len(v))
    <3>1. ~PassedOver(1)
      BY DEF PassedOver
    <3> QED
      BY <2>2, <3>1 DEF MainIps
  <2> QED
    BY <2>3
<1>7. Goal = StaticConfig(v, req.protos)
  BY DEF Goal, IpConfig
<1>8. Goal \in Config /\ Goal.alias = AliasesOf(Len(v)) /\ Goal.ips = MainIps(Len(v))
  <2>1. v[1] \in Tokens(v)
    BY <1>2 DEF Tokens
  <2> QED
    BY <1>4, <1>5, <1>7, <2>1, StaticIsConfig
<1>9. [MainOf(Goal) EXCEPT !.ips = MainIps(Len(v))] = MainOf(Goal)
  BY <1>8 DEF MainOf, Config
<1> QED
  BY <1>6, <1>8, <1>9 DEF Written, WholeBak

-----------------------------------------------------------------------------
(* The invariant. *)

LEMMA InitIInv == Init => IInv
<1> SUFFICES ASSUME Init PROVE IInv
  OBVIOUS
<1>1. PICK c \in Files : main = MainOf(c) /\ alias = c.alias /\ found = c
  BY DEF Init
<1>2. c \in Config /\ (~c.exists => MainOf(c) = Absent)
  BY FilesAssumption DEF MainOf
<1>3. TypeOK
  BY <1>1, <1>2, MainOfConfig DEF Init, TypeOK, Places
<1>4. PlaceFits /\ BakInv /\ FilesInv
  BY DEF Init, PlaceFits, BakInv, FilesInv, NoFiles
<1>5. OldOrNew /\ EndsAsAsked /\ FailureChangesNothing
  BY <1>1 DEF Init, OldOrNew, EndsAsAsked, FailureChangesNothing
<1> QED
  BY <1>3, <1>4, <1>5 DEF IInv

\* As long as the same script runs, what it is to do stays the same.
LEMMA SameScript ==
  ASSUME UNCHANGED <<req, found>>
  PROVE  /\ Goal' = Goal /\ WholeBak' = WholeBak
         /\ \A n : /\ HasAlias(n)' = HasAlias(n) /\ MainIps(n)' = MainIps(n)
                   /\ AliasesOf(n)' = AliasesOf(n) /\ Written(n)' = Written(n)
<1>1. Goal' = Goal
  BY DEF Goal
<1>2. \A n : HasAlias(n)' = HasAlias(n)
  BY DEF HasAlias
<1>3. \A n : MainIps(n)' = MainIps(n) /\ AliasesOf(n)' = AliasesOf(n)
  BY <1>2 DEF MainIps, AliasesOf, HasAlias, PassedOver
<1>4. \A n : Written(n)' = Written(n)
  BY <1>1, <1>3 DEF Written
<1> QED
  BY <1>1, <1>2, <1>3, <1>4 DEF WholeBak

\* What an invariant says of a script that runs and leaves the files in use alone.
LEMMA FilesAlone ==
  ASSUME IInv, UNCHANGED <<main, alias, req, found>>, pc' \in Places \ {"off"}, outcome' = outcome,
         pc # "off"
  PROVE  TypeOK' /\ OldOrNew' /\ EndsAsAsked' /\ FailureChangesNothing'
<1>1. TypeOK'
  BY DEF IInv, TypeOK
<1>2. OldOrNew'
  BY SameScript DEF IInv, OldOrNew
<1>3. outcome' = "none"
  BY DEF IInv, PlaceFits
<1> QED
  BY <1>1, <1>2, <1>3 DEF EndsAsAsked, FailureChangesNothing

\* A script that ends, whatever its end, without another change.
LEMMA EndKeepsInvariant ==
  ASSUME IInv, UNCHANGED <<main, alias, req, found>>, pc' = "off",
         outcome' \in {"ok", "failed", "killed"},
         bak' = [main |-> bak'.main, alias |-> bak'.alias],
         outcome' = "ok" => Stored = Goal, outcome' = "failed" => Stored = found
  PROVE  IInv'
<1>1. TypeOK'
  BY DEF IInv, TypeOK, Places
<1>2. OldOrNew'
  BY SameScript DEF IInv, OldOrNew
<1>3. Stored' = Stored
  BY DEF Stored
<1>4. EndsAsAsked' /\ FailureChangesNothing'
  BY <1>3, SameScript DEF EndsAsAsked, FailureChangesNothing
<1>5. PlaceFits' /\ BakInv' /\ FilesInv'
  BY DEF PlaceFits, BakInv, FilesInv
<1> QED
  BY <1>1, <1>2, <1>4, <1>5 DEF IInv

LEMMA StartKeepsInvariant == ASSUME IInv, Start PROVE IInv'
<1>1. /\ main \in Config /\ main.alias = {} /\ alias \in SUBSET Addr4
      /\ (~main.exists => main = Absent)
  BY DEF IInv, TypeOK
<1>2. /\ found' \in Config /\ MainOf(found') = main /\ found'.alias = alias
      /\ found'.exists = main.exists
  BY <1>1, StoredConfig DEF Start, Stored
<1>3. TypeOK'
  BY <1>1, <1>2 DEF Start, TypeOK, Places
<1>4. PlaceFits' /\ BakInv'
  BY DEF Start, PlaceFits, IInv, BakInv
<1>5. Untouched'
  BY <1>2 DEF Start, Untouched
<1>6. FilesInv'
  BY <1>5 DEF Start, FilesInv
<1>7. OldOrNew' /\ EndsAsAsked' /\ FailureChangesNothing'
  BY <1>5 DEF Start, OldOrNew, EndsAsAsked, FailureChangesNothing, Untouched
<1> QED
  BY <1>3, <1>4, <1>6, <1>7 DEF IInv

LEMMA ClearBakKeepsInvariant == ASSUME IInv, ClearBak PROVE IInv'
<1>1. UNCHANGED <<main, alias, req, word, half, found, outcome, scripts>> /\ bak' = NoFiles
  BY DEF ClearBak, Goto
<1>2. /\ req.op = "ip" /\ Removes(req.value) => pc' = "copy"
      /\ req.op = "ip" /\ ~Removes(req.value) =>
           pc' = IF req.value = <<>> THEN "remove" ELSE "write"
      /\ req.op # "ip" => pc' = "backup"
  <2>1. req.op \in {"ip", "dhcp"}
    BY RequestsAssumption DEF IInv, TypeOK
  <2> QED
    BY <2>1 DEF ClearBak, Goto, FirstStep
<1>3. req \in Requests /\ pc = "clear" /\ word = 1 /\ ~half
  BY DEF IInv, TypeOK, PlaceFits, ClearBak
<1>4. /\ req.op \in {"ip", "dhcp"}
      /\ req.op = "ip" /\ req.value # <<>> => Len(req.value) \in Nat \ {0}
  BY <1>3, RequestsAssumption
<1>5. TypeOK' /\ OldOrNew' /\ EndsAsAsked' /\ FailureChangesNothing'
  BY <1>1, <1>2, <1>3, FilesAlone DEF Places
<1>6. PlaceFits'
  BY <1>1, <1>2, <1>3, <1>4 DEF IInv, PlaceFits
<1>7. BakInv'
  <2>1. Written(0) = NoFiles
    BY NoWords DEF Written, NoFiles
  <2>2. pc' = "remove" => bak' = WholeBak
    <3> SUFFICES ASSUME pc' = "remove" PROVE bak' = WholeBak
      OBVIOUS
    <3>1. req.op = "ip" /\ ~Removes(req.value) /\ req.value = <<>>
      BY <1>2, <1>4
    <3>2. Tokens(req.value) = {}
      BY <3>1 DEF Tokens
    <3>3. Goal = Absent
      BY <3>1, <3>2 DEF Goal, IpConfig, StaticConfig
    <3> QED
      BY <1>1, <3>3, AbsentConfig DEF NoFiles, WholeBak
  <2> QED
    BY <1>1, <1>2, <1>3, <1>4, <2>1, <2>2, SameScript DEF BakInv, NoFiles
<1>8. FilesInv'
  BY <1>1, <1>2, <1>3, <1>4 DEF IInv, FilesInv, Untouched
<1> QED
  BY <1>5, <1>6, <1>7, <1>8 DEF IInv

LEMMA CopyMainKeepsInvariant == ASSUME IInv, CopyMain PROVE IInv'
<1>1. /\ UNCHANGED <<main, alias, req, word, half, found, outcome, scripts>>
      /\ pc = "copy" /\ pc' = "remove"
  BY DEF CopyMain, Goto
<1>2. /\ main = MainOf(found) /\ alias = found.alias /\ bak = NoFiles
      /\ found \in Config /\ (~found.exists => MainOf(found) = Absent)
      /\ req.op = "ip" /\ Removes(req.value)
  BY <1>1 DEF IInv, TypeOK, PlaceFits, BakInv, FilesInv, Untouched
<1>3. Goal = NoAddressConfig(found)
  BY <1>2 DEF Goal, IpConfig
<1>4. bak' = WholeBak
  BY <1>2, <1>3, NoAddressIsConfig, MainOfConfig DEF CopyMain, NoFiles, WholeBak
<1>5. TypeOK' /\ OldOrNew' /\ EndsAsAsked' /\ FailureChangesNothing'
  BY <1>1, FilesAlone DEF Places
<1>6. PlaceFits'
  BY <1>1 DEF IInv, PlaceFits
<1>7. BakInv'
  BY <1>1, <1>4, SameScript DEF BakInv, WholeBak
<1>8. FilesInv'
  BY <1>1, <1>2 DEF FilesInv
<1> QED
  BY <1>5, <1>6, <1>7, <1>8 DEF IInv

LEMMA BackupAliasesKeepsInvariant == ASSUME IInv, BackupAliases PROVE IInv'
<1>1. /\ UNCHANGED <<main, alias, req, word, half, found, outcome, scripts>>
      /\ pc = "backup" /\ pc' = "create"
  BY DEF BackupAliases, Goto
<1>2. /\ main = MainOf(found) /\ alias = found.alias /\ bak = NoFiles
      /\ found \in Config /\ req.op = "dhcp"
  BY <1>1 DEF IInv, TypeOK, PlaceFits, BakInv, FilesInv, Untouched
<1>3. Goal.alias = IF "4" \in req.protos THEN {} ELSE alias
  BY <1>2, DhcpIsConfig DEF Goal
<1>4. bak' = [main |-> Absent, alias |-> Goal.alias]
  BY <1>2, <1>3 DEF BackupAliases, NoFiles
<1>5. TypeOK' /\ OldOrNew' /\ EndsAsAsked' /\ FailureChangesNothing'
  BY <1>1, FilesAlone DEF Places
<1>6. PlaceFits'
  BY <1>1, <1>2 DEF IInv, PlaceFits
<1>7. BakInv'
  BY <1>1, <1>4, SameScript DEF BakInv
<1>8. FilesInv'
  BY <1>1, <1>2 DEF FilesInv, Untouched
<1> QED
  BY <1>5, <1>6, <1>7, <1>8 DEF IInv

LEMMA CreateMainKeepsInvariant == ASSUME IInv, CreateMain PROVE IInv'
<1>1. /\ UNCHANGED <<main, alias, req, word, half, found, outcome, scripts>>
      /\ pc = "create" /\ pc' = "remove"
  BY DEF CreateMain, Goto
<1>2. /\ main = MainOf(found) /\ alias = found.alias
      /\ bak = [main |-> bak.main, alias |-> Goal.alias]
  BY <1>1 DEF IInv, BakInv, FilesInv, Untouched
<1>3. bak' = WholeBak
  BY <1>2 DEF CreateMain, WholeBak
<1>4. TypeOK' /\ OldOrNew' /\ EndsAsAsked' /\ FailureChangesNothing'
  BY <1>1, FilesAlone DEF Places
<1>5. PlaceFits'
  BY <1>1 DEF IInv, PlaceFits
<1>6. BakInv'
  BY <1>1, <1>3, SameScript DEF BakInv, WholeBak
<1>7. FilesInv'
  BY <1>1, <1>2 DEF FilesInv
<1> QED
  BY <1>4, <1>5, <1>6, <1>7 DEF IInv

LEMMA BeginWordKeepsInvariant == ASSUME IInv, BeginWord PROVE IInv'
<1>1. /\ UNCHANGED <<main, alias, pc, req, word, found, outcome, scripts>>
      /\ pc = "write" /\ ~half /\ half'
  BY DEF BeginWord
<1>2. bak = Written(word - 1)
  BY <1>1 DEF IInv, BakInv
<1>3. IF HasAlias(word)
        THEN bak' = [main |-> Written(word - 1).main, alias |-> AliasesOf(word - 1) \cup {Half}]
        ELSE bak' = [main |-> [MainOf(Goal) EXCEPT !.ips = MainIps(word - 1) \cup {Half}],
                     alias |-> AliasesOf(word - 1)]
  <2>1. bak.main.ips = MainIps(word - 1)
    <3>1. Absent.ips = {}
      BY DEF Absent
    <3>2. [MainOf(Goal) EXCEPT !.ips = MainIps(word - 1)].ips = MainIps(word - 1)
      BY GoalIsConfig, MainOfConfig DEF IInv, TypeOK, Config
    <3> QED
      BY <1>2, <3>1, <3>2 DEF Written
  <2> QED
    BY <1>2, <2>1 DEF BeginWord, Written
<1>4. TypeOK' /\ OldOrNew' /\ EndsAsAsked' /\ FailureChangesNothing'
  BY <1>1, FilesAlone DEF Places
<1>5. PlaceFits'
  BY <1>1 DEF IInv, PlaceFits
<1>6. BakInv'
  BY <1>1, <1>3, SameScript DEF BakInv
<1>7. FilesInv'
  BY <1>1 DEF IInv, FilesInv, Untouched
<1> QED
  BY <1>4, <1>5, <1>6, <1>7 DEF IInv

LEMMA EndWordKeepsInvariant == ASSUME IInv, EndWord PROVE IInv'
<1>1. /\ UNCHANGED <<main, alias, req, found, outcome, scripts>>
      /\ pc = "write" /\ half /\ ~half'
  BY DEF EndWord
<1>2. /\ TypeOK /\ req \in Requests /\ req.op = "ip" /\ ~Removes(req.value)
      /\ word \in 1..Len(req.value) /\ main = MainOf(found) /\ alias = found.alias
  BY <1>1 DEF IInv, TypeOK, PlaceFits, FilesInv, Untouched
<1>3. Len(req.value) \in Nat /\ word \in Nat \ {0}
  BY <1>2, RequestsAssumption
<1>4. bak' = Written(word)
  <2>1. CASE HasAlias(word)
    <3>1. bak = [main |-> Written(word - 1).main, alias |-> AliasesOf(word - 1) \cup {Half}]
      BY <1>1, <2>1 DEF IInv, BakInv
    <3>2. Half \notin AliasesOf(word - 1)
      BY AliasesAreAddr4, HalfAssumption
    <3>3. bak' = [main |-> Written(word - 1).main,
                  alias |-> AliasesOf(word - 1) \cup {req.value[word]}]
      BY <2>1, <3>1, <3>2 DEF EndWord
    <3> QED
      BY <1>3, <2>1, <3>3, NextWord DEF Written
  <2>2. CASE ~HasAlias(word)
    <3> DEFINE ips == MainIps(word - 1)
               half_written == [MainOf(Goal) EXCEPT !.ips = ips \cup {Half}]
    <3>1. bak = [main |-> half_written, alias |-> AliasesOf(word - 1)]
      BY <1>1, <2>2 DEF IInv, BakInv
    <3>2. MainOf(Goal) \in Config
      BY <1>2, GoalIsConfig, MainOfConfig DEF TypeOK
    <3>3. half_written.ips = ips \cup {Half} /\ Half \notin ips
      <4>1. \A k \in 1..(word - 1) : req.value[k] \in Addr4 \cup Addr6
        BY <1>2, <1>3, RequestsAssumption DEF Removes, Tokens
      <4>2. Half \notin ips
        BY <4>1, MainIpsAreAddresses, HalfAssumption
      <4> QED
        BY <3>2, <4>2 DEF Config
    <3>4. WithWord(half_written) = [half_written EXCEPT !.ips = MainIps(word)]
      <4>1. PassedOver(word) <=> \E a \in ips : <<req.value[word], a>> \in PartOf
        BY <1>3, FoundInFile
      <4>2. MainIps(word) = ips \cup IF PassedOver(word) THEN {} ELSE {req.value[word]}
        BY <1>3, <2>2, NextWord
      <4>3. half_written.ips \ {Half} = ips
        BY <3>3
      <4> HIDE DEF ips, half_written
      <4> QED
        BY <4>1, <4>2, <4>3 DEF WithWord
    <3>5. bak' = [bak EXCEPT !.main = WithWord(bak.main)]
      BY <2>2 DEF EndWord
    <3>6. bak' = [main |-> [half_written EXCEPT !.ips = MainIps(word)],
                  alias |-> AliasesOf(word - 1)]
      <4> HIDE DEF half_written
      <4> QED
        BY <3>1, <3>4, <3>5
    <3>7. [half_written EXCEPT !.ips = MainIps(word)] = [MainOf(Goal) EXCEPT !.ips = MainIps(word)]
      BY <3>2 DEF Config
    <3> QED
      BY <1>3, <2>2, <3>6, <3>7, NextWord DEF Written
  <2> QED
    BY <2>1, <2>2
<1>5. \/ word = Len(req.value) /\ pc' = "remove" /\ word' = word
      \/ word < Len(req.value) /\ pc' = "write" /\ word' = word + 1
  BY <1>1, <1>2, <1>3 DEF EndWord
<1>6. TypeOK' /\ OldOrNew' /\ EndsAsAsked' /\ FailureChangesNothing'
  BY <1>1, <1>5, FilesAlone DEF Places
<1>7. PlaceFits'
  BY <1>1, <1>2, <1>3, <1>5 DEF IInv, PlaceFits
<1>8. BakInv'
  <2>1. CASE word = Len(req.value) /\ pc' = "remove"
    <3>1. bak' = WholeBak
      BY <1>2, <1>4, <2>1, LastWord
    <3> QED
      BY <1>1, <2>1, <3>1, SameScript DEF BakInv, WholeBak
  <2>2. CASE pc' = "write" /\ word' = word + 1
    <3>1. word' - 1 = word
      BY <1>3, <2>2
    <3> QED
      BY <1>1, <1>4, <2>2, <3>1, SameScript DEF BakInv, Written
  <2> QED
    BY <1>5, <2>1, <2>2
<1>9. FilesInv'
  BY <1>1, <1>2, <1>5 DEF FilesInv, Untouched
<1> QED
  BY <1>6, <1>7, <1>8, <1>9 DEF IInv

LEMMA RemoveKeepsInvariant == ASSUME IInv, Remove PROVE IInv'
<1>1. UNCHANGED <<bak, req, word, half, found, outcome, scripts>> /\ pc = "remove"
  BY DEF Remove
<1>2. /\ main \in Config /\ main.alias = {} /\ (~main.exists => main = Absent)
      /\ alias \in SUBSET Addr4 /\ outcome = "none"
      /\ main \in {MainOf(found), Absent} /\ alias \subseteq found.alias /\ bak = WholeBak
  BY <1>1 DEF IInv, TypeOK, PlaceFits, BakInv, FilesInv
<1>3. \/ main' = Absent /\ alias' = alias /\ pc' = "remove"
      \/ main' = main /\ alias' \subseteq alias /\ pc' = "remove"
      \/ /\ main' = main /\ alias = {} /\ alias' = {} /\ pc' = "move"
         /\ req.op = "ip" => ~main.exists
  BY <1>1 DEF Remove
<1>4. TypeOK'
  BY <1>1, <1>2, <1>3, AbsentConfig DEF IInv, TypeOK, Places
<1>5. /\ main' \in {MainOf(found), Absent} /\ alias' \subseteq found.alias
  BY <1>2, <1>3
<1>6. OldOrNew' /\ EndsAsAsked' /\ FailureChangesNothing'
  BY <1>1, <1>2, <1>5, SameScript DEF OldOrNew, EndsAsAsked, FailureChangesNothing
<1>7. PlaceFits'
  BY <1>1, <1>3 DEF IInv, PlaceFits
<1>8. BakInv'
  BY <1>1, <1>2, <1>3, SameScript DEF BakInv, WholeBak
<1>9. FilesInv'
  BY <1>1, <1>2, <1>3, <1>5, SameScript DEF FilesInv
<1> QED
  BY <1>4, <1>6, <1>7, <1>8, <1>9 DEF IInv

\* The main file is moved before the alias files, so that these never stand beside an old one.
LEMMA MoveKeepsInvariant == ASSUME IInv, Move PROVE IInv'
<1>1. /\ UNCHANGED <<req, word, half, found, outcome, scripts>>
      /\ pc = "move"
      /\ bak = [main |-> bak.main, alias |-> bak.alias]
  BY DEF Move, IInv, BakInv
<1>2. /\ Goal \in Config /\ Goal.alias \in SUBSET Addr4
      /\ ~Goal.exists => Goal = Absent
      /\ req.op # "ip" => Goal.exists
      /\ MainOf(Goal) \in Config /\ MainOf(Goal).alias = {}
      /\ MainOf(Goal).exists = Goal.exists
  BY GoalIsConfig, MainOfConfig DEF IInv, TypeOK
<1>3. MainOf(Goal) = Absent => Goal = Absent /\ req.op = "ip" /\ Goal.alias = {}
  BY <1>2, AbsentConfig
<1>4. ~MainOf(Goal).exists => MainOf(Goal) = Absent
  BY <1>2, AbsentConfig
<1>5. /\ \/ pc' = "move" /\ bak'.main = Absent /\ alias' \cup bak'.alias = Goal.alias
         \/ pc' = "rmbak" /\ alias' = Goal.alias
      /\ main' = MainOf(Goal)
      /\ bak' = [main |-> bak'.main, alias |-> bak'.alias]
  <2>1. CASE bak = WholeBak /\ alias = {} /\ (req.op = "ip" => main = Absent)
    <3>1. CASE MainOf(Goal) # Absent
      BY <1>1, <2>1, <3>1 DEF Move, WholeBak
    <3>2. CASE MainOf(Goal) = Absent
      BY <1>1, <1>3, <2>1, <3>2 DEF Move, WholeBak
    <3> QED
      BY <3>1, <3>2
  <2>2. CASE bak.main = Absent /\ main = MainOf(Goal) /\ alias \cup bak.alias = Goal.alias
    <3>1. CASE bak.alias = {}
      BY <1>1, <2>2, <3>1 DEF Move
    <3>2. CASE bak.alias # {}
      <4>1. PICK a \in bak.alias : /\ alias' = alias \cup {a}
                                   /\ bak' = [bak EXCEPT !.alias = @ \ {a}]
                                   /\ UNCHANGED <<main, pc>>
        BY <2>2, <3>2 DEF Move
      <4>2. bak' = [main |-> Absent, alias |-> bak.alias \ {a}]
        BY <1>1, <2>2, <4>1
      <4>3. alias' \cup bak'.alias = Goal.alias
        BY <2>2, <4>1, <4>2
      <4> QED
        BY <1>1, <2>2, <4>1, <4>2, <4>3
    <3> QED
      BY <3>1, <3>2
  <2> QED
    BY <1>1, <2>1, <2>2 DEF IInv, FilesInv
<1>6. alias' \subseteq Goal.alias
  BY <1>5
<1>7. TypeOK'
  BY <1>1, <1>2, <1>4, <1>5, <1>6 DEF IInv, TypeOK, Places
<1>8. outcome' = "none"
  BY <1>1 DEF IInv, PlaceFits
<1>9. OldOrNew' /\ EndsAsAsked' /\ FailureChangesNothing'
  BY <1>1, <1>5, <1>6, <1>8, SameScript DEF OldOrNew, EndsAsAsked, FailureChangesNothing, MainOf
<1>10. PlaceFits'
  BY <1>5, <1>8 DEF PlaceFits
<1>11. BakInv'
  BY <1>5 DEF BakInv
<1>12. MainOf(Goal)' = MainOf(Goal) /\ Goal' = Goal
  BY <1>1, SameScript DEF MainOf
<1>13. FilesInv'
  BY <1>5, <1>12 DEF FilesInv
<1> QED
  BY <1>7, <1>9, <1>10, <1>11, <1>13 DEF IInv

LEMMA RemoveBakKeepsInvariant == ASSUME IInv, RemoveBak PROVE IInv'
<1>1. main = MainOf(Goal) /\ alias = Goal.alias
  BY DEF RemoveBak, IInv, FilesInv
<1>2. Goal \in Config
  BY GoalIsConfig DEF IInv, TypeOK
<1>3. Stored = Goal
  BY <1>1, <1>2, MainOfConfig DEF Stored
<1> QED
  BY <1>3, EndKeepsInvariant DEF RemoveBak, Ends, NoFiles

\* A full disk ends the script only while it writes into bak.
LEMMA DiskFullKeepsInvariant == ASSUME IInv, DiskFull PROVE IInv'
<1>1. /\ main = MainOf(found) /\ alias = found.alias /\ found \in Config
      /\ bak = [main |-> bak.main, alias |-> bak.alias]
  BY DEF DiskFull, IInv, TypeOK, BakInv, FilesInv, Untouched
<1>2. Stored = found
  BY <1>1, MainOfConfig DEF Stored
<1> QED
  BY <1>1, <1>2, EndKeepsInvariant DEF DiskFull, Ends

LEMMA KillKeepsInvariant == ASSUME IInv, Kill PROVE IInv'
<1>1. bak = [main |-> bak.main, alias |-> bak.alias]
  BY DEF IInv, BakInv
<1> QED
  BY <1>1, EndKeepsInvariant DEF Kill, Ends

LEMMA StutterKeepsInvariant == ASSUME IInv, UNCHANGED vars PROVE IInv'
<1>1. UNCHANGED <<main, alias, bak, pc, req, word, half, found, outcome, scripts>>
  BY DEF vars
<1>2. TypeOK'
  BY <1>1 DEF IInv, TypeOK
<1>3. PlaceFits' /\ BakInv' /\ FilesInv'
  BY <1>1, SameScript DEF IInv, PlaceFits, BakInv, FilesInv, Untouched
<1>4. OldOrNew' /\ EndsAsAsked' /\ FailureChangesNothing'
  BY <1>1, SameScript DEF IInv, OldOrNew, EndsAsAsked, FailureChangesNothing, Stored
<1> QED
  BY <1>2, <1>3, <1>4 DEF IInv

LEMMA Invariance == Spec => []IInv
<1>1. IInv /\ [Next]_vars => IInv'
  BY StartKeepsInvariant, ClearBakKeepsInvariant, CopyMainKeepsInvariant,
     BackupAliasesKeepsInvariant, CreateMainKeepsInvariant, BeginWordKeepsInvariant,
     EndWordKeepsInvariant, RemoveKeepsInvariant, MoveKeepsInvariant,
     RemoveBakKeepsInvariant, DiskFullKeepsInvariant, KillKeepsInvariant,
     StutterKeepsInvariant DEF Next
<1> QED
  BY <1>1, InitIInv, PTL DEF Spec

\* What is in use is at no time, not even after a kill of redhat-set_ip.sh or
\* redhat-set_dhcp.sh at any of their steps, a half-written file, nor a mixture of the old
\* files and the new.
THEOREM OldOrNewHolds == Spec => []OldOrNew
<1>1. IInv => OldOrNew
  BY DEF IInv
<1> QED
  BY <1>1, Invariance, PTL

\* A script that ends leaves what Ifcfg's operators say, whatever is in bak when it starts.
THEOREM EndsAsAskedHolds == Spec => []EndsAsAsked
<1>1. IInv => EndsAsAsked
  BY DEF IInv
<1> QED
  BY <1>1, Invariance, PTL

\* A script that finds the disk full has not touched the files in use.
THEOREM FailureChangesNothingHolds == Spec => []FailureChangesNothing
<1>1. IInv => FailureChangesNothing
  BY DEF IInv
<1> QED
  BY <1>1, Invariance, PTL
=============================================================================
