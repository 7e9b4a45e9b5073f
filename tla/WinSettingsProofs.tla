-------------------------- MODULE WinSettingsProofs --------------------------
(***************************************************************************)
(* Proofs about WinSettings: the handlers make well-formed commands of any *)
(* command line, an adapter whose addresses --dhcp has changed is turned   *)
(* off and on, the names are complete before the computer's name is        *)
(* touched, and the addresses are what the options mean, or an error is    *)
(* reported where one is missing; so are the servers and the gateways, and *)
(* a run that meets no fault is refused for a reason only.                 *)
(*                                                                         *)
(* The handlers glue lists of commands together with FlattenSeq, which is  *)
(* recursive.  Facts about it are proved by induction over the naturals,   *)
(* in the form of a fact about sets, which needs no operator as parameter. *)
(***************************************************************************)
EXTENDS WinSettings, FiniteSetTheorems, TLAPS

-----------------------------------------------------------------------------
(* Lists of lists. *)

LEMMA Least ==
  ASSUME NEW S, S \subseteq Nat, S # {}
  PROVE  \E n \in S : \A m \in S : n <= m
<1> DEFINE Less == OpToRel(<, Nat)
<1>1. \A x, y \in Nat : y < x => <<y, x>> \in Less
  BY DEF OpToRel
<1>2. IsWellFoundedOn(Less, Nat)
  BY NatLessThanWellFounded
<1> HIDE DEF Less
<1>3. PICK x \in S : \A y \in S : ~(<<y, x>> \in Less)
  BY <1>2, WFMin
<1>4. \A y \in S : y \in Nat /\ x \in Nat /\ ~(y < x)
  BY <1>1, <1>3
<1> QED
  BY <1>4

LEMMA Induction ==
  ASSUME NEW S, 0 \in S, \A n \in Nat : n \in S => n + 1 \in S
  PROVE  Nat \subseteq S
<1> SUFFICES ASSUME Nat \ S # {} PROVE FALSE
  OBVIOUS
<1>1. PICK n \in Nat \ S : \A m \in Nat \ S : n <= m
  BY Least
<1> QED
  BY <1>1

LEMMA FlattenExists ==
  ASSUME NEW seqs, NEW len \in Nat
  PROVE  \E f : f = [i \in 1..len |-> IF i = 1 THEN seqs[i] ELSE f[i - 1] \o seqs[i]]
<1> DEFINE S == {n \in Nat : \E f : f = [i \in 1..n |-> IF i = 1 THEN seqs[i] ELSE f[i - 1] \o seqs[i]]}
<1>1. 0 \in S
  <2> DEFINE e == [i \in {} |-> 0]
  <2>0. 1..0 = {}
    OBVIOUS
  <2>1. e = [i \in 1..0 |-> IF i = 1 THEN seqs[i] ELSE e[i - 1] \o seqs[i]]
    BY <2>0
  <2> HIDE DEF e
  <2> QED
    BY <2>1
<1>2. ASSUME NEW n \in Nat, n \in S PROVE n + 1 \in S
  <2>1. PICK f : f = [i \in 1..n |-> IF i = 1 THEN seqs[i] ELSE f[i - 1] \o seqs[i]]
    BY <1>2
  <2> DEFINE g == [i \in 1..(n + 1) |-> IF i = 1 THEN seqs[1] ELSE IF i <= n THEN f[i] ELSE f[i - 1] \o seqs[i]]
  <2>2. ASSUME NEW i \in 1..(n+1) PROVE g[i] = IF i = 1 THEN seqs[i] ELSE g[i - 1] \o seqs[i]
    <3>1. CASE i = 1
      BY <3>1
    <3>2. CASE i # 1
      <4>1. i - 1 \in 1..n /\ i - 1 \in 1..(n + 1)
        BY <3>2
      <4>2. g[i - 1] = f[i - 1]
        <5>1. CASE i - 1 = 1
          <6>1. f[1] = seqs[1]
            BY <2>1, <4>1, <5>1
          <6> QED
            BY <4>1, <5>1, <6>1
        <5>2. CASE i - 1 # 1
          <6>1. g[i - 1] = IF i - 1 <= n THEN f[i - 1] ELSE f[i - 1 - 1] \o seqs[i - 1]
            BY <4>1, <5>2
          <6> QED
            BY <4>1, <6>1
        <5> QED
          BY <5>1, <5>2
      <4>3. CASE i <= n
        <5>1. g[i] = f[i]
          BY <3>2, <4>3
        <5>2. i \in 1..n
          BY <4>3
        <5>3. f[i] = IF i = 1 THEN seqs[i] ELSE f[i - 1] \o seqs[i]
          BY <2>1, <5>2
        <5> QED
          BY <3>2, <4>2, <5>1, <5>3
      <4>4. CASE ~(i <= n)
        <5>1. g[i] = f[i - 1] \o seqs[i]
          BY <3>2, <4>4
        <5> QED
          BY <3>2, <4>2, <5>1
      <4> QED
        BY <4>3, <4>4
    <3> QED
      BY <3>1, <3>2
  <2>3. g = [i \in 1..(n + 1) |-> g[i]]
    OBVIOUS
  <2> HIDE DEF g
  <2>4. g = [i \in 1..(n + 1) |-> IF i = 1 THEN seqs[i] ELSE g[i - 1] \o seqs[i]]
    BY <2>2, <2>3
  <2>5. n + 1 \in Nat
    OBVIOUS
  <2> QED
    BY <2>4, <2>5
<1> HIDE DEF S
<1>3. Nat \subseteq S
  BY <1>1, <1>2, Induction
<1> QED
  BY <1>3 DEF S

LEMMA FlattenDef ==
  ASSUME NEW seqs, Len(seqs) \in Nat \ {0}
  PROVE  \E f : /\ f = [i \in 1..Len(seqs) |-> IF i = 1 THEN seqs[i] ELSE f[i - 1] \o seqs[i]]
                /\ FlattenSeq(seqs) = f[Len(seqs)]
<1>1. \E f : f = [i \in 1..Len(seqs) |-> IF i = 1 THEN seqs[i] ELSE f[i - 1] \o seqs[i]]
  BY FlattenExists
<1> QED
  BY <1>1 DEF FlattenSeq

LEMMA FlattenType ==
  ASSUME NEW S, NEW seqs \in Seq(Seq(S))
  PROVE  FlattenSeq(seqs) \in Seq(S)
<1>1. CASE Len(seqs) = 0
  BY <1>1 DEF FlattenSeq
<1>2. CASE Len(seqs) # 0
  <2>1. Len(seqs) \in Nat \ {0} /\ \A i \in 1..Len(seqs) : seqs[i] \in Seq(S)
    BY <1>2
  <2>2. PICK f : /\ f = [i \in 1..Len(seqs) |-> IF i = 1 THEN seqs[i] ELSE f[i - 1] \o seqs[i]]
                 /\ FlattenSeq(seqs) = f[Len(seqs)]
    BY <2>1, FlattenDef
  <2>3. ASSUME NEW i \in 1..Len(seqs) PROVE f[i] = IF i = 1 THEN seqs[i] ELSE f[i - 1] \o seqs[i]
    BY <2>2
  <2> DEFINE T == {n \in Nat : n \in 1..Len(seqs) => f[n] \in Seq(S)}
  <2>4. 0 \in T
    OBVIOUS
  <2>5. ASSUME NEW n \in Nat, n \in T PROVE n + 1 \in T
    <3> SUFFICES ASSUME n + 1 \in 1..Len(seqs) PROVE f[n + 1] \in Seq(S)
      OBVIOUS
    <3>1. seqs[n + 1] \in Seq(S)
      BY <2>1
    <3>2. CASE n = 0
      BY <2>3, <3>1, <3>2
    <3>3. CASE n # 0
      <4>1. f[n] \in Seq(S)
        BY <2>5, <3>3
      <4>2. (n + 1) - 1 = n /\ n + 1 # 1
        BY <3>3
      <4>3. f[n + 1] = f[n] \o seqs[n + 1]
        BY <2>3, <4>2
      <4> QED
        BY <3>1, <4>1, <4>3
    <3> QED
      BY <3>2, <3>3
  <2> HIDE DEF T
  <2>6. Nat \subseteq T
    BY <2>4, <2>5, Induction
  <2>7. Len(seqs) \in T /\ Len(seqs) \in 1..Len(seqs)
    BY <2>1, <2>6
  <2> QED
    BY <2>2, <2>7 DEF T
<1> QED
  BY <1>1, <1>2

LEMMA EachType ==
  ASSUME NEW T, NEW words \in Seq(T), NEW S, NEW list,
         list = [k \in DOMAIN words |-> list[k]],
         \A k \in DOMAIN words : list[k] \in Seq(S)
  PROVE  list \in Seq(Seq(S)) /\ FlattenSeq(list) \in Seq(S)
<1>1. DOMAIN words = 1..Len(words) /\ Len(words) \in Nat
  OBVIOUS
<1>2. list \in Seq(Seq(S))
  BY <1>1
<1> QED
  BY <1>2, FlattenType

LEMMA FlattenTwo ==
  ASSUME NEW a, NEW b
  PROVE  FlattenSeq(<<a, b>>) = a \o b
<1> DEFINE s == <<a, b>>
<1>1. Len(s) = 2 /\ Len(s) \in Nat \ {0} /\ s[1] = a /\ s[2] = b
  OBVIOUS
<1> HIDE DEF s
<1>2. PICK f : /\ f = [i \in 1..Len(s) |-> IF i = 1 THEN s[i] ELSE f[i - 1] \o s[i]]
               /\ FlattenSeq(s) = f[Len(s)]
  BY <1>1, FlattenDef
<1>3. \A i \in 1..2 : f[i] = IF i = 1 THEN s[i] ELSE f[i - 1] \o s[i]
  BY <1>1, <1>2
<1>4. f[1] = a /\ f[2] = f[2 - 1] \o b /\ 2 - 1 = 1
  BY <1>1, <1>3
<1>5. FlattenSeq(s) = a \o b
  BY <1>1, <1>2, <1>4
<1> QED
  BY <1>5 DEF s

\* The elements of a finite set in some order.
LEMMA SetToSeqType ==
  ASSUME NEW S, IsFiniteSet(S)
  PROVE  SetToSeq(S) \in Seq(S)
<1> DEFINE n == Cardinality(S)
<1>1. n \in Nat /\ ExistsBijection(1..n, S)
  BY FS_CardinalityType
<1>2. PICK f \in [1..n -> S] : IsInjective(f)
  BY <1>1 DEF ExistsBijection, Bijection, Injection, IsInjective
<1>3. SetToSeq(S) \in [1..n -> S]
  BY <1>2 DEF SetToSeq
<1> QED
  BY <1>1, <1>3

-----------------------------------------------------------------------------
(* The handlers make well-formed lists. *)

NameOps == {"host", "domain", "computer"}

\* Commands of the handlers other than set_dhcp() and set_hostname().
Plain     == {c \in Commands : c.op \notin NameOps \cup {"unchanged"}}
NameFree  == {c \in Commands : c.op \notin NameOps}

LEMMA PlainCommands ==
  ASSUME NEW e \in OnError
  PROVE  /\ \A a \in Addr4 : Cmd("set4", a, e) \in Seq(Plain) /\ Cmd("add4", a, e) \in Seq(Plain)
         /\ \A a \in Addr6 : Cmd("del6", a, e) \in Seq(Plain) /\ Cmd("put6", a, e) \in Seq(Plain)
         /\ Cmd("dhcp4", None, e) \in Seq(Plain) /\ Cmd("delroute", None, e) \in Seq(Plain)
         /\ \A f \in Family : /\ Cmd("delgw", f, e) \in Seq(Plain)
                              /\ DnsFromDhcp(f, e) \in Seq(Plain)
                              /\ Cmd("dns", [family |-> f, to |-> <<>>], e) \in Seq(Plain)
         /\ \A w \in Word : /\ Cmd("adddns", w, e) \in Seq(Plain)
                            /\ Cmd("wrong", w, e) \in Seq(Plain)
                            /\ Cmd("convert", w, e) \in Seq(Plain)
         /\ \A a \in Gateway4 \cup Gateway6 : Cmd("addgw", a, e) \in Seq(Plain)
         /\ \A a \in Route : Cmd("addroute", a, e) \in Seq(Plain)
         /\ \A a \in Seq(Domain \cup {RemoveV4}) : Cmd("search", a, e) \in Seq(Plain)
<1> USE DEF Cmd, Plain, Commands, NameOps
<1>1. \A a \in Addr4 : Cmd("set4", a, e) \in Seq(Plain) /\ Cmd("add4", a, e) \in Seq(Plain)
  OBVIOUS
<1>2. \A a \in Addr6 : Cmd("del6", a, e) \in Seq(Plain) /\ Cmd("put6", a, e) \in Seq(Plain)
  OBVIOUS
<1>3. Cmd("dhcp4", None, e) \in Seq(Plain) /\ Cmd("delroute", None, e) \in Seq(Plain)
  OBVIOUS
<1>4. ASSUME NEW f \in Family
      PROVE  /\ Cmd("delgw", f, e) \in Seq(Plain)
             /\ DnsFromDhcp(f, e) \in Seq(Plain)
             /\ Cmd("dns", [family |-> f, to |-> <<>>], e) \in Seq(Plain)
  BY DEF DnsFromDhcp
<1>5. ASSUME NEW w \in Word
      PROVE  /\ Cmd("adddns", w, e) \in Seq(Plain)
             /\ Cmd("wrong", w, e) \in Seq(Plain)
             /\ Cmd("convert", w, e) \in Seq(Plain)
  OBVIOUS
<1>6. /\ \A a \in Gateway4 \cup Gateway6 : Cmd("addgw", a, e) \in Seq(Plain)
      /\ \A a \in Route : Cmd("addroute", a, e) \in Seq(Plain)
  OBVIOUS
<1>7. \A a \in Seq(Domain \cup {RemoveV4}) : Cmd("search", a, e) \in Seq(Plain)
  OBVIOUS
<1> QED
  BY <1>1, <1>2, <1>3, <1>4, <1>5, <1>6, <1>7

\* Commands that leave the addresses alone, and whose failure does not drop others.
AddressOps == {"set4", "add4", "dhcp4", "del6", "put6"}
Apart      == {c \in Plain : c.op \notin AddressOps /\ c.onError # "stop"}

LEMMA ApartIsPlain == Seq(Apart) \subseteq Seq(Plain)
<1>1. Apart \subseteq Plain
  BY DEF Apart
<1> QED
  BY <1>1

LEMMA ApartCommands ==
  ASSUME NEW e \in OnError \ {"stop"}
  PROVE  /\ Cmd("delroute", None, e) \in Seq(Apart)
         /\ \A f \in Family : /\ Cmd("delgw", f, e) \in Seq(Apart)
                              /\ Cmd("dns", [family |-> f, to |-> <<>>], e) \in Seq(Apart)
         /\ \A w \in Word : Cmd("adddns", w, e) \in Seq(Apart)
         /\ \A a \in Gateway4 \cup Gateway6 : Cmd("addgw", a, e) \in Seq(Apart)
         /\ \A a \in Route : Cmd("addroute", a, e) \in Seq(Apart)
         /\ \A a \in Seq(Domain \cup {RemoveV4}) : Cmd("search", a, e) \in Seq(Apart)
<1> USE DEF Cmd, Apart, Plain, Commands, NameOps, AddressOps
<1>1. Cmd("delroute", None, e) \in Seq(Apart)
  OBVIOUS
<1>2. ASSUME NEW f \in Family
      PROVE  /\ Cmd("delgw", f, e) \in Seq(Apart)
             /\ Cmd("dns", [family |-> f, to |-> <<>>], e) \in Seq(Apart)
  OBVIOUS
<1>3. \A w \in Word : Cmd("adddns", w, e) \in Seq(Apart)
  OBVIOUS
<1>4. /\ \A a \in Gateway4 \cup Gateway6 : Cmd("addgw", a, e) \in Seq(Apart)
      /\ \A a \in Route : Cmd("addroute", a, e) \in Seq(Apart)
  OBVIOUS
<1>5. \A a \in Seq(Domain \cup {RemoveV4}) : Cmd("search", a, e) \in Seq(Apart)
  OBVIOUS
<1> QED
  BY <1>1, <1>2, <1>3, <1>4, <1>5

\* The words of the option in hand are those of a command line.
LEMMA WordsType ==
  ASSUME TypeOK, NEW kind \in Kind
  PROVE  /\ Words(kind) \in Seq(Word)
         /\ Given(kind) => 1 \in DOMAIN opts[kind] /\ Words(kind) = opts[kind][1]
<1>1. opts[kind] \in Seq(Seq(Word))
  BY DEF TypeOK, IsLine
<1>2. CASE Given(kind)
  BY <1>1, <1>2 DEF Given, Words
<1>3. CASE ~Given(kind)
  BY <1>3 DEF Given, Words
<1> QED
  BY <1>2, <1>3

LEMMA KindType == Kind = {"dhcp", "ip", "gateway", "search", "dns", "route", "hostname"}
BY DEF Kind, ToSet, all_flags

LEMMA DeletionsType ==
  ASSUME TypeOK, NEW e \in OnError
  PROVE  remove_ipv6_ips(e) \in Seq(Plain)
<1> DEFINE list == SetToSeq(found.ip6)
<1>1. IsFiniteSet(found.ip6) /\ found.ip6 \subseteq Addr6
  BY SystemsAssumption, FS_Subset DEF TypeOK, System
<1>2. list \in Seq(Addr6)
  BY <1>1, SetToSeqType
<1>3. remove_ipv6_ips(e) = FlattenSeq([k \in DOMAIN list |-> Cmd("del6", list[k], e)])
  BY DEF remove_ipv6_ips, ForEach
<1> HIDE DEF list
<1>4. \A k \in DOMAIN list : Cmd("del6", list[k], e) \in Seq(Plain)
  BY <1>2, PlainCommands
<1>5. [k \in DOMAIN list |-> Cmd("del6", list[k], e)] \in Seq(Seq(Plain))
  BY <1>2, <1>4
<1> QED
  BY <1>3, <1>5, FlattenType

\* set_dhcp() says that a family's DHCP is unchanged only where it has not been asked to
\* change, or where there is nothing to change.
WantsRestart(f) ==
  /\ f \in Value("dhcp")
  /\ f = 4 => ~found.dhcp4
  /\ f = 6 => found.ip6 # {}

DhcpCommands == {c \in NameFree : c.op = "unchanged" => c.arg \in Family /\ ~WantsRestart(c.arg)}

LEMMA PlainIsDhcp == Seq(Plain) \subseteq Seq(DhcpCommands)
<1>1. Plain \subseteq DhcpCommands
  BY DEF Plain, DhcpCommands, NameFree
<1> QED
  BY <1>1

LEMMA DhcpType ==
  ASSUME TypeOK
  PROVE  set_dhcp \in Seq(DhcpCommands)
<1> DEFINE four == IF 4 \in Value("dhcp") /\ ~found.dhcp4
                     THEN DnsFromDhcp(4, "return") \o Cmd("dhcp4", None, "return")
                     ELSE Cmd("unchanged", 4, "ignore")
           six  == IF (6 \in Value("dhcp") \/ ~Given("ip")) /\ found.ip6 # {}
                     THEN DnsFromDhcp(6, "return") \o remove_ipv6_ips("return")
                     ELSE Cmd("unchanged", 6, "ignore")
<1>1. ASSUME NEW f \in Family, ~WantsRestart(f)
      PROVE  Cmd("unchanged", f, "ignore") \in Seq(DhcpCommands)
  <2> DEFINE c == [op |-> "unchanged", arg |-> f, onError |-> "ignore"]
  <2>1. c \in [op: {"unchanged", "delgw"}, arg: Family, onError: OnError]
    BY DEF OnError
  <2>2. c.op = "unchanged" /\ c.arg = f
    OBVIOUS
  <2> HIDE DEF c
  <2>3. c \in Commands
    BY <2>1 DEF Commands
  <2>4. c \in DhcpCommands
    BY <1>1, <2>2, <2>3 DEF DhcpCommands, NameFree, NameOps
  <2>5. <<c>> \in Seq(DhcpCommands)
    BY <2>4
  <2> QED
    BY <2>5 DEF c, Cmd
<1>2. DnsFromDhcp(4, "return") \in Seq(DhcpCommands) /\ DnsFromDhcp(6, "return") \in Seq(DhcpCommands)
  BY PlainCommands, PlainIsDhcp DEF OnError, Family
<1>3. Cmd("dhcp4", None, "return") \in Seq(DhcpCommands)
  BY PlainCommands, PlainIsDhcp DEF OnError
<1>4. remove_ipv6_ips("return") \in Seq(DhcpCommands)
  BY DeletionsType, PlainIsDhcp DEF OnError
<1>5. four \in Seq(DhcpCommands)
  <2>1. CASE 4 \in Value("dhcp") /\ ~found.dhcp4
    BY <1>2, <1>3, <2>1
  <2>2. CASE ~(4 \in Value("dhcp") /\ ~found.dhcp4)
    <3>1. ~WantsRestart(4)
      BY <2>2 DEF WantsRestart
    <3> QED
      BY <1>1, <2>2, <3>1 DEF Family
  <2> QED
    BY <2>1, <2>2
<1>6. six \in Seq(DhcpCommands)
  <2>1. CASE (6 \in Value("dhcp") \/ ~Given("ip")) /\ found.ip6 # {}
    BY <1>2, <1>4, <2>1
  <2>2. CASE ~((6 \in Value("dhcp") \/ ~Given("ip")) /\ found.ip6 # {})
    <3>1. ~WantsRestart(6)
      BY <2>2 DEF WantsRestart
    <3> QED
      BY <1>1, <2>2, <3>1 DEF Family
  <2> QED
    BY <2>1, <2>2
<1>7. set_dhcp = four \o six
  BY DEF set_dhcp
<1> HIDE DEF four, six
<1> QED
  BY <1>5, <1>6, <1>7

LEMMA IpWordType ==
  ASSUME TypeOK, NEW words \in Seq(Word), NEW k \in DOMAIN words
  PROVE  SetIpWord(words, k) \in Seq(Plain)
<1> DEFINE a == words[k]
<1>1. a \in Word
  OBVIOUS
<1>2. remove_ipv6_ips("return") \in Seq(Plain)
  BY DeletionsType DEF OnError
<1> HIDE DEF a
<1>3. CASE a = RemoveV4
  BY <1>3 DEF SetIpWord, a
<1>4. CASE a # RemoveV4 /\ a \in Addr4
  <2>1. Cmd("set4", a, "return") \in Seq(Plain) /\ Cmd("add4", a, "return") \in Seq(Plain)
    BY <1>4, PlainCommands DEF OnError
  <2>2. SetIpWord(words, k) = Cmd(IF First(words, k) THEN "set4" ELSE "add4", a, "return")
    BY <1>4 DEF SetIpWord, a
  <2>3. CASE First(words, k)
    BY <2>1, <2>2, <2>3
  <2>4. CASE ~First(words, k)
    BY <2>1, <2>2, <2>4
  <2> QED
    BY <2>3, <2>4
<1>5. CASE a # RemoveV4 /\ a \notin Addr4 /\ a \in Addr6
  <2>1. Cmd("put6", a, "return") \in Seq(Plain)
    BY <1>5, PlainCommands DEF OnError
  <2>2. SetIpWord(words, k) = (IF First(words, k) THEN remove_ipv6_ips("return") ELSE <<>>)
                              \o Cmd("put6", a, "return")
    BY <1>5 DEF SetIpWord, a
  <2> QED
    BY <1>2, <2>1, <2>2
<1>6. CASE a # RemoveV4 /\ a \notin Addr4 /\ a \notin Addr6
  <2>1. Cmd("wrong", a, "return") \in Seq(Plain)
    BY <1>1, PlainCommands DEF OnError
  <2>2. SetIpWord(words, k) = Cmd("wrong", a, "return")
    BY <1>6 DEF SetIpWord, a
  <2> QED
    BY <2>1, <2>2
<1> QED
  BY <1>3, <1>4, <1>5, <1>6

LEMMA IpType ==
  ASSUME TypeOK
  PROVE  set_ip \in Seq(Plain)
<1> DEFINE words == Words("ip")
           of(f) == {a \in Value("ip") : ~IsRemove(a) /\ FamilyOf(a) = f}
           list  == [k \in DOMAIN words |-> SetIpWord(words, k)]
           six   == IF of(6) = {} THEN DnsFromDhcp(6, "ignore") \o remove_ipv6_ips("stop") ELSE <<>>
           four  == IF RemoveV4 \in Value("ip") \/ (of(4) = {} /\ 4 \notin Value("dhcp"))
                      THEN Cmd("dhcp4", None, "ignore") ELSE <<>>
<1>1. words \in Seq(Word)
  BY WordsType, KindType
<1>2. list \in Seq(Seq(Plain))
  <2> HIDE DEF words
  <2>1. \A k \in DOMAIN words : SetIpWord(words, k) \in Seq(Plain)
    BY <1>1, IpWordType
  <2> QED
    BY <1>1, <2>1
<1>3. FlattenSeq(list) \in Seq(Plain)
  <2> HIDE DEF list
  <2> QED
    BY <1>2, FlattenType
<1>4. six \in Seq(Plain)
  <2>1. DnsFromDhcp(6, "ignore") \in Seq(Plain)
    BY PlainCommands DEF OnError, Family
  <2>2. remove_ipv6_ips("stop") \in Seq(Plain)
    BY DeletionsType DEF OnError
  <2> QED
    BY <2>1, <2>2
<1>5. four \in Seq(Plain)
  BY PlainCommands DEF OnError
<1>6. set_ip = FlattenSeq(list) \o six \o four
  BY DEF set_ip, ForEach
<1> HIDE DEF list, six, four
<1> QED
  BY <1>3, <1>4, <1>5, <1>6

LEMMA DnsType ==
  ASSUME TypeOK
  PROVE  set_dns \in Seq(Apart)
<1> DEFINE words == Words("dns")
           firstOf(k) == \A n \in 1..(k - 1) : FamilyOf(words[n]) # FamilyOf(words[k])
           clear(k) == Cmd("dns", [family |-> FamilyOf(words[k]), to |-> <<>>], "negative")
           add(k) == Cmd("adddns", words[k], "negative")
           list == [k \in DOMAIN words |-> (IF firstOf(k) THEN clear(k) ELSE <<>>) \o add(k)]
<1>1. words \in Seq(Word)
  BY WordsType, KindType
<1>2. set_dns = FlattenSeq(list)
  BY DEF set_dns, ForEach
<1>3. ASSUME NEW k \in DOMAIN words
      PROVE  (IF firstOf(k) THEN clear(k) ELSE <<>>) \o add(k) \in Seq(Apart)
  <2>1. FamilyOf(words[k]) \in Family /\ words[k] \in Word
    BY <1>1 DEF FamilyOf, Family
  <2>2. clear(k) \in Seq(Apart) /\ add(k) \in Seq(Apart)
    BY <2>1, ApartCommands DEF OnError
  <2> HIDE DEF clear, add, firstOf
  <2> QED
    BY <2>2
<1>4. list = [k \in DOMAIN words |-> list[k]]
  OBVIOUS
<1>5. \A k \in DOMAIN words : list[k] \in Seq(Apart)
  BY <1>3
<1> HIDE DEF words, list
<1> QED
  BY <1>1, <1>2, <1>4, <1>5, EachType

LEMMA GatewayListType ==
  ASSUME NEW words \in Seq(Gateway4 \cup Gateway6 \cup {RemoveV4, RemoveV6})
  PROVE  set_gateway(words) \in Seq(Apart)
<1> DEFINE del(k) == Cmd("delgw", GatewayFamily(words[k]), "ignore")
           add(k) == Cmd("addgw", words[k], "ignore")
           list == [k \in DOMAIN words |-> del(k) \o (IF IsRemove(words[k]) THEN <<>> ELSE add(k))]
<1>1. set_gateway(words) = FlattenSeq(list)
  BY DEF set_gateway, ForEach
<1>2. ASSUME NEW k \in DOMAIN words
      PROVE  del(k) \o (IF IsRemove(words[k]) THEN <<>> ELSE add(k)) \in Seq(Apart)
  <2>1. GatewayFamily(words[k]) \in Family
    BY DEF GatewayFamily, Family
  <2>2. del(k) \in Seq(Apart)
    BY <2>1, ApartCommands DEF OnError
  <2>3. ~IsRemove(words[k]) => add(k) \in Seq(Apart)
    BY ApartCommands DEF OnError, IsRemove
  <2> HIDE DEF del, add
  <2> QED
    BY <2>2, <2>3
<1>3. list = [k \in DOMAIN words |-> list[k]]
  OBVIOUS
<1>4. \A k \in DOMAIN words : list[k] \in Seq(Apart)
  BY <1>2
<1> DEFINE Some == Gateway4 \cup Gateway6 \cup {RemoveV4, RemoveV6}
<1>5. words \in Seq(Some)
  OBVIOUS
<1> HIDE DEF list, Some
<1>6. FlattenSeq(list) \in Seq(Apart)
  BY <1>3, <1>4, <1>5, EachType
<1> QED
  BY <1>1, <1>6

LEMMA GatewaysType ==
  ASSUME TypeOK
  PROVE  Gateways \in Seq(Apart)
<1> DEFINE records == opts["gateway"]
           isPart(k) == records[k] = <<RemoveV4>>
           one == [k \in DOMAIN records |-> IF isPart(k) THEN set_gateway(records[k]) ELSE <<>>]
           two == [k \in DOMAIN records |-> IF isPart(k) THEN <<>> ELSE set_gateway(records[k])]
<1>1. records \in Seq(Seq(Word))
  BY KindType DEF TypeOK, IsLine
<1>2. ASSUME NEW k \in DOMAIN records
      PROVE  set_gateway(records[k]) \in Seq(Apart)
  BY GatewayListType DEF TypeOK, IsLine
<1>3. Gateways = FlattenSeq(one) \o FlattenSeq(two)
  BY DEF Gateways, ForEach
<1>4. one = [k \in DOMAIN records |-> one[k]] /\ two = [k \in DOMAIN records |-> two[k]]
  OBVIOUS
<1> HIDE DEF records, isPart
<1>5. \A k \in DOMAIN records : one[k] \in Seq(Apart) /\ two[k] \in Seq(Apart)
  BY <1>2
<1> HIDE DEF one, two
<1>6. FlattenSeq(one) \in Seq(Apart) /\ FlattenSeq(two) \in Seq(Apart)
  BY <1>1, <1>4, <1>5, EachType
<1> QED
  BY <1>3, <1>6

LEMMA RouteType ==
  ASSUME TypeOK
  PROVE  set_route \in Seq(Apart)
<1> DEFINE words == Words("route")
           list == [k \in DOMAIN words |->
                      IF IsRemove(words[k]) THEN Cmd("delroute", None, "ignore")
                                            ELSE Cmd("addroute", words[k], "ignore")]
<1>1. words \in Seq(Route \cup {RemoveV4, RemoveV6})
  <2>1. CASE Given("route")
    BY <2>1, WordsType, KindType DEF TypeOK, IsLine
  <2>2. CASE ~Given("route")
    BY <2>2 DEF Given, Words
  <2> QED
    BY <2>1, <2>2
<1>2. set_route = FlattenSeq(list)
  BY DEF set_route, ForEach
<1> HIDE DEF words
<1>3. \A k \in DOMAIN words : ~IsRemove(words[k]) => words[k] \in Route
  BY <1>1 DEF IsRemove
<1>4. \A k \in DOMAIN words :
        (IF IsRemove(words[k]) THEN Cmd("delroute", None, "ignore")
                              ELSE Cmd("addroute", words[k], "ignore")) \in Seq(Apart)
  BY <1>3, ApartCommands DEF OnError
<1>5. list \in Seq(Seq(Apart))
  BY <1>1, <1>4
<1> QED
  BY <1>2, <1>5, FlattenType

LEMMA SearchType ==
  ASSUME TypeOK, Given("search")
  PROVE  set_search_domain \in Seq(Apart)
<1>1. Words("search") \in Seq(Domain \cup {RemoveV4})
  BY WordsType, KindType DEF TypeOK, IsLine
<1> QED
  BY <1>1, ApartCommands DEF set_search_domain, OnError

-----------------------------------------------------------------------------
(* The names. *)

LEMMA RegType ==
  ASSUME NEW op, NEW k1, NEW k2, NEW to, NEW onError
  PROVE  SetReg(op, <<k1, k2>>, to, onError)
           = <<[op |-> op, arg |-> [key |-> k1, to |-> to], onError |-> onError],
               [op |-> op, arg |-> [key |-> k2, to |-> to], onError |-> onError]>>
<1> DEFINE c(k) == Cmd(op, [key |-> k, to |-> to], onError)
           keys == <<k1, k2>>
<1>1. SetReg(op, keys, to, onError) = FlattenSeq([k \in DOMAIN keys |-> c(keys[k])])
  BY DEF SetReg, ForEach
<1>2. [k \in DOMAIN keys |-> c(keys[k])] = <<c(k1), c(k2)>>
  <2> HIDE DEF c
  <2> QED
    OBVIOUS
<1>3. SetReg(op, keys, to, onError) = c(k1) \o c(k2)
  BY <1>1, <1>2, FlattenTwo
<1> QED
  BY <1>3 DEF Cmd

\* A system keeps its type when one of its fields is replaced by another of the field's type.
LEMMA Replacing ==
  ASSUME NEW A, NEW B, NEW C, NEW D, NEW E, NEW F, NEW G, NEW H, NEW I, NEW J,
         NEW w \in [dhcp4: A, ip4: B, ip6: C, dns: D, gw: E, routes: F, reg: G, domain: H,
                    computer: I, search: J]
  PROVE  LET S == [dhcp4: A, ip4: B, ip6: C, dns: D, gw: E, routes: F, reg: G, domain: H,
                   computer: I, search: J]
         IN
         /\ \A v \in A : [w EXCEPT !.dhcp4 = v] \in S
         /\ \A v \in B : [w EXCEPT !.ip4 = v] \in S
         /\ \A v \in C : [w EXCEPT !.ip6 = v] \in S
         /\ \A v \in D : [w EXCEPT !.dns = v] \in S
         /\ \A v \in E : [w EXCEPT !.gw = v] \in S
         /\ \A v \in F : [w EXCEPT !.routes = v] \in S
         /\ \A v \in G : [w EXCEPT !.reg = v] \in S
         /\ \A v \in H : [w EXCEPT !.domain = v] \in S
         /\ \A v \in I : [w EXCEPT !.computer = v] \in S
         /\ \A v \in J : [w EXCEPT !.search = v] \in S
OBVIOUS

LEMMA ReplacingField ==
  ASSUME NEW w \in System
  PROVE
    /\ w.dhcp4 \in BOOLEAN
    /\ w.ip4 \in SUBSET Addr4
    /\ w.ip6 \in SUBSET Addr6
    /\ w.dns \in [Family -> Seq(Dns4 \cup Dns6 \cup {DHCP})]
    /\ w.gw \in [Family -> SUBSET (Gateway4 \cup Gateway6)]
    /\ w.routes \in SUBSET Route
    /\ w.reg \in [HostKeys -> Host \cup {None}]
    /\ w.domain \in [DomainKeys -> Domain \cup {Empty, None}]
    /\ w.computer \in [ComputerKeys -> {NetbiosOf[h] : h \in Host} \cup {None}]
    /\ w.search \in Seq(Domain \cup {RemoveV4})
    /\ \A v \in BOOLEAN : [w EXCEPT !.dhcp4 = v] \in System
    /\ \A v \in SUBSET Addr4 : [w EXCEPT !.ip4 = v] \in System
    /\ \A v \in SUBSET Addr6 : [w EXCEPT !.ip6 = v] \in System
    /\ \A v \in [Family -> Seq(Dns4 \cup Dns6 \cup {DHCP})] : [w EXCEPT !.dns = v] \in System
    /\ \A v \in [Family -> SUBSET (Gateway4 \cup Gateway6)] : [w EXCEPT !.gw = v] \in System
    /\ \A v \in SUBSET Route : [w EXCEPT !.routes = v] \in System
    /\ \A v \in [HostKeys -> Host \cup {None}] : [w EXCEPT !.reg = v] \in System
    /\ \A v \in [DomainKeys -> Domain \cup {Empty, None}] : [w EXCEPT !.domain = v] \in System
    /\ \A v \in [ComputerKeys -> {NetbiosOf[h] : h \in Host} \cup {None}] : [w EXCEPT !.computer = v] \in System
    /\ \A v \in Seq(Domain \cup {RemoveV4}) : [w EXCEPT !.search = v] \in System
<1>1. w \in System
  OBVIOUS
<1> QED
  BY <1>1, Replacing DEF System

-----------------------------------------------------------------------------
(* What commands do. *)

LEMMA EffectType ==
  ASSUME NEW w \in System, NEW c \in Commands, ~Refused(w, c)
  PROVE  Effect(w, c) \in System
<1>0. \A word : FamilyOf(word) \in Family
  BY DEF FamilyOf, Family
<1>1. CASE c \in [op: {"set4", "add4"}, arg: Addr4, onError: OnError]
  <2>1. c.op \in {"set4", "add4"} /\ c.arg \in Addr4
    BY <1>1
  <2>2. CASE c.op = "set4"
    <3> DEFINE v == [w EXCEPT !.dhcp4 = FALSE]
               four == {c.arg}
    <3>1. Effect(w, c) = [v EXCEPT !.ip4 = four]
      BY <2>2 DEF Effect
    <3>2. v \in System
      BY ReplacingField
    <3>3. four \in SUBSET Addr4
      BY <2>1
    <3> HIDE DEF v, four
    <3>4. [v EXCEPT !.ip4 = four] \in System
      BY <3>2, <3>3, ReplacingField
    <3> QED
      BY <3>1, <3>4
  <2>3. CASE c.op = "add4"
    <3> DEFINE v == w.ip4 \cup {c.arg}
    <3>1. Effect(w, c) = [w EXCEPT !.ip4 = v]
      BY <2>3 DEF Effect
    <3>2. w.ip4 \in SUBSET Addr4
      BY ReplacingField
    <3>3. v \in SUBSET Addr4
      BY <1>0, <2>1, <3>2
    <3> HIDE DEF v
    <3>4. [w EXCEPT !.ip4 = v] \in System
      BY <3>3, ReplacingField
    <3> QED
      BY <3>1, <3>4
  <2> QED
    BY <2>1, <2>2, <2>3
<1>2. CASE c \in [op: {"del6", "put6"}, arg: Addr6, onError: OnError]
  <2>1. c.op \in {"del6", "put6"} /\ c.arg \in Addr6
    BY <1>2
  <2>2. CASE c.op = "del6"
    <3> DEFINE v == w.ip6 \ {c.arg}
    <3>1. Effect(w, c) = [w EXCEPT !.ip6 = v]
      BY <2>2 DEF Effect
    <3>2. w.ip6 \in SUBSET Addr6
      BY ReplacingField
    <3>3. v \in SUBSET Addr6
      BY <1>0, <2>1, <3>2
    <3> HIDE DEF v
    <3>4. [w EXCEPT !.ip6 = v] \in System
      BY <3>3, ReplacingField
    <3> QED
      BY <3>1, <3>4
  <2>3. CASE c.op = "put6"
    <3> DEFINE v == w.ip6 \cup {c.arg}
    <3>1. Effect(w, c) = [w EXCEPT !.ip6 = v]
      BY <2>3 DEF Effect
    <3>2. w.ip6 \in SUBSET Addr6
      BY ReplacingField
    <3>3. v \in SUBSET Addr6
      BY <1>0, <2>1, <3>2
    <3> HIDE DEF v
    <3>4. [w EXCEPT !.ip6 = v] \in System
      BY <3>3, ReplacingField
    <3> QED
      BY <3>1, <3>4
  <2> QED
    BY <2>1, <2>2, <2>3
<1>3. CASE c \in [op: {"dhcp4", "delroute"}, arg: {None}, onError: OnError]
  <2>1. c.op \in {"dhcp4", "delroute"} /\ c.arg \in {None}
    BY <1>3
  <2>2. CASE c.op = "dhcp4"
    <3> DEFINE v == [w EXCEPT !.dhcp4 = TRUE]
               four == {}
    <3>1. Effect(w, c) = [v EXCEPT !.ip4 = four]
      BY <2>2 DEF Effect
    <3>2. v \in System
      BY ReplacingField
    <3>3. four \in SUBSET Addr4
      BY <2>1
    <3> HIDE DEF v, four
    <3>4. [v EXCEPT !.ip4 = four] \in System
      BY <3>2, <3>3, ReplacingField
    <3> QED
      BY <3>1, <3>4
  <2>3. CASE c.op = "delroute"
    <3> DEFINE v == {}
    <3>1. Effect(w, c) = [w EXCEPT !.routes = v]
      BY <2>3 DEF Effect
    <3>2. w.routes \in SUBSET Route
      BY ReplacingField
    <3>3. v \in SUBSET Route
      BY <1>0, <2>1, <3>2
    <3> HIDE DEF v
    <3>4. [w EXCEPT !.routes = v] \in System
      BY <3>3, ReplacingField
    <3> QED
      BY <3>1, <3>4
  <2> QED
    BY <2>1, <2>2, <2>3
<1>4. CASE c \in [op: {"unchanged", "delgw"}, arg: Family, onError: OnError]
  <2>1. c.op \in {"unchanged", "delgw"} /\ c.arg \in Family
    BY <1>4
  <2>2. CASE c.op = "unchanged"
    BY <2>2 DEF Effect
  <2>3. CASE c.op = "delgw"
    <3> DEFINE v == [w.gw EXCEPT ![c.arg] = {}]
    <3>1. Effect(w, c) = [w EXCEPT !.gw = v]
      BY <2>3 DEF Effect
    <3>2. w.gw \in [Family -> SUBSET (Gateway4 \cup Gateway6)]
      BY ReplacingField
    <3>3. v \in [Family -> SUBSET (Gateway4 \cup Gateway6)]
      BY <1>0, <2>1, <3>2
    <3> HIDE DEF v
    <3>4. [w EXCEPT !.gw = v] \in System
      BY <3>3, ReplacingField
    <3> QED
      BY <3>1, <3>4
  <2> QED
    BY <2>1, <2>2, <2>3
<1>5. CASE c \in [op: {"dns"}, arg: [family: Family, to: {<<>>, <<DHCP>>}], onError: OnError]
  <2>0. <<>> \in Seq(Dns4 \cup Dns6 \cup {DHCP}) /\ <<DHCP>> \in Seq(Dns4 \cup Dns6 \cup {DHCP})
    OBVIOUS
  <2>1. c.op \in {"dns"} /\ c.arg.family \in Family /\ c.arg.to \in Seq(Dns4 \cup Dns6 \cup {DHCP})
    BY <1>5, <2>0
  <2>2. CASE c.op = "dns"
    <3> DEFINE v == [w.dns EXCEPT ![c.arg.family] = c.arg.to]
    <3>1. Effect(w, c) = [w EXCEPT !.dns = v]
      BY <2>2 DEF Effect
    <3>2. w.dns \in [Family -> Seq(Dns4 \cup Dns6 \cup {DHCP})]
      BY ReplacingField
    <3>3. v \in [Family -> Seq(Dns4 \cup Dns6 \cup {DHCP})]
      BY <1>0, <2>1, <3>2
    <3> HIDE DEF v
    <3>4. [w EXCEPT !.dns = v] \in System
      BY <3>3, ReplacingField
    <3> QED
      BY <3>1, <3>4
  <2> QED
    BY <2>1, <2>2
<1>6. CASE c \in [op: {"adddns", "wrong", "convert"}, arg: Word, onError: OnError]
  <2>1. c.op \in {"adddns", "wrong", "convert"}
    BY <1>6
  <2>2. CASE c.op = "adddns"
    <3> DEFINE f == FamilyOf(c.arg)
               old == w.dns[f]
               new == Append(IF old = <<DHCP>> THEN <<>> ELSE old, c.arg)
    <3>1. Effect(w, c) = [w EXCEPT !.dns = [w.dns EXCEPT ![f] = new]]
      BY <2>2 DEF Effect
    <3>2. f \in Family /\ w.dns \in [Family -> Seq(Dns4 \cup Dns6 \cup {DHCP})]
      BY <1>0, ReplacingField
    <3>3. c.arg \in Dns4 \cup Dns6
      BY <2>2 DEF Refused
    <3>4. old \in Seq(Dns4 \cup Dns6 \cup {DHCP})
      BY <3>2
    <3>5. new \in Seq(Dns4 \cup Dns6 \cup {DHCP})
      <4> HIDE DEF old
      <4> QED
        BY <3>3, <3>4
    <3> HIDE DEF f, new
    <3>6. [w.dns EXCEPT ![f] = new] \in [Family -> Seq(Dns4 \cup Dns6 \cup {DHCP})]
      BY <3>2, <3>5
    <3> DEFINE v == [w.dns EXCEPT ![f] = new]
    <3> HIDE DEF v
    <3>7. [w EXCEPT !.dns = v] \in System
      BY <3>6, ReplacingField DEF v
    <3> QED
      BY <3>1, <3>7 DEF v
  <2>3. CASE c.op \in {"wrong", "convert"}
    BY <2>3 DEF Effect
  <2> QED
    BY <2>1, <2>2, <2>3
<1>7. CASE c \in [op: {"addgw"}, arg: Gateway4 \cup Gateway6, onError: OnError]
  <2>1. c.op \in {"addgw"} /\ c.arg \in Gateway4 \cup Gateway6
    BY <1>7
  <2>2. CASE c.op = "addgw"
    <3> DEFINE v == [w.gw EXCEPT ![FamilyOf(c.arg)] = @ \cup {c.arg}]
    <3>1. Effect(w, c) = [w EXCEPT !.gw = v]
      BY <2>2 DEF Effect
    <3>2. w.gw \in [Family -> SUBSET (Gateway4 \cup Gateway6)]
      BY ReplacingField
    <3>3. v \in [Family -> SUBSET (Gateway4 \cup Gateway6)]
      BY <1>0, <2>1, <3>2
    <3> HIDE DEF v
    <3>4. [w EXCEPT !.gw = v] \in System
      BY <3>3, ReplacingField
    <3> QED
      BY <3>1, <3>4
  <2> QED
    BY <2>1, <2>2
<1>8. CASE c \in [op: {"addroute"}, arg: Route, onError: OnError]
  <2>1. c.op \in {"addroute"} /\ c.arg \in Route
    BY <1>8
  <2>2. CASE c.op = "addroute"
    <3> DEFINE v == w.routes \cup {c.arg}
    <3>1. Effect(w, c) = [w EXCEPT !.routes = v]
      BY <2>2 DEF Effect
    <3>2. w.routes \in SUBSET Route
      BY ReplacingField
    <3>3. v \in SUBSET Route
      BY <1>0, <2>1, <3>2
    <3> HIDE DEF v
    <3>4. [w EXCEPT !.routes = v] \in System
      BY <3>3, ReplacingField
    <3> QED
      BY <3>1, <3>4
  <2> QED
    BY <2>1, <2>2
<1>9. CASE c \in [op: {"host"}, arg: [key: HostKeys, to: Host], onError: OnError]
  <2>1. c.op \in {"host"} /\ c.arg.key \in HostKeys /\ c.arg.to \in Host
    BY <1>9
  <2>2. CASE c.op = "host"
    <3> DEFINE v == [w.reg EXCEPT ![c.arg.key] = c.arg.to]
    <3>1. Effect(w, c) = [w EXCEPT !.reg = v]
      BY <2>2 DEF Effect
    <3>2. w.reg \in [HostKeys -> Host \cup {None}]
      BY ReplacingField
    <3>3. v \in [HostKeys -> Host \cup {None}]
      BY <1>0, <2>1, <3>2
    <3> HIDE DEF v
    <3>4. [w EXCEPT !.reg = v] \in System
      BY <3>3, ReplacingField
    <3> QED
      BY <3>1, <3>4
  <2> QED
    BY <2>1, <2>2
<1>10. CASE c \in [op: {"domain"}, arg: [key: DomainKeys, to: Domain \cup {Empty}], onError: OnError]
  <2>1. c.op \in {"domain"} /\ c.arg.key \in DomainKeys /\ c.arg.to \in Domain \cup {Empty}
    BY <1>10
  <2>2. CASE c.op = "domain"
    <3> DEFINE v == [w.domain EXCEPT ![c.arg.key] = c.arg.to]
    <3>1. Effect(w, c) = [w EXCEPT !.domain = v]
      BY <2>2 DEF Effect
    <3>2. w.domain \in [DomainKeys -> Domain \cup {Empty, None}]
      BY ReplacingField
    <3>3. v \in [DomainKeys -> Domain \cup {Empty, None}]
      BY <1>0, <2>1, <3>2
    <3> HIDE DEF v
    <3>4. [w EXCEPT !.domain = v] \in System
      BY <3>3, ReplacingField
    <3> QED
      BY <3>1, <3>4
  <2> QED
    BY <2>1, <2>2
<1>11. CASE c \in [op: {"computer"}, arg: [key: ComputerKeys, to: {NetbiosOf[h] : h \in Host}],
                   onError: OnError]
  <2>1. c.op \in {"computer"} /\ c.arg.key \in ComputerKeys /\ c.arg.to \in {NetbiosOf[h] : h \in Host}
    BY <1>11
  <2>2. CASE c.op = "computer"
    <3> DEFINE v == [w.computer EXCEPT ![c.arg.key] = c.arg.to]
    <3>1. Effect(w, c) = [w EXCEPT !.computer = v]
      BY <2>2 DEF Effect
    <3>2. w.computer \in [ComputerKeys -> {NetbiosOf[h] : h \in Host} \cup {None}]
      BY ReplacingField
    <3>3. v \in [ComputerKeys -> {NetbiosOf[h] : h \in Host} \cup {None}]
      BY <1>0, <2>1, <3>2
    <3> HIDE DEF v
    <3>4. [w EXCEPT !.computer = v] \in System
      BY <3>3, ReplacingField
    <3> QED
      BY <3>1, <3>4
  <2> QED
    BY <2>1, <2>2
<1>12. CASE c \in [op: {"search"}, arg: Seq(Domain \cup {RemoveV4}), onError: OnError]
  <2>1. c.op \in {"search"} /\ c.arg \in Seq(Domain \cup {RemoveV4})
    BY <1>12
  <2>2. CASE c.op = "search"
    <3> DEFINE v == c.arg
    <3>1. Effect(w, c) = [w EXCEPT !.search = v]
      BY <2>2 DEF Effect
    <3>2. w.search \in Seq(Domain \cup {RemoveV4})
      BY ReplacingField
    <3>3. v \in Seq(Domain \cup {RemoveV4})
      BY <1>0, <2>1, <3>2
    <3> HIDE DEF v
    <3>4. [w EXCEPT !.search = v] \in System
      BY <3>3, ReplacingField
    <3> QED
      BY <3>1, <3>4
  <2> QED
    BY <2>1, <2>2
<1> QED
  BY <1>1, <1>2, <1>3, <1>4, <1>5, <1>6, <1>7, <1>8, <1>9, <1>10, <1>11, <1>12 DEF Commands

\* Only the commands for them change the names.
LEMMA EffectNames ==
  ASSUME NEW w \in System, NEW c \in Commands
  PROVE  LET w2 == Effect(w, c) IN
         /\ w2.reg = IF c.op = "host" THEN [w.reg EXCEPT ![c.arg.key] = c.arg.to] ELSE w.reg
         /\ w2.domain = IF c.op = "domain" THEN [w.domain EXCEPT ![c.arg.key] = c.arg.to] ELSE w.domain
         /\ c.op # "computer" => w2.computer = w.computer
<1>1. CASE c.op = "host"
  <2>1. Effect(w, c) = [w EXCEPT !.reg = [w.reg EXCEPT ![c.arg.key] = c.arg.to]]
    BY <1>1 DEF Effect
  <2> QED
    BY <1>1, <2>1 DEF System
<1>2. CASE c.op = "domain"
  <2>1. Effect(w, c) = [w EXCEPT !.domain = [w.domain EXCEPT ![c.arg.key] = c.arg.to]]
    BY <1>2 DEF Effect
  <2> QED
    BY <1>2, <2>1 DEF System
<1>3. CASE c.op = "computer"
  <2>1. Effect(w, c) = [w EXCEPT !.computer = [w.computer EXCEPT ![c.arg.key] = c.arg.to]]
    BY <1>3 DEF Effect
  <2> QED
    BY <1>3, <2>1 DEF System
<1>4. CASE c.op \notin NameOps
  BY <1>4 DEF Effect, System, NameOps
<1> QED
  BY <1>1, <1>2, <1>3, <1>4 DEF NameOps

-----------------------------------------------------------------------------
(* The order of the names.  A command that sets the computer's name finds  *)
(* each of TCP/IP's names set, or the command for it before itself in the  *)
(* list; a command of those that fails ends the handler.                   *)

IsFor(c, op, key) == c.op = op /\ c.arg.key = key
Pending(list, j, op, key) == \E m \in 1..(j - 1) : IsFor(list[m], op, key)

NamesOrdered(list) ==
  LET host   == Words("hostname")[1]
      domain == Words("hostname")[2]
  IN  \A j \in DOMAIN list :
        /\ list[j].op = "host" => list[j].arg.to = host /\ list[j].onError = "return"
        /\ list[j].op = "domain" /\ domain \in Domain
             => list[j].arg.to = domain /\ list[j].onError = "return"
        /\ list[j].op = "computer" =>
             /\ Given("hostname")
             /\ \A m \in DOMAIN list : list[m].onError # "stop"
             /\ \A key \in HostKeys : win.reg[key] = host \/ Pending(list, j, "host", key)
             /\ domain \in Domain =>
                  \A key \in DomainKeys : win.domain[key] = domain \/ Pending(list, j, "domain", key)

LEMMA NameFreeOrdered ==
  ASSUME NEW list \in Seq(NameFree)
  PROVE  NamesOrdered(list)
<1>1. \A j \in DOMAIN list : list[j].op \notin {"host", "domain", "computer"}
  BY DEF NameFree, NameOps
<1> QED
  BY <1>1 DEF NamesOrdered

LEMMA TwoLists ==
  ASSUME NEW S, NEW A \in Seq(S), NEW B \in Seq(S)
  PROVE  /\ A \o B \in Seq(S)
         /\ Len(A \o B) = Len(A) + Len(B)
         /\ \A i \in 1..Len(A) : (A \o B)[i] = A[i]
         /\ \A i \in 1..Len(B) : (A \o B)[Len(A) + i] = B[i]
<1>1. A \o B \in Seq(S) /\ Len(A \o B) = Len(A) + Len(B) /\ \A i \in 1..Len(A) : (A \o B)[i] = A[i]
  OBVIOUS
<1>2. \A i \in 1..Len(B) : (A \o B)[Len(A) + i] = B[i]
  OBVIOUS
<1> QED
  BY <1>1, <1>2

LEMMA ThreeLists ==
  ASSUME NEW S, NEW A \in Seq(S), NEW B \in Seq(S), NEW C \in Seq(S)
  PROVE  /\ A \o B \o C \in Seq(S)
         /\ Len(A \o B \o C) = Len(A) + Len(B) + Len(C)
         /\ \A i \in 1..Len(A) : (A \o B \o C)[i] = A[i]
         /\ \A i \in 1..Len(B) : (A \o B \o C)[Len(A) + i] = B[i]
         /\ \A i \in 1..Len(C) : (A \o B \o C)[Len(A) + Len(B) + i] = C[i]
<1>1. A \o B \in Seq(S) /\ Len(A \o B) = Len(A) + Len(B) /\ \A i \in 1..Len(A) : (A \o B)[i] = A[i]
  OBVIOUS
<1>2. \A i \in 1..Len(B) : (A \o B)[Len(A) + i] = B[i]
  OBVIOUS
<1>3. A \o B \o C \in Seq(S) /\ Len(A \o B \o C) = Len(A \o B) + Len(C)
  BY <1>1
<1>4. \A i \in 1..Len(A \o B) : (A \o B \o C)[i] = (A \o B)[i]
  BY <1>1
<1>5. \A i \in 1..Len(C) : (A \o B \o C)[Len(A \o B) + i] = C[i]
  BY <1>1
<1>6. \A i \in 1..Len(A) : (A \o B \o C)[i] = A[i]
  <2>1. \A i \in 1..Len(A) : i \in 1..Len(A \o B)
    BY <1>1
  <2> QED
    BY <1>1, <1>4, <2>1
<1>7. \A i \in 1..Len(B) : (A \o B \o C)[Len(A) + i] = B[i]
  <2>1. \A i \in 1..Len(B) : Len(A) + i \in 1..Len(A \o B)
    BY <1>1
  <2> QED
    BY <1>2, <1>4, <2>1
<1> QED
  BY <1>1, <1>3, <1>5, <1>6, <1>7

LEMMA OneAndTwo ==
  ASSUME NEW c, NEW d, NEW e
  PROVE  <<c>> \o <<d, e>> = <<c, d, e>>
<1> DEFINE S == {c, d, e}
           A == <<c>>
           B == <<d, e>>
           s == A \o B
           t == <<c, d, e>>
<1>1. A \in Seq(S) /\ B \in Seq(S)
  OBVIOUS
<1>2. Len(A) = 1 /\ Len(B) = 2 /\ A[1] = c /\ B[1] = d /\ B[2] = e
  OBVIOUS
<1>3. t = [i \in 1..3 |-> t[i]] /\ t[1] = c /\ t[2] = d /\ t[3] = e
  OBVIOUS
<1> HIDE DEF A, B, S, t
<1>4. /\ s \in Seq(S) /\ Len(s) = Len(A) + Len(B)
      /\ \A i \in 1..Len(A) : s[i] = A[i]
      /\ \A i \in 1..Len(B) : s[Len(A) + i] = B[i]
  BY <1>1, TwoLists
<1> HIDE DEF s
<1>5. Len(s) = 3
  BY <1>2, <1>4
<1>6. 1 \in 1..Len(A) /\ 1 \in 1..Len(B) /\ 2 \in 1..Len(B) /\ Len(A) + 1 = 2 /\ Len(A) + 2 = 3
  BY <1>2
<1>7. s[1] = A[1] /\ s[Len(A) + 1] = B[1] /\ s[Len(A) + 2] = B[2]
  BY <1>4, <1>6
<1>8. s[1] = c /\ s[2] = d /\ s[3] = e
  BY <1>2, <1>6, <1>7
<1>9. s = [i \in 1..3 |-> s[i]]
  <2>1. s \in Seq(S)
    BY <1>4
  <2> QED
    BY <1>5, <2>1
<1>10. 1..3 = {1, 2, 3}
  OBVIOUS
<1>11. \A i \in 1..3 : s[i] = t[i]
  BY <1>3, <1>8, <1>10
<1>12. s = t
  BY <1>3, <1>9, <1>11
<1> QED
  BY <1>12 DEF s, t, A, B

\* The commands of set_hostname()'s list for a host name it takes: the host name twice,
\* what there is to do for the domain, the computer's name twice.
HostCommand(c) == c.op = "host" /\ c.arg.to = Words("hostname")[1] /\ c.onError = "return"
DomainCommand(c) ==
  /\ c.op \in {"wrong", "domain"} /\ c.onError # "stop"
  /\ c.op = "wrong" => Words("hostname")[2] = Invalid
  /\ Words("hostname")[2] \in Domain => c.arg.to = Words("hostname")[2] /\ c.onError = "return"
ComputerCommand(c) == c.op \in {"convert", "computer"} /\ c.onError # "stop"

HostnameCommand(c) ==
  /\ c.op \in {"host", "wrong", "domain", "convert", "computer"} /\ c.onError # "stop"
  /\ c.op = "wrong" => Words("hostname")[1] \notin Host \/ Words("hostname")[2] = Invalid

HostPart(A) ==
  /\ A \in Seq(Commands) /\ Len(A) = 2
  /\ IsFor(A[1], "host", "NV_Hostname") /\ IsFor(A[2], "host", "Hostname")
  /\ \A i \in 1..2 : HostCommand(A[i])
DomainPart(B) ==
  /\ B \in Seq(Commands) /\ \A i \in 1..Len(B) : DomainCommand(B[i])
  /\ Words("hostname")[2] \in Domain =>
       Len(B) = 2 /\ IsFor(B[1], "domain", "NV_Domain") /\ IsFor(B[2], "domain", "Domain")
ComputerPart(C) ==
  C \in Seq(Commands) /\ Len(C) = 3 /\ \A i \in 1..3 : ComputerCommand(C[i])

LEMMA NamesInOrder ==
  ASSUME Given("hostname"), NEW A, HostPart(A), NEW B, DomainPart(B), NEW C, ComputerPart(C)
  PROVE  /\ A \o B \o C \in Seq(Commands) /\ NamesOrdered(A \o B \o C)
         /\ \A j \in DOMAIN (A \o B \o C) : HostnameCommand((A \o B \o C)[j])
<1> DEFINE list == A \o B \o C
           n == Len(B)
<1>0. /\ A \in Seq(Commands) /\ B \in Seq(Commands) /\ C \in Seq(Commands)
      /\ Len(A) = 2 /\ Len(C) = 3 /\ n \in Nat
  <2>1. A \in Seq(Commands) /\ Len(A) = 2
    BY DEF HostPart
  <2>2. B \in Seq(Commands)
    BY DEF DomainPart
  <2>3. C \in Seq(Commands) /\ Len(C) = 3
    BY DEF ComputerPart
  <2> QED
    BY <2>1, <2>2, <2>3
<1>1. /\ list \in Seq(Commands) /\ Len(list) = n + 5
      /\ \A i \in 1..2 : list[i] = A[i]
      /\ \A i \in 1..n : list[2 + i] = B[i]
      /\ \A i \in 1..3 : list[2 + n + i] = C[i]
  <2>1. /\ list \in Seq(Commands) /\ Len(list) = Len(A) + Len(B) + Len(C)
        /\ \A i \in 1..Len(A) : list[i] = A[i]
        /\ \A i \in 1..Len(B) : list[Len(A) + i] = B[i]
        /\ \A i \in 1..Len(C) : list[Len(A) + Len(B) + i] = C[i]
    <3>1. A \in Seq(Commands) /\ B \in Seq(Commands) /\ C \in Seq(Commands)
      BY <1>0
    <3>2. list \in Seq(Commands)
      BY <3>1, ThreeLists
    <3>3. Len(list) = Len(A) + Len(B) + Len(C)
      BY <3>1, ThreeLists
    <3>4. \A i \in 1..Len(A) : list[i] = A[i]
      BY <3>1, ThreeLists
    <3>5. \A i \in 1..Len(B) : list[Len(A) + i] = B[i]
      BY <3>1, ThreeLists
    <3>6. \A i \in 1..Len(C) : list[Len(A) + Len(B) + i] = C[i]
      BY <3>1, ThreeLists
    <3> QED
      BY <3>2, <3>3, <3>4, <3>5, <3>6
  <2> HIDE DEF list
  <2>2. Len(list) = n + 5
    BY <1>0, <2>1
  <2> QED
    BY <1>0, <2>1, <2>2
<1> HIDE DEF list
<1>1a. list[1] = A[1] /\ list[2] = A[2]
  <2>1. 1 \in 1..2 /\ 2 \in 1..2
    OBVIOUS
  <2> QED
    BY <1>1, <2>1
<1>2. DOMAIN list = 1..(n + 5)
  BY <1>1
<1> HIDE DEF n
<1>3. ASSUME NEW j \in 1..(n + 5)
      PROVE  \/ j \in 1..2 /\ list[j] = A[j]
             \/ j - 2 \in 1..n /\ list[j] = B[j - 2]
             \/ j - (2 + n) \in 1..3 /\ list[j] = C[j - (2 + n)]
  <2>1. CASE j <= 2
    BY <1>1, <2>1
  <2>2. CASE 2 < j /\ j <= n + 2
    <3>1. j - 2 \in 1..n /\ 2 + (j - 2) = j
      BY <1>0, <2>2
    <3>2. list[2 + (j - 2)] = B[j - 2]
      BY <1>1, <3>1
    <3> QED
      BY <3>1, <3>2
  <2>3. CASE n + 2 < j
    <3>1. j - (2 + n) \in 1..3 /\ 2 + n + (j - (2 + n)) = j
      BY <1>0, <2>3
    <3>2. list[2 + n + (j - (2 + n))] = C[j - (2 + n)]
      BY <1>1, <3>1
    <3> QED
      BY <3>1, <3>2
  <2> QED
    BY <1>0, <2>1, <2>2, <2>3
<1>4. ASSUME NEW j \in 1..(n + 5)
      PROVE  \/ j <= n + 2 /\ HostCommand(list[j])
             \/ j <= n + 2 /\ DomainCommand(list[j])
             \/ n + 2 < j /\ ComputerCommand(list[j])
  <2>1. ASSUME j \in 1..2, list[j] = A[j] PROVE j <= n + 2 /\ HostCommand(list[j])
    <3>1. j <= n + 2
      BY <1>0, <2>1
    <3>2. HostCommand(A[j])
      BY <2>1 DEF HostPart
    <3> QED
      BY <2>1, <3>1, <3>2
  <2>2. ASSUME j - 2 \in 1..n, list[j] = B[j - 2] PROVE j <= n + 2 /\ DomainCommand(list[j])
    <3>1. j <= n + 2
      BY <1>0, <2>2
    <3>2. DomainCommand(B[j - 2])
      BY <2>2 DEF DomainPart, n
    <3> QED
      BY <2>2, <3>1, <3>2
  <2>3. ASSUME j - (2 + n) \in 1..3, list[j] = C[j - (2 + n)]
        PROVE  n + 2 < j /\ ComputerCommand(list[j])
    BY <1>0, <2>3 DEF ComputerPart
  <2> QED
    BY <1>3, <2>1, <2>2, <2>3
<1>5. ASSUME NEW c, HostCommand(c) \/ DomainCommand(c) \/ ComputerCommand(c)
      PROVE  /\ HostnameCommand(c)
             /\ c.op = "host" => c.arg.to = Words("hostname")[1] /\ c.onError = "return"
             /\ c.op = "domain" /\ Words("hostname")[2] \in Domain
                  => c.arg.to = Words("hostname")[2] /\ c.onError = "return"
  <2>1. CASE HostCommand(c)
    BY <2>1 DEF HostCommand, HostnameCommand
  <2>2. CASE DomainCommand(c)
    BY <2>2 DEF DomainCommand, HostnameCommand
  <2>3. CASE ComputerCommand(c)
    BY <2>3 DEF ComputerCommand, HostnameCommand
  <2> QED
    BY <1>5, <2>1, <2>2, <2>3
<1>6. \A j \in 1..(n + 5) :
        /\ HostnameCommand(list[j])
        /\ list[j].op = "host" => list[j].arg.to = Words("hostname")[1] /\ list[j].onError = "return"
        /\ list[j].op = "domain" /\ Words("hostname")[2] \in Domain
             => list[j].arg.to = Words("hostname")[2] /\ list[j].onError = "return"
  BY <1>4, <1>5
<1>7. ASSUME NEW j \in 1..(n + 5), list[j].op = "computer"
      PROVE  /\ \A key \in HostKeys : Pending(list, j, "host", key)
             /\ Words("hostname")[2] \in Domain => \A key \in DomainKeys : Pending(list, j, "domain", key)
  <2>1. ~HostCommand(list[j]) /\ ~DomainCommand(list[j])
    BY <1>7 DEF HostCommand, DomainCommand
  <2>2. n + 2 < j
    BY <1>4, <2>1
  <2>3. 1 \in 1..(j - 1) /\ 2 \in 1..(j - 1)
    BY <1>0, <2>2
  <2>4. \A key \in HostKeys : Pending(list, j, "host", key)
    <3>1. IsFor(list[1], "host", "NV_Hostname") /\ IsFor(list[2], "host", "Hostname")
      BY <1>1a DEF HostPart
    <3> QED
      BY <2>3, <3>1 DEF HostKeys, Pending
  <2>5. ASSUME Words("hostname")[2] \in Domain
        PROVE  \A key \in DomainKeys : Pending(list, j, "domain", key)
    <3>0. n = 2
      BY <2>5 DEF DomainPart, n
    <3>1. IsFor(B[1], "domain", "NV_Domain") /\ IsFor(B[2], "domain", "Domain")
      BY <2>5 DEF DomainPart
    <3>2. 3 \in 1..(j - 1) /\ 4 \in 1..(j - 1)
      BY <2>2, <3>0
    <3>3. list[3] = B[1] /\ list[4] = B[2]
      <4>1. 1 \in 1..n /\ 2 \in 1..n /\ 2 + 1 = 3 /\ 2 + 2 = 4
        BY <3>0
      <4>2. list[2 + 1] = B[1] /\ list[2 + 2] = B[2]
        BY <1>1, <4>1
      <4> QED
        BY <4>1, <4>2
    <3>4. IsFor(list[3], "domain", "NV_Domain") /\ IsFor(list[4], "domain", "Domain")
      BY <3>1, <3>3
    <3> QED
      BY <3>2, <3>4 DEF DomainKeys, Pending
  <2> QED
    BY <2>4, <2>5
<1>8. NamesOrdered(list)
  BY <1>2, <1>6, <1>7 DEF NamesOrdered, HostnameCommand
<1> QED
  BY <1>1, <1>2, <1>6, <1>8 DEF list

\* The list of set_hostname(), with the domain's part in the middle.
LEMMA HostnameOrdered ==
  ASSUME TypeOK, Given("hostname")
  PROVE  /\ set_hostname \in Seq(Commands) /\ NamesOrdered(set_hostname)
         /\ \A j \in DOMAIN set_hostname : HostnameCommand(set_hostname[j])
<1> DEFINE host   == Words("hostname")[1]
           domain == Words("hostname")[2]
           reg(op, k, to, e) == [op |-> op, arg |-> [key |-> k, to |-> to], onError |-> e]
           h1 == reg("host", "NV_Hostname", host, "return")
           h2 == reg("host", "Hostname", host, "return")
           w1 == [op |-> "wrong", arg |-> domain, onError |-> "return"]
           e  == IF domain = Empty THEN "ignore" ELSE "return"
           d1 == reg("domain", "NV_Domain", domain, e)
           d2 == reg("domain", "Domain", domain, e)
           cv == [op |-> "convert", arg |-> host, onError |-> "return"]
           c1 == reg("computer", "ActiveComputerName", NetbiosOf[host], "return")
           c2 == reg("computer", "ComputerName", NetbiosOf[host], "return")
<1>1. host \in Host \cup {Invalid} /\ domain \in Domain \cup {None, Empty, Invalid}
  BY WordsType, KindType DEF TypeOK, IsLine
<1>2. CASE host \notin Host
  <2> DEFINE w == [op |-> "wrong", arg |-> host, onError |-> "return"]
  <2>1. set_hostname = <<w>>
    BY <1>2 DEF set_hostname, Cmd
  <2>2. w \in [op: {"adddns", "wrong", "convert"}, arg: Word, onError: OnError]
    BY <1>1 DEF Word, OnError
  <2>3. w.op = "wrong"
    OBVIOUS
  <2>4. HostnameCommand(w)
    BY <1>2 DEF HostnameCommand
  <2> HIDE DEF w
  <2>5. w \in NameFree
    BY <2>2, <2>3 DEF Commands, NameFree, NameOps
  <2>6. set_hostname \in Seq(NameFree)
    BY <2>1, <2>5
  <2>7. w \in Commands /\ \A j \in DOMAIN set_hostname : set_hostname[j] = w
    BY <2>1, <2>5 DEF NameFree
  <2>8. set_hostname \in Seq(Commands) /\ \A j \in DOMAIN set_hostname : HostnameCommand(set_hostname[j])
    BY <2>1, <2>3, <2>4, <2>7
  <2> QED
    BY <2>6, <2>8, NameFreeOrdered
<1>3. CASE host \in Host
  <2>1. h1 \in Commands /\ h2 \in Commands
    <3>1. h1 \in [op: {"host"}, arg: [key: HostKeys, to: Host], onError: OnError]
      BY <1>3 DEF HostKeys, OnError
    <3>2. h2 \in [op: {"host"}, arg: [key: HostKeys, to: Host], onError: OnError]
      BY <1>3 DEF HostKeys, OnError
    <3> HIDE DEF h1, h2
    <3> QED
      BY <3>1, <3>2 DEF Commands
  <2>2. domain # None /\ domain # Invalid => d1 \in Commands /\ d2 \in Commands
    <3> SUFFICES ASSUME domain # None, domain # Invalid PROVE d1 \in Commands /\ d2 \in Commands
      OBVIOUS
    <3>0. e \in OnError /\ domain \in Domain \cup {Empty}
      BY <1>1 DEF OnError
    <3> HIDE DEF e, domain
    <3>1. d1 \in [op: {"domain"}, arg: [key: DomainKeys, to: Domain \cup {Empty}], onError: OnError]
      BY <3>0 DEF DomainKeys
    <3>2. d2 \in [op: {"domain"}, arg: [key: DomainKeys, to: Domain \cup {Empty}], onError: OnError]
      BY <3>0 DEF DomainKeys
    <3> HIDE DEF d1, d2
    <3> QED
      BY <3>1, <3>2 DEF Commands
  <2>3. w1 \in Commands /\ cv \in Commands
    <3>0. domain \in Word /\ host \in Word
      BY <1>1 DEF Word
    <3> HIDE DEF domain, host
    <3>1. w1 \in [op: {"adddns", "wrong", "convert"}, arg: Word, onError: OnError]
      BY <3>0 DEF OnError
    <3>2. cv \in [op: {"adddns", "wrong", "convert"}, arg: Word, onError: OnError]
      BY <3>0 DEF OnError
    <3> HIDE DEF w1, cv
    <3> QED
      BY <3>1, <3>2 DEF Commands
  <2>4. c1 \in Commands /\ c2 \in Commands
    <3> DEFINE nb == NetbiosOf[host]
               C == [op: {"computer"}, arg: [key: ComputerKeys, to: {NetbiosOf[h] : h \in Host}],
                     onError: OnError]
    <3>0. nb \in {NetbiosOf[h] : h \in Host}
      BY <1>3
    <3> HIDE DEF nb
    <3>1. c1 \in C
      BY <3>0 DEF ComputerKeys, OnError, nb
    <3>2. c2 \in C
      BY <3>0 DEF ComputerKeys, OnError, nb
    <3>3. C \subseteq Commands
      BY DEF Commands
    <3> HIDE DEF c1, c2, C
    <3> QED
      BY <3>1, <3>2, <3>3
  <2>5. /\ h1.op = "host" /\ h1.arg.key = "NV_Hostname" /\ h1.arg.to = host /\ h1.onError = "return"
        /\ h2.op = "host" /\ h2.arg.key = "Hostname" /\ h2.arg.to = host /\ h2.onError = "return"
        /\ w1.op = "wrong" /\ w1.onError = "return"
        /\ d1.op = "domain" /\ d1.arg.key = "NV_Domain" /\ d1.arg.to = domain /\ d1.onError = e
        /\ d2.op = "domain" /\ d2.arg.key = "Domain" /\ d2.arg.to = domain /\ d2.onError = e
        /\ cv.op = "convert" /\ cv.onError = "return"
        /\ c1.op = "computer" /\ c1.onError = "return"
        /\ c2.op = "computer" /\ c2.onError = "return"
    OBVIOUS
  <2>6. e # "stop" /\ (domain \in Domain => e = "return")
    BY NamesAssumption
  <2> DEFINE A == <<h1, h2>>
             B == CASE domain = None -> <<>> [] domain = Invalid -> <<w1>> [] OTHER -> <<d1, d2>>
             C == <<cv>> \o <<c1, c2>>
  <2>7. set_hostname = A \o B \o C
    <3>1. SetReg("host", <<"NV_Hostname", "Hostname">>, host, "return") = <<h1, h2>>
      BY RegType
    <3>2. SetReg("computer", <<"ActiveComputerName", "ComputerName">>, NetbiosOf[host], "return")
            = <<c1, c2>>
      BY RegType
    <3>3. SetReg("domain", <<"NV_Domain", "Domain">>, domain, e) = <<d1, d2>>
      BY RegType
    <3>4. Cmd("wrong", domain, "return") = <<w1>> /\ Cmd("convert", host, "return") = <<cv>>
      BY DEF Cmd
    <3> HIDE DEF h1, h2, w1, d1, d2, cv, c1, c2
    <3> QED
      BY <1>3, <3>1, <3>2, <3>3, <3>4 DEF set_hostname
  <2>8. HostCommand(h1) /\ HostCommand(h2)
    BY <2>5 DEF HostCommand
  <2>9. IsFor(h1, "host", "NV_Hostname") /\ IsFor(h2, "host", "Hostname")
    BY <2>5 DEF IsFor
  <2>10. ComputerCommand(cv) /\ ComputerCommand(c1) /\ ComputerCommand(c2)
    BY <2>5 DEF ComputerCommand
  <2>11. domain = Invalid => DomainCommand(w1)
    BY <2>5, NamesAssumption DEF DomainCommand
  <2>12. DomainCommand(d1) /\ DomainCommand(d2)
    BY <2>5, <2>6 DEF DomainCommand
  <2>13. IsFor(d1, "domain", "NV_Domain") /\ IsFor(d2, "domain", "Domain")
    BY <2>5 DEF IsFor
  <2> HIDE DEF h1, h2, w1, d1, d2, e, cv, c1, c2, host, domain
  <2>14. HostPart(A)
    <3>1. A \in Seq(Commands) /\ Len(A) = 2 /\ A[1] = h1 /\ A[2] = h2
      BY <2>1
    <3> HIDE DEF A
    <3>2. ASSUME NEW i \in 1..2 PROVE HostCommand(A[i])
      <4>1. i = 1 \/ i = 2
        OBVIOUS
      <4> QED
        BY <2>8, <3>1, <4>1
    <3>3. IsFor(A[1], "host", "NV_Hostname") /\ IsFor(A[2], "host", "Hostname")
      BY <2>9, <3>1
    <3> QED
      BY <3>1, <3>2, <3>3 DEF HostPart
  <2>15. ComputerPart(C)
    <3>1. C = <<cv, c1, c2>>
      BY OneAndTwo
    <3> HIDE DEF C
    <3>2. C \in Seq(Commands) /\ Len(C) = 3 /\ C[1] = cv /\ C[2] = c1 /\ C[3] = c2
      BY <2>3, <2>4, <3>1
    <3>3. ASSUME NEW i \in 1..3 PROVE ComputerCommand(C[i])
      <4>1. i = 1 \/ i = 2 \/ i = 3
        OBVIOUS
      <4> QED
        BY <2>10, <3>2, <4>1
    <3> QED
      BY <3>2, <3>3 DEF ComputerPart
  <2>16. DomainPart(B)
    <3>1. CASE domain = None
      <4>1. B = <<>>
        BY <3>1, NamesAssumption
      <4>2. domain \notin Domain
        BY <3>1, NamesAssumption
      <4> HIDE DEF B
      <4>3. B \in Seq(Commands) /\ Len(B) = 0
        BY <4>1
      <4> QED
        BY <4>2, <4>3 DEF DomainPart, domain
    <3>2. CASE domain # None /\ domain = Invalid
      <4>1. B = <<w1>>
        BY <3>2
      <4>2. domain \notin Domain
        BY <3>2, NamesAssumption
      <4> HIDE DEF B
      <4>3. B \in Seq(Commands) /\ Len(B) = 1 /\ B[1] = w1
        BY <2>3, <4>1
      <4> QED
        BY <2>11, <3>2, <4>2, <4>3 DEF DomainPart, domain
    <3>3. CASE domain # None /\ domain # Invalid
      <4>1. B = <<d1, d2>>
        BY <3>3
      <4> HIDE DEF B
      <4>2. B \in Seq(Commands) /\ Len(B) = 2 /\ B[1] = d1 /\ B[2] = d2
        BY <2>2, <3>3, <4>1
      <4>3. ASSUME NEW i \in 1..2 PROVE DomainCommand(B[i])
        <5>1. i = 1 \/ i = 2
          OBVIOUS
        <5> QED
          BY <2>12, <4>2, <5>1
      <4>4. IsFor(B[1], "domain", "NV_Domain") /\ IsFor(B[2], "domain", "Domain")
        BY <2>13, <4>2
      <4> QED
        BY <4>2, <4>3, <4>4 DEF DomainPart
    <3> QED
      BY <3>1, <3>2, <3>3
  <2> HIDE DEF A, B, C
  <2> QED
    BY <2>7, <2>14, <2>15, <2>16, NamesInOrder
<1> QED
  BY <1>2, <1>3

-----------------------------------------------------------------------------
(* Any handler's list. *)

LEMMA PlainIsNameFree ==
  /\ Seq(Plain) \subseteq Seq(NameFree) /\ Seq(DhcpCommands) \subseteq Seq(NameFree)
  /\ Seq(NameFree) \subseteq Seq(Commands)
<1>1. Plain \subseteq NameFree /\ DhcpCommands \subseteq NameFree /\ NameFree \subseteq Commands
  BY DEF Plain, NameFree, DhcpCommands
<1> QED
  BY <1>1

\* The list says nothing of a family whose DHCP --dhcp has changed.
KeepsRestart(list) ==
  \A j \in DOMAIN list : list[j].op = "unchanged" => ~WantsRestart(list[j].arg)

LEMMA PlainKeepsRestart ==
  ASSUME NEW list \in Seq(Plain)
  PROVE  list \in Seq(Commands) /\ NamesOrdered(list) /\ KeepsRestart(list)
<1>1. \A j \in DOMAIN list : list[j].op # "unchanged"
  BY DEF Plain
<1>2. list \in Seq(NameFree) /\ list \in Seq(Commands)
  BY PlainIsNameFree
<1> QED
  BY <1>1, <1>2, NameFreeOrdered DEF KeepsRestart

LEMMA EmptyList == <<>> \in Seq(Plain)
OBVIOUS

LEMMA HandlerType ==
  ASSUME TypeOK, NEW kind \in Kind
  PROVE  Handler(kind) \in Seq(Commands) /\ NamesOrdered(Handler(kind)) /\ KeepsRestart(Handler(kind))
<1> DEFINE Good(list) == list \in Seq(Commands) /\ NamesOrdered(list) /\ KeepsRestart(list)
<1>0. \A list \in Seq(Plain) : Good(list)
  BY PlainKeepsRestart
<1>1. Good(<<>>)
  BY <1>0, EmptyList
<1>2. Good(set_dhcp)
  <2>1. set_dhcp \in Seq(DhcpCommands)
    BY DhcpType
  <2>2. \A j \in DOMAIN set_dhcp : set_dhcp[j] \in DhcpCommands
    BY <2>1
  <2>3. KeepsRestart(set_dhcp)
    BY <2>2 DEF KeepsRestart, DhcpCommands
  <2>4. set_dhcp \in Seq(NameFree) /\ set_dhcp \in Seq(Commands)
    BY <2>1, PlainIsNameFree
  <2> QED
    BY <2>3, <2>4, NameFreeOrdered
<1>3. Good(set_ip) /\ Good(set_dns) /\ Good(set_route) /\ Good(Gateways)
  BY <1>0, IpType, DnsType, RouteType, GatewaysType, ApartIsPlain
<1>4. Given("search") => Good(set_search_domain)
  BY <1>0, SearchType, ApartIsPlain
<1>5. Given("hostname") => Good(set_hostname)
  <2> SUFFICES ASSUME Given("hostname") PROVE Good(set_hostname)
    OBVIOUS
  <2>1. \A j \in DOMAIN set_hostname : HostnameCommand(set_hostname[j])
    BY HostnameOrdered
  <2>2. KeepsRestart(set_hostname)
    BY <2>1 DEF KeepsRestart, HostnameCommand
  <2> QED
    BY <2>2, HostnameOrdered
<1> HIDE DEF Good
<1>6. \A k : Good(HandlerOf(k))
  BY <1>1, <1>2, <1>3 DEF HandlerOf
<1>7. Good(Handler(kind))
  <2>1. CASE ~Given(kind)
    BY <1>1, <2>1 DEF Handler
  <2>2. CASE Given(kind) /\ kind = "gateway"
    BY <1>3, <2>2 DEF Handler
  <2>3. CASE Given(kind) /\ kind = "search"
    BY <1>4, <2>3 DEF Handler
  <2>4. CASE Given(kind) /\ kind = "hostname"
    BY <1>5, <2>4 DEF Handler
  <2>5. CASE Given(kind) /\ kind \notin {"gateway", "search", "hostname"}
    <3>1. Handler(kind) = IF differs THEN HandlerOf(kind) ELSE <<>>
      BY <2>5 DEF Handler
    <3> QED
      BY <1>1, <1>6, <3>1
  <2> QED
    BY <2>1, <2>2, <2>3, <2>4, <2>5
<1> QED
  BY <1>7 DEF Good

-----------------------------------------------------------------------------
(* The types. *)

LEMMA RestType ==
  ASSUME todo \in Seq(Commands), todo # <<>>, NEW ends, NEW rest \in Rest(ends)
  PROVE  rest \in Seq(Commands)
<1>1. CASE ends
  BY <1>1 DEF Rest
<1>2. CASE ~ends /\ Head(todo).onError = "stop"
  <2>1. PICK n \in DOMAIN todo : rest = SubSeq(todo, n + 1, Len(todo))
    BY <1>2 DEF Rest
  <2>2. n \in 1..Len(todo) /\ Len(todo) \in Nat
    OBVIOUS
  <2> QED
    BY <2>1, <2>2
<1>3. CASE ~ends /\ Head(todo).onError # "stop"
  BY <1>3 DEF Rest
<1> QED
  BY <1>1, <1>2, <1>3

LEMMA LenFlags == Len(all_flags) = 7 /\ DOMAIN all_flags = 1..7 /\ \A n \in 1..7 : all_flags[n] \in Kind
<1>1. Len(all_flags) = 7 /\ DOMAIN all_flags = 1..7
  BY DEF all_flags
<1>2. Kind = {all_flags[n] : n \in DOMAIN all_flags}
  BY DEF Kind, ToSet
<1> QED
  BY <1>1, <1>2

LEMMA LineNone == IsLine(NoLine)
BY KindType DEF IsLine, NoLine

LEMMA DhcpChangedType ==
  ASSUME TypeOK, NEW line, IsLine(line), NEW compare
  PROVE  dhcp_changed(line, compare) \subseteq Family
<1>1. CASE line["dhcp"] = <<>> \/ ~compare
  BY <1>1 DEF dhcp_changed
<1>2. CASE line["dhcp"] # <<>> /\ compare
  <2>1. dhcp_changed(line, compare) = DhcpDifference(line)
    BY <1>2 DEF dhcp_changed
  <2>2. line["dhcp"] \in Seq(Seq(Word)) /\ \A n \in DOMAIN line["dhcp"] : line["dhcp"][n] \in Seq(Family)
    BY KindType DEF IsLine
  <2>3. Head(line["dhcp"]) \in Seq(Family)
    BY <1>2, <2>2
  <2>4. ToSet(Head(line["dhcp"])) \subseteq Family
    BY <2>3 DEF ToSet
  <2> QED
    BY <2>1, <2>4 DEF DhcpDifference, Family
<1> QED
  BY <1>1, <1>2

LEMMA HeadType ==
  ASSUME TypeOK, todo # <<>>
  PROVE  Head(todo) \in Commands /\ Tail(todo) \in Seq(Commands) /\ phase # 0
BY DEF TypeOK

LEMMA FailsType ==
  ASSUME TypeOK, todo # <<>>, NEW negative, CommandFails(negative)
  PROVE  todo' \in Seq(Commands) /\ rc2' \in {0, 1} /\ phase' # 0
<1> DEFINE ends == Head(todo).onError = "return" \/ (Head(todo).onError = "negative" /\ negative)
<1>1. /\ todo' \in Rest(ends)
      /\ rc2' = IF ends THEN 1 ELSE rc2
      /\ phase' = phase
  BY DEF CommandFails
<1>2. todo \in Seq(Commands) /\ rc2 \in {0, 1}
  BY DEF TypeOK
<1> HIDE DEF ends
<1>3. todo' \in Seq(Commands)
  BY <1>1, <1>2, RestType
<1> QED
  BY <1>1, <1>2, <1>3, HeadType

LEMMA FaultType ==
  ASSUME TypeOK, NEW kind, Fault(kind)
  PROVE  failures' \subseteq {"exit", "crash", "kill"} /\ faults' \in 0..MaxFaults
BY FaultsAssumption, BoundsAssumption DEF TypeOK, Fault

LEMMA TypeNext ==
  ASSUME TypeOK, [Next]_vars
  PROVE  TypeOK'
<1>1. CASE Start
  <2>1. PICK line \in CommandLines, compare \in CompareModes :
          opts' = line /\ restart' = dhcp_changed(line, compare)
    BY <1>1 DEF Start
  <2>2. IsLine(line)
    BY LinesAssumption
  <2>3. IsLine(opts)' /\ restart' \subseteq Family
    BY <2>1, <2>2, DhcpChangedType DEF IsLine
  <2>4. differs' \in BOOLEAN
    BY <1>1 DEF Start
  <2>5. runs' \in 0..MaxRuns
    BY <1>1, BoundsAssumption DEF Start, TypeOK
  <2>6. /\ win' = win /\ found' = win /\ phase' = 1 /\ todo' = todo /\ rc2' = 0 /\ restarted' = FALSE
        /\ failures' = {} /\ faults' = faults
    BY <1>1 DEF Start
  <2>7. win' \in System /\ found' \in System /\ todo' \in Seq(Commands) /\ faults' \in 0..MaxFaults
    BY <2>6 DEF TypeOK
  <2>8. phase' \in 0..(Len(all_flags) + 1) /\ phase' # 0
    BY <2>6, LenFlags
  <2> QED
    BY <2>3, <2>4, <2>5, <2>6, <2>7, <2>8 DEF TypeOK
<1>2. CASE CallHandler
  <2>1. all_flags[phase] \in Kind /\ phase \in 1..7 /\ todo' = Handler(all_flags[phase])
    BY <1>2, LenFlags DEF CallHandler
  <2>2. todo' \in Seq(Commands)
    BY <2>1, HandlerType
  <2>3. phase' \in 0..8 /\ phase' # 0
    BY <1>2, <2>1 DEF CallHandler
  <2>4. IsLine(opts)'
    BY <1>2 DEF CallHandler, TypeOK, IsLine
  <2> QED
    BY <1>2, <2>2, <2>3, <2>4, LenFlags DEF CallHandler, TypeOK
<1>3. CASE Command
  <2>1. Head(todo) \in Commands /\ Tail(todo) \in Seq(Commands) /\ phase # 0
    BY <1>3, HeadType DEF Command
  <2>2. win' = Effect(win, Head(todo)) /\ ~Refused(win, Head(todo)) /\ win \in System
    BY <1>3 DEF Command, TypeOK
  <2>3. win' \in System
    BY <2>1, <2>2, EffectType
  <2>4. restart' \subseteq Family
    BY <1>3 DEF Command, TypeOK
  <2>5. IsLine(opts)'
    BY <1>3 DEF Command, TypeOK, IsLine
  <2> QED
    BY <1>3, <2>1, <2>3, <2>4, <2>5 DEF Command, TypeOK
<1>4. CASE Refusal
  <2>1. todo # <<>> /\ CommandFails(FALSE) /\ win' = win /\ failures' = failures /\ faults' = faults
    BY <1>4 DEF Refusal
  <2>2. todo' \in Seq(Commands) /\ rc2' \in {0, 1} /\ phase' # 0
    BY <2>1, FailsType
  <2>3. opts' = opts /\ found' = found /\ differs' = differs /\ restart' = restart /\ phase' = phase
        /\ restarted' = restarted /\ runs' = runs
    BY <2>1 DEF CommandFails
  <2>4. IsLine(opts)'
    BY <2>3 DEF TypeOK, IsLine
  <2> QED
    BY <2>1, <2>2, <2>3, <2>4 DEF TypeOK
<1>5. ASSUME NEW kind \in {"exit", "crash"}, Failure(kind) PROVE TypeOK'
  <2>1. todo # <<>> /\ CommandFails(kind = "crash") /\ Fault(kind)
    BY <1>5 DEF Failure
  <2>2. todo' \in Seq(Commands) /\ rc2' \in {0, 1} /\ phase' # 0
    BY <2>1, FailsType
  <2>3. failures' \subseteq {"exit", "crash", "kill"} /\ faults' \in 0..MaxFaults
    BY <2>1, FaultType
  <2>4. opts' = opts /\ found' = found /\ differs' = differs /\ restart' = restart /\ phase' = phase
        /\ restarted' = restarted /\ runs' = runs
    BY <2>1 DEF CommandFails
  <2>5. IsLine(opts)'
    BY <2>4 DEF TypeOK, IsLine
  <2>6. win' \in System
    <3>1. win \in System
      BY DEF TypeOK
    <3>2. CASE win' = win
      BY <3>1, <3>2
    <3>3. CASE win' # win
      <4>1. PICK left \in SUBSET win.routes : win' = [win EXCEPT !.routes = left]
        BY <1>5, <3>3 DEF Failure
      <4>2. left \in SUBSET Route
        BY <3>1, <4>1, ReplacingField
      <4> QED
        BY <3>1, <4>1, <4>2, ReplacingField
    <3> QED
      BY <3>2, <3>3
  <2> QED
    BY <2>2, <2>3, <2>4, <2>5, <2>6 DEF TypeOK
<1>6. CASE Finish
  <2>1. IsLine(opts)' /\ restarted' \in BOOLEAN
    BY <1>6 DEF Finish, TypeOK, IsLine
  <2> QED
    BY <1>6, <2>1, LenFlags DEF Finish, TypeOK
<1>7. CASE Kill
  <2>1. failures' \subseteq {"exit", "crash", "kill"} /\ faults' \in 0..MaxFaults
    BY <1>7, FaultType DEF Kill
  <2>2. IsLine(opts)'
    BY <1>7, LineNone DEF Kill, IsLine, NoLine
  <2>3. win' = win /\ found' = win /\ phase' = 0 /\ todo' = <<>> /\ rc2' = 0 /\ differs' = FALSE
        /\ restart' = {} /\ restarted' = restarted /\ runs' = runs
    BY <1>7 DEF Kill
  <2>4. win' \in System /\ found' \in System /\ todo' \in Seq(Commands)
        /\ restarted' \in BOOLEAN /\ runs' \in 0..MaxRuns
    BY <2>3 DEF TypeOK
  <2>5. phase' \in 0..(Len(all_flags) + 1)
    BY <2>3, LenFlags
  <2> QED
    BY <2>1, <2>2, <2>3, <2>4, <2>5 DEF TypeOK
<1>8. CASE UNCHANGED vars
  <2>1. IsLine(opts)'
    BY <1>8 DEF vars, TypeOK, IsLine
  <2> QED
    BY <1>8, <2>1 DEF vars, TypeOK
<1> QED
  BY <1>1, <1>2, <1>3, <1>4, <1>5, <1>6, <1>7, <1>8 DEF Next

\* Whatever the command lines, and whatever fails, each handler gets lists of commands
\* that are about addresses, servers, gateways, routes and names of the right kind, and
\* the adapter keeps its shape; each stays in its bounds.
THEOREM TypeCorrect == Spec => []TypeOK
<1>1. Init => TypeOK
  <2> SUFFICES ASSUME Init PROVE TypeOK
    OBVIOUS
  <2>1. win \in System /\ found \in System
    BY SystemsAssumption DEF Init
  <2>2. IsLine(opts)
    BY LineNone DEF Init
  <2>3. todo \in Seq(Commands) /\ phase \in 0..(Len(all_flags) + 1)
    BY LenFlags DEF Init
  <2>4. faults \in 0..MaxFaults /\ runs \in 0..MaxRuns
    BY BoundsAssumption DEF Init
  <2> QED
    BY <2>1, <2>2, <2>3, <2>4 DEF Init, TypeOK
<1>2. TypeOK /\ [Next]_vars => TypeOK'
  BY TypeNext
<1> QED
  BY <1>1, <1>2, PTL DEF Spec

-----------------------------------------------------------------------------
(* The restart of the adapter. *)

\* While an invocation runs, the flag of a family whose DHCP it changes is up, and no
\* command of the present handler takes it back.
RestartInv ==
  /\ phase # 0 => /\ \A f \in Family : WantsRestart(f) => f \in restart
                  /\ KeepsRestart(todo)
  /\ Ended => \A f \in Family : WantsRestart(f) => restarted

LEMMA SameRestart ==
  ASSUME opts' = opts, found' = found
  PROVE  /\ \A f : WantsRestart(f)' <=> WantsRestart(f)
         /\ \A list : KeepsRestart(list)' <=> KeepsRestart(list)
         /\ Given("dhcp")' <=> Given("dhcp")
<1>1. \A f : WantsRestart(f)' <=> WantsRestart(f)
  BY DEF WantsRestart, Value, Words, Given
<1>2. \A list : KeepsRestart(list)' <=> KeepsRestart(list)
  BY <1>1 DEF KeepsRestart
<1> QED
  BY <1>1, <1>2 DEF Given

LEMMA WantedIsGiven ==
  ASSUME NEW f, WantsRestart(f)
  PROVE  Given("dhcp") /\ f \in ToSet(Head(opts["dhcp"]))
<1>1. f \in ToSet(Words("dhcp"))
  BY DEF WantsRestart, Value
<1>2. Given("dhcp")
  <2> SUFFICES ASSUME ~Given("dhcp") PROVE FALSE
    OBVIOUS
  <2>1. Words("dhcp") = <<>>
    BY DEF Words
  <2> QED
    BY <1>1, <2>1 DEF ToSet
<1> QED
  BY <1>1, <1>2 DEF Words

\* What is left of a list is a part of it.
LEMMA RestPart ==
  ASSUME todo \in Seq(Commands), todo # <<>>, NEW ends, NEW rest \in Rest(ends), NEW j \in DOMAIN rest
  PROVE  \E i \in DOMAIN todo : rest[j] = todo[i]
<1>1. CASE ends
  BY <1>1 DEF Rest
<1>2. CASE ~ends /\ Head(todo).onError = "stop"
  <2>1. PICK n \in DOMAIN todo : rest = SubSeq(todo, n + 1, Len(todo))
    BY <1>2 DEF Rest
  <2>2. n \in 1..Len(todo) /\ Len(todo) \in Nat
    OBVIOUS
  <2>3. Len(rest) = Len(todo) - n /\ DOMAIN rest = 1..Len(rest)
    BY <2>1, <2>2
  <2>4. j \in 1..(Len(todo) - n)
    BY <2>3
  <2>5. rest[j] = todo[(n + 1) + j - 1]
    BY <2>1, <2>2, <2>4
  <2>6. (n + 1) + j - 1 \in DOMAIN todo
    BY <2>2, <2>4
  <2> QED
    BY <2>5, <2>6
<1>3. CASE ~ends /\ Head(todo).onError # "stop"
  <2>1. rest = Tail(todo)
    BY <1>3 DEF Rest
  <2>2. j + 1 \in DOMAIN todo /\ rest[j] = todo[j + 1]
    BY <2>1
  <2> QED
    BY <2>2
<1> QED
  BY <1>1, <1>2, <1>3

LEMMA PartKeepsRestart ==
  ASSUME NEW list, KeepsRestart(list),
         NEW part, \A j \in DOMAIN part : \E i \in DOMAIN list : part[j] = list[i]
  PROVE  KeepsRestart(part)
BY DEF KeepsRestart

LEMMA RestartNext ==
  ASSUME TypeOK, RestartInv, [Next]_vars
  PROVE  RestartInv'
<1>1. CASE Start
  <2>1. PICK line \in CommandLines, compare \in CompareModes :
          opts' = line /\ restart' = dhcp_changed(line, compare)
    BY <1>1 DEF Start
  <2>2. phase' = 1 /\ todo' = <<>> /\ found' = win
    BY <1>1 DEF Start, TypeOK
  <2>3. KeepsRestart(todo)'
    BY <2>2 DEF KeepsRestart
  <2>4. ASSUME NEW f \in Family, WantsRestart(f)'
        PROVE  f \in restart'
    <3>1. Given("dhcp")' /\ f \in ToSet(Head(opts'["dhcp"]))
      <4>1. f \in ToSet(Words("dhcp")')
        BY <2>4 DEF WantsRestart, Value
      <4>2. Given("dhcp")'
        <5> SUFFICES ASSUME ~Given("dhcp")' PROVE FALSE
          OBVIOUS
        <5>1. Words("dhcp")' = <<>>
          BY DEF Words
        <5> QED
          BY <4>1, <5>1 DEF ToSet
      <4> QED
        BY <4>1, <4>2 DEF Words
    <3>2. line["dhcp"] # <<>> /\ f \in ToSet(Head(line["dhcp"]))
      BY <2>1, <3>1 DEF Given
    <3>3. f = 4 => ~win.dhcp4
      BY <2>2, <2>4 DEF WantsRestart
    <3>4. f = 6 => win.ip6 # {}
      BY <2>2, <2>4 DEF WantsRestart
    <3>5. f \in DhcpDifference(line)
      BY <3>2, <3>3, <3>4 DEF DhcpDifference, Family
    <3> QED
      BY <2>1, <3>2, <3>5 DEF dhcp_changed
  <2>5. ~Ended'
    BY <2>2 DEF Ended
  <2> QED
    BY <2>3, <2>4, <2>5 DEF RestartInv
<1>2. CASE CallHandler
  <2>1. all_flags[phase] \in Kind /\ phase \in 1..7 /\ todo' = Handler(all_flags[phase])
    BY <1>2, LenFlags DEF CallHandler
  <2>2. KeepsRestart(todo')
    BY <2>1, HandlerType
  <2>3. phase' # 0 /\ phase # 0 /\ opts' = opts /\ found' = found /\ restart' = restart
    BY <1>2, <2>1 DEF CallHandler
  <2>4. KeepsRestart(todo)'
    BY <2>2, <2>3 DEF KeepsRestart, WantsRestart, Value, Words, Given
  <2> QED
    BY <2>3, <2>4, SameRestart DEF RestartInv, Ended
<1>3. CASE Command
  <2>1. todo # <<>> /\ todo' = Tail(todo) /\ todo \in Seq(Commands) /\ phase # 0 /\ phase' = phase
        /\ opts' = opts /\ found' = found
    BY <1>3, HeadType DEF Command, TypeOK
  <2>2. ASSUME NEW j \in DOMAIN todo' PROVE \E i \in DOMAIN todo : todo'[j] = todo[i]
    <3>1. j + 1 \in DOMAIN todo /\ todo'[j] = todo[j + 1]
      BY <2>1
    <3> QED
      BY <3>1
  <2>3. KeepsRestart(todo) /\ \A f \in Family : WantsRestart(f) => f \in restart
    BY <2>1 DEF RestartInv
  <2>4. KeepsRestart(todo')
    BY <2>2, <2>3, PartKeepsRestart
  <2>5. Head(todo).op = "unchanged" => ~WantsRestart(Head(todo).arg)
    <3>1. 1 \in DOMAIN todo /\ Head(todo) = todo[1]
      BY <2>1
    <3> QED
      BY <2>3, <3>1 DEF KeepsRestart
  <2>6. restart' = IF Head(todo).op = "unchanged" THEN restart \ {Head(todo).arg} ELSE restart
    BY <1>3 DEF Command
  <2>7. \A f \in Family : WantsRestart(f) => f \in restart'
    BY <2>3, <2>5, <2>6
  <2>8. KeepsRestart(todo)'
    BY <2>1, <2>4 DEF KeepsRestart, WantsRestart, Value, Words, Given
  <2> QED
    BY <2>1, <2>7, <2>8, SameRestart DEF RestartInv, Ended
<1>4. ASSUME NEW negative, todo # <<>>, CommandFails(negative) PROVE RestartInv'
  <2> DEFINE ends == Head(todo).onError = "return" \/ (Head(todo).onError = "negative" /\ negative)
  <2>1. todo' \in Rest(ends) /\ opts' = opts /\ found' = found /\ restart' = restart /\ phase' = phase
    BY <1>4 DEF CommandFails
  <2>2. todo \in Seq(Commands) /\ phase # 0
    BY <1>4, HeadType DEF TypeOK
  <2> HIDE DEF ends
  <2>3. \A j \in DOMAIN todo' : \E i \in DOMAIN todo : todo'[j] = todo[i]
    BY <1>4, <2>1, <2>2, RestPart
  <2>4. KeepsRestart(todo')
    BY <2>2, <2>3, PartKeepsRestart DEF RestartInv
  <2>5. KeepsRestart(todo)'
    BY <2>1, <2>4 DEF KeepsRestart, WantsRestart, Value, Words, Given
  <2> QED
    BY <2>1, <2>2, <2>5, SameRestart DEF RestartInv, Ended
<1>5. CASE Refusal
  BY <1>4, <1>5 DEF Refusal
<1>6. ASSUME NEW kind \in {"exit", "crash"}, Failure(kind) PROVE RestartInv'
  BY <1>4, <1>6 DEF Failure
<1>7. CASE Finish
  <2>1. phase # 0 /\ phase' = 0 /\ opts' = opts /\ found' = found
        /\ restarted' = (restart # {} /\ Given("dhcp"))
    BY <1>7, LenFlags DEF Finish
  <2>2. \A f \in Family : WantsRestart(f) => f \in restart
    BY <2>1 DEF RestartInv
  <2>3. \A f \in Family : WantsRestart(f) => restarted'
    BY <2>1, <2>2, WantedIsGiven
  <2> QED
    BY <2>1, <2>3, SameRestart DEF RestartInv
<1>8. CASE Kill
  <2>1. phase' = 0 /\ "kill" \in failures'
    BY <1>8 DEF Kill, Fault
  <2>2. ~Ended'
    BY <2>1 DEF Ended
  <2> QED
    BY <2>1, <2>2 DEF RestartInv
<1>9. CASE UNCHANGED vars
  <2>1. opts' = opts /\ found' = found /\ restart' = restart /\ phase' = phase /\ todo' = todo
        /\ restarted' = restarted /\ failures' = failures /\ runs' = runs
    BY <1>9 DEF vars
  <2>2. (KeepsRestart(todo))' <=> KeepsRestart(todo)
    BY <2>1 DEF KeepsRestart, WantsRestart, Value, Words, Given
  <2> QED
    BY <2>1, <2>2, SameRestart DEF RestartInv, Ended
<1> QED
  BY <1>1, <1>2, <1>3, <1>5, <1>6, <1>7, <1>8, <1>9 DEF Next

\* --dhcp that has changed a family from addresses by hand to DHCP has the adapter turned
\* off and on at the end: the flags is_equal_dhcp() raises are taken back only for a
\* family of which set_dhcp() finds that there is nothing to do.
THEOREM DhcpIsRestartedHolds == Spec => []DhcpIsRestarted
<1>1. Init => RestartInv
  BY DEF Init, RestartInv, Ended
<1>2. TypeOK /\ RestartInv /\ [Next]_vars => RestartInv'
  BY RestartNext
<1>3. RestartInv => DhcpIsRestarted
  BY DEF RestartInv, DhcpIsRestarted, Smooth, WantsRestart, Family
<1> QED
  BY <1>1, <1>2, <1>3, TypeCorrect, PTL DEF Spec

-----------------------------------------------------------------------------
(* The names are complete before the computer's name is touched. *)

LEMMA EmptyOrdered == NamesOrdered(<<>>) /\ NamesOrdered(<<>>)'
BY DEF NamesOrdered

\* The order depends on the names and on --hostname only.
LEMMA SameOrder ==
  ASSUME opts' = opts, win'.reg = win.reg, win'.domain = win.domain, NEW list
  PROVE  NamesOrdered(list)' <=> NamesOrdered(list)
<1>1. Words("hostname")' = Words("hostname") /\ Given("hostname")' = Given("hostname")
  BY DEF Words, Given
<1> QED
  BY <1>1 DEF NamesOrdered

\* What comes before a command of the list is the list's head, or comes before it in the tail.
LEMMA PendingMoves ==
  ASSUME NEW list \in Seq(Commands), list # <<>>, NEW j \in DOMAIN Tail(list), NEW op, NEW key,
         Pending(list, j + 1, op, key), ~IsFor(Head(list), op, key)
  PROVE  Pending(Tail(list), j, op, key)
<1>1. PICK m \in 1..((j + 1) - 1) : IsFor(list[m], op, key)
  BY DEF Pending
<1>2. j \in 1..(Len(list) - 1) /\ Len(list) \in Nat
  OBVIOUS
<1>3. m # 1
  BY <1>1
<1>4. m - 1 \in 1..(j - 1) /\ m - 1 \in 1..(Len(list) - 1) /\ (m - 1) + 1 = m
  BY <1>2, <1>3
<1>5. Tail(list)[m - 1] = list[m]
  <2>1. \A i \in 1..(Len(list) - 1) : Tail(list)[i] = list[i + 1]
    OBVIOUS
  <2> QED
    BY <1>4, <2>1
<1> QED
  BY <1>1, <1>4, <1>5 DEF Pending

\* The tail of an ordered list is ordered, if its head has been carried out or was for no
\* name.
LEMMA TailOrdered ==
  ASSUME NEW list \in Seq(Commands), list # <<>>, NamesOrdered(list), opts' = opts,
         \A key \in HostKeys :
           win.reg[key] = Words("hostname")[1] \/ IsFor(Head(list), "host", key)
             => win'.reg[key] = Words("hostname")[1],
         Words("hostname")[2] \in Domain =>
           \A key \in DomainKeys :
             win.domain[key] = Words("hostname")[2] \/ IsFor(Head(list), "domain", key)
               => win'.domain[key] = Words("hostname")[2]
  PROVE  NamesOrdered(Tail(list))'
<1> DEFINE host   == Words("hostname")[1]
           domain == Words("hostname")[2]
           tail   == Tail(list)
<1>1. \A j \in DOMAIN tail : j + 1 \in DOMAIN list /\ tail[j] = list[j + 1]
  OBVIOUS
<1>2. ASSUME NEW j \in DOMAIN tail, tail[j].op = "computer"
      PROVE  /\ Given("hostname")
             /\ \A m \in DOMAIN tail : tail[m].onError # "stop"
             /\ \A key \in HostKeys : win'.reg[key] = host \/ Pending(tail, j, "host", key)
             /\ domain \in Domain =>
                  \A key \in DomainKeys : win'.domain[key] = domain \/ Pending(tail, j, "domain", key)
  <2>1. list[j + 1].op = "computer" /\ j + 1 \in DOMAIN list
    BY <1>1, <1>2
  <2>2. /\ Given("hostname")
        /\ \A m \in DOMAIN list : list[m].onError # "stop"
        /\ \A key \in HostKeys : win.reg[key] = host \/ Pending(list, j + 1, "host", key)
        /\ domain \in Domain =>
             \A key \in DomainKeys : win.domain[key] = domain \/ Pending(list, j + 1, "domain", key)
    BY <2>1 DEF NamesOrdered
  <2>3. \A m \in DOMAIN tail : tail[m].onError # "stop"
    BY <1>1, <2>2
  <2>4. ASSUME NEW key \in HostKeys PROVE win'.reg[key] = host \/ Pending(tail, j, "host", key)
    <3>1. CASE win.reg[key] = host \/ IsFor(Head(list), "host", key)
      BY <3>1
    <3>2. CASE Pending(list, j + 1, "host", key) /\ ~IsFor(Head(list), "host", key)
      BY <3>2, PendingMoves
    <3> QED
      BY <2>2, <3>1, <3>2
  <2>5. ASSUME NEW key \in DomainKeys, domain \in Domain
        PROVE  win'.domain[key] = domain \/ Pending(tail, j, "domain", key)
    <3>1. CASE win.domain[key] = domain \/ IsFor(Head(list), "domain", key)
      BY <2>5, <3>1
    <3>2. CASE Pending(list, j + 1, "domain", key) /\ ~IsFor(Head(list), "domain", key)
      BY <3>2, PendingMoves
    <3> QED
      BY <2>2, <2>5, <3>1, <3>2
  <2> QED
    BY <2>2, <2>3, <2>4, <2>5
<1>3. ASSUME NEW j \in DOMAIN tail
      PROVE  /\ tail[j].op = "host" => tail[j].arg.to = host /\ tail[j].onError = "return"
             /\ tail[j].op = "domain" /\ domain \in Domain
                  => tail[j].arg.to = domain /\ tail[j].onError = "return"
  BY <1>1 DEF NamesOrdered
<1>4. Words("hostname")' = Words("hostname") /\ Given("hostname")' = Given("hostname")
  BY DEF Words, Given
<1> HIDE DEF tail
<1>5. tail' = tail => NamesOrdered(tail)'
  BY <1>2, <1>3, <1>4 DEF NamesOrdered
<1> QED
  BY <1>5 DEF tail

LEMMA NowOrdered ==
  ASSUME NEW list, todo' = list, NamesOrdered(list)'
  PROVE  NamesOrdered(todo)'
BY DEF NamesOrdered, Pending

LEMMA CommandOrdered ==
  ASSUME TypeOK, NamesOrdered(todo), Command
  PROVE  NamesOrdered(todo)'
<1> DEFINE host   == Words("hostname")[1]
           domain == Words("hostname")[2]
           c      == Head(todo)
<1>1. /\ todo \in Seq(Commands) /\ todo # <<>> /\ win \in System /\ todo' = Tail(todo)
      /\ opts' = opts /\ win' = Effect(win, c)
  BY DEF Command, TypeOK
<1>2. c \in Commands /\ 1 \in DOMAIN todo /\ c = todo[1]
  BY <1>1
<1>3. /\ c.op = "host" => c.arg.to = host
      /\ c.op = "domain" /\ domain \in Domain => c.arg.to = domain
  BY <1>2 DEF NamesOrdered
<1>4. /\ win'.reg = IF c.op = "host" THEN [win.reg EXCEPT ![c.arg.key] = c.arg.to] ELSE win.reg
      /\ win'.domain = IF c.op = "domain" THEN [win.domain EXCEPT ![c.arg.key] = c.arg.to]
                                         ELSE win.domain
  BY <1>1, <1>2, EffectNames
<1>5. DOMAIN win.reg = HostKeys /\ DOMAIN win.domain = DomainKeys
  BY <1>1, ReplacingField
<1> HIDE DEF host, domain, c
<1>6. ASSUME NEW key \in HostKeys, win.reg[key] = host \/ IsFor(c, "host", key)
      PROVE  win'.reg[key] = host
  <2>1. CASE IsFor(c, "host", key)
    BY <1>3, <1>4, <1>5, <2>1 DEF IsFor
  <2>2. CASE win.reg[key] = host
    BY <1>3, <1>4, <1>5, <2>2
  <2> QED
    BY <1>6, <2>1, <2>2
<1>7. ASSUME domain \in Domain, NEW key \in DomainKeys,
             win.domain[key] = domain \/ IsFor(c, "domain", key)
      PROVE  win'.domain[key] = domain
  <2>1. CASE IsFor(c, "domain", key)
    BY <1>3, <1>4, <1>5, <1>7, <2>1 DEF IsFor
  <2>2. CASE win.domain[key] = domain
    BY <1>3, <1>4, <1>5, <1>7, <2>2
  <2> QED
    BY <1>7, <2>1, <2>2
<1>8. ASSUME NEW list, list = todo
      PROVE  NamesOrdered(todo)'
  <2>1. list \in Seq(Commands) /\ list # <<>> /\ todo' = Tail(list) /\ c = Head(list)
    BY <1>1, <1>8 DEF c
  <2>2. NamesOrdered(list)
    BY <1>8 DEF NamesOrdered, Pending
  <2>3. NamesOrdered(Tail(list))'
    BY <1>1, <1>6, <1>7, <2>1, <2>2, TailOrdered DEF host, domain
  <2> QED
    BY <2>1, <2>3, NowOrdered
<1> QED
  BY <1>8

LEMMA FailsOrdered ==
  ASSUME TypeOK, NamesOrdered(todo), todo # <<>>, NEW negative, CommandFails(negative),
         win'.reg = win.reg, win'.domain = win.domain
  PROVE  NamesOrdered(todo)'
<1> DEFINE ends == Head(todo).onError = "return" \/ (Head(todo).onError = "negative" /\ negative)
<1>1. todo' \in Rest(ends) /\ opts' = opts
  BY DEF CommandFails
<1>2. todo \in Seq(Commands) /\ 1 \in DOMAIN todo /\ Head(todo) = todo[1]
  BY DEF TypeOK
<1>3. CASE ends
  <2>1. todo' = <<>>
    BY <1>1, <1>3 DEF Rest
  <2> QED
    BY <2>1 DEF NamesOrdered
<1>4. CASE ~ends /\ Head(todo).onError = "stop"
  <2>1. \A i \in DOMAIN todo : todo[i].op # "computer"
    BY <1>2, <1>4 DEF NamesOrdered
  <2> HIDE DEF ends
  <2>2. \A j \in DOMAIN todo' : \E i \in DOMAIN todo : todo'[j] = todo[i]
    BY <1>1, <1>2, RestPart
  <2>3. Words("hostname")' = Words("hostname")
    BY <1>1 DEF Words, Given
  <2> QED
    BY <2>1, <2>2, <2>3 DEF NamesOrdered
<1>5. CASE ~ends /\ Head(todo).onError # "stop"
  <2>1. todo' = Tail(todo) /\ Head(todo).onError # "return"
    BY <1>1, <1>5 DEF Rest
  <2>2. /\ \A key : ~IsFor(Head(todo), "host", key)
        /\ Words("hostname")[2] \in Domain => \A key : ~IsFor(Head(todo), "domain", key)
    BY <1>2, <2>1 DEF NamesOrdered, IsFor
  <2>3. ASSUME NEW list, list = todo
        PROVE  NamesOrdered(todo)'
    <3>1. list \in Seq(Commands) /\ list # <<>> /\ todo' = Tail(list) /\ Head(todo) = Head(list)
      BY <1>2, <2>1, <2>3
    <3>2. NamesOrdered(list)
      BY <2>3 DEF NamesOrdered, Pending
    <3>3. NamesOrdered(Tail(list))'
      BY <1>1, <2>2, <3>1, <3>2, TailOrdered
    <3> QED
      BY <3>1, <3>3, NowOrdered
  <2> QED
    BY <2>3
<1> QED
  BY <1>3, <1>4, <1>5

\* A failure may leave the routes half removed, and nothing else.
LEMMA FailureKeeps ==
  ASSUME TypeOK, NEW kind, Failure(kind)
  PROVE  win'.reg = win.reg /\ win'.domain = win.domain /\ win'.computer = win.computer
<1>1. win \in System
  BY DEF TypeOK
<1>2. CASE win' = win
  BY <1>2
<1>3. CASE win' # win
  <2>1. PICK left : win' = [win EXCEPT !.routes = left]
    BY <1>3 DEF Failure
  <2> QED
    BY <1>1, <2>1 DEF System
<1> QED
  BY <1>2, <1>3

LEMMA OrderNext ==
  ASSUME TypeOK, NamesOrdered(todo), [Next]_vars
  PROVE  NamesOrdered(todo)'
<1>1. CASE Start
  <2>1. todo' = <<>>
    BY <1>1 DEF Start, TypeOK
  <2> QED
    BY <2>1 DEF NamesOrdered
<1>2. CASE CallHandler
  <2>1. all_flags[phase] \in Kind /\ todo' = Handler(all_flags[phase])
    BY <1>2, LenFlags DEF CallHandler
  <2>2. NamesOrdered(Handler(all_flags[phase]))
    BY <2>1, HandlerType
  <2>3. ASSUME NEW list, list = Handler(all_flags[phase])
        PROVE  NamesOrdered(todo)'
    <3>1. NamesOrdered(list)
      BY <2>2, <2>3 DEF NamesOrdered, Pending
    <3>2. opts' = opts /\ win' = win /\ todo' = list
      BY <1>2, <2>1, <2>3 DEF CallHandler
    <3>3. NamesOrdered(list)'
      BY <3>1, <3>2, SameOrder
    <3> QED
      BY <3>2, <3>3, NowOrdered
  <2> QED
    BY <2>3
<1>3. CASE Command
  BY <1>3, CommandOrdered
<1>4. CASE Refusal
  BY <1>4, FailsOrdered DEF Refusal
<1>5. ASSUME NEW kind \in {"exit", "crash"}, Failure(kind) PROVE NamesOrdered(todo)'
  <2>1. todo # <<>> /\ CommandFails(kind = "crash")
    BY <1>5 DEF Failure
  <2> QED
    BY <1>5, <2>1, FailureKeeps, FailsOrdered
<1>6. CASE Finish
  <2>1. todo' = <<>>
    BY <1>6 DEF Finish
  <2> QED
    BY <2>1 DEF NamesOrdered
<1>7. CASE Kill
  <2>1. todo' = <<>>
    BY <1>7 DEF Kill
  <2> QED
    BY <2>1 DEF NamesOrdered
<1>8. CASE UNCHANGED vars
  BY <1>8 DEF vars, NamesOrdered, Pending, Words, Given
<1> QED
  BY <1>1, <1>2, <1>3, <1>4, <1>5, <1>6, <1>7, <1>8 DEF Next

\* A run that dies or fails between two of the registry's values never leaves a new
\* computer name beside an old host name or domain: set_hostname() stores those first, and
\* returns with an error when one cannot be stored.
THEOREM ComputerNameLastHolds == Spec => ComputerNameLast
<1> DEFINE NameStep == win'.computer # win.computer =>
                     /\ Given("hostname")
                     /\ \A key \in HostKeys : win.reg[key] = Words("hostname")[1]
                     /\ Words("hostname")[2] \in Domain =>
                          \A key \in DomainKeys : win.domain[key] = Words("hostname")[2]
<1>1. Init => NamesOrdered(todo)
  BY DEF Init, NamesOrdered
<1>2. TypeOK /\ NamesOrdered(todo) /\ [Next]_vars => NamesOrdered(todo)'
  BY OrderNext
<1>3. ASSUME TypeOK, NamesOrdered(todo), Next, win'.computer # win.computer PROVE NameStep
  <2>1. Command
    BY <1>3, FailureKeeps DEF Next, Start, CallHandler, Refusal, Finish, Kill
  <2>2. /\ todo \in Seq(Commands) /\ todo # <<>> /\ win \in System
        /\ win' = Effect(win, Head(todo))
    BY <1>3, <2>1 DEF Command, TypeOK
  <2>3. Head(todo) \in Commands /\ 1 \in DOMAIN todo /\ Head(todo) = todo[1]
    BY <2>2
  <2>4. todo[1].op = "computer"
    BY <1>3, <2>2, <2>3, EffectNames
  <2>5. \A op, key : ~Pending(todo, 1, op, key)
    BY DEF Pending
  <2> QED
    BY <1>3, <2>3, <2>4, <2>5 DEF NamesOrdered
<1>4. TypeOK /\ NamesOrdered(todo) /\ [Next]_vars => [NameStep]_vars
  BY <1>3 DEF vars
<1> HIDE DEF NameStep
<1>5. Spec => [][NameStep]_vars
  BY <1>1, <1>2, <1>4, TypeCorrect, PTL DEF Spec
<1> QED
  BY <1>5 DEF ComputerNameLast, NameStep

-----------------------------------------------------------------------------
(* Lists in order: any two of a list, in their order, are a pair of R. *)

InOrder(list, R) == \A i, j \in DOMAIN list : i < j => <<list[i], list[j]>> \in R

LEMMA Members ==
  ASSUME NEW T, NEW list \in Seq(T)
  PROVE  /\ ToSet(list) \subseteq T
         /\ \A c \in ToSet(list) : \E i \in 1..Len(list) : list[i] = c
         /\ \A i \in 1..Len(list) : list[i] \in ToSet(list)
         /\ DOMAIN list = 1..Len(list) /\ Len(list) \in Nat
BY DEF ToSet

LEMMA Concat ==
  ASSUME NEW T, NEW R, NEW A \in Seq(T), NEW B \in Seq(T)
  PROVE  /\ A \o B \in Seq(T)
         /\ ToSet(A \o B) = ToSet(A) \cup ToSet(B)
         /\ /\ InOrder(A, R) /\ InOrder(B, R)
            /\ \A c \in ToSet(A), d \in ToSet(B) : <<c, d>> \in R
            => InOrder(A \o B, R)
<1> DEFINE list == A \o B
           m == Len(A)
           n == Len(B)
<1>1. /\ list \in Seq(T) /\ Len(list) = m + n /\ m \in Nat /\ n \in Nat
      /\ \A i \in 1..m : list[i] = A[i]
      /\ \A i \in 1..n : list[m + i] = B[i]
  BY TwoLists
<1>2. DOMAIN A = 1..m /\ DOMAIN B = 1..n /\ DOMAIN list = 1..(m + n)
  BY <1>1
<1> HIDE DEF list, m, n
<1>3. ASSUME NEW i \in 1..(m + n), i \notin 1..m PROVE i - m \in 1..n /\ list[i] = B[i - m]
  <2>1. i - m \in 1..n /\ m + (i - m) = i
    BY <1>1, <1>3
  <2> QED
    BY <1>1, <2>1
<1>4. ToSet(list) = ToSet(A) \cup ToSet(B)
  <2>1. ASSUME NEW i \in 1..(m + n) PROVE list[i] \in ToSet(A) \cup ToSet(B)
    <3>1. CASE i \in 1..m
      BY <1>1, <1>2, <3>1 DEF ToSet
    <3>2. CASE i \notin 1..m
      BY <1>2, <1>3, <3>2 DEF ToSet
    <3> QED
      BY <3>1, <3>2
  <2>2. ASSUME NEW i \in 1..m PROVE A[i] \in ToSet(list)
    <3>1. i \in 1..(m + n) /\ list[i] = A[i]
      BY <1>1
    <3> QED
      BY <1>2, <3>1 DEF ToSet
  <2>3. ASSUME NEW i \in 1..n PROVE B[i] \in ToSet(list)
    <3>1. m + i \in 1..(m + n) /\ list[m + i] = B[i]
      BY <1>1
    <3> QED
      BY <1>2, <3>1 DEF ToSet
  <2>4. ToSet(list) = {list[i] : i \in 1..(m + n)} /\ ToSet(A) = {A[i] : i \in 1..m}
        /\ ToSet(B) = {B[i] : i \in 1..n}
    BY <1>2 DEF ToSet
  <2> QED
    BY <2>1, <2>2, <2>3, <2>4
<1>5. ASSUME InOrder(A, R), InOrder(B, R), \A c \in ToSet(A), d \in ToSet(B) : <<c, d>> \in R,
             NEW i \in 1..(m + n), NEW j \in 1..(m + n), i < j
      PROVE  <<list[i], list[j]>> \in R
  <2>1. CASE j \in 1..m
    <3>1. i \in 1..m
      BY <1>1, <1>5, <2>1
    <3> QED
      BY <1>1, <1>2, <1>5, <2>1, <3>1 DEF InOrder
  <2>2. CASE i \in 1..m /\ j \notin 1..m
    <3>1. list[i] \in ToSet(A) /\ list[j] \in ToSet(B)
      BY <1>1, <1>2, <1>3, <2>2 DEF ToSet
    <3> QED
      BY <1>5, <3>1
  <2>3. CASE i \notin 1..m /\ j \notin 1..m
    <3>1. i - m \in DOMAIN B /\ j - m \in DOMAIN B /\ list[i] = B[i - m] /\ list[j] = B[j - m]
      BY <1>2, <1>3, <2>3
    <3>2. i - m < j - m
      BY <1>1, <1>5
    <3> QED
      BY <1>5, <3>1, <3>2 DEF InOrder
  <2>4. i \notin 1..m => j \notin 1..m
    BY <1>1, <1>5
  <2> QED
    BY <2>1, <2>2, <2>3, <2>4
<1> QED
  BY <1>1, <1>2, <1>4, <1>5 DEF InOrder, list

\* out is the lists up to the n-th one after the other: its members are theirs, in order,
\* and what is in an earlier list comes before.
Joined(out, seqs, n, R) ==
  /\ ToSet(out) = UNION {ToSet(seqs[k]) : k \in 1..n}
  /\ InOrder(out, R)
  /\ \A i \in DOMAIN out : \E k \in 1..n :
       /\ out[i] \in ToSet(seqs[k])
       /\ \A l \in 1..(k - 1) : ToSet(seqs[l]) \subseteq {out[j] : j \in 1..(i - 1)}

LEMMA JoinOne ==
  ASSUME NEW T, NEW R, NEW seqs, NEW n \in Nat, NEW out \in Seq(T), Joined(out, seqs, n, R),
         seqs[n + 1] \in Seq(T), InOrder(seqs[n + 1], R),
         \A k \in 1..n : \A c \in ToSet(seqs[k]), d \in ToSet(seqs[n + 1]) : <<c, d>> \in R
  PROVE  out \o seqs[n + 1] \in Seq(T) /\ Joined(out \o seqs[n + 1], seqs, n + 1, R)
<1> DEFINE B == seqs[n + 1]
           list == out \o B
<1>1. B \in Seq(T) /\ InOrder(B, R) /\ InOrder(out, R)
  BY DEF Joined
<1>2. \A c \in ToSet(out), d \in ToSet(B) : <<c, d>> \in R
  BY DEF Joined
<1>3. list \in Seq(T) /\ ToSet(list) = ToSet(out) \cup ToSet(B) /\ InOrder(list, R)
  <2> HIDE DEF B
  <2> QED
    BY <1>1, <1>2, Concat
<1>4. 1..(n + 1) = 1..n \cup {n + 1} /\ 1..((n + 1) - 1) = 1..n
  OBVIOUS
<1>5. ToSet(list) = UNION {ToSet(seqs[k]) : k \in 1..(n + 1)}
  BY <1>3, <1>4 DEF Joined
<1>6. /\ Len(list) = Len(out) + Len(B) /\ Len(out) \in Nat /\ Len(B) \in Nat
      /\ \A i \in 1..Len(out) : list[i] = out[i]
      /\ \A i \in 1..Len(B) : list[Len(out) + i] = B[i]
      /\ DOMAIN list = 1..(Len(out) + Len(B)) /\ DOMAIN out = 1..Len(out) /\ DOMAIN B = 1..Len(B)
  <2> HIDE DEF B
  <2> QED
    BY <1>1, TwoLists
<1> HIDE DEF list
<1>7. ASSUME NEW i \in DOMAIN list
      PROVE  \E k \in 1..(n + 1) :
               /\ list[i] \in ToSet(seqs[k])
               /\ \A l \in 1..(k - 1) : ToSet(seqs[l]) \subseteq {list[j] : j \in 1..(i - 1)}
  <2>1. CASE i \in 1..Len(out)
    <3>1. PICK k \in 1..n : /\ out[i] \in ToSet(seqs[k])
                            /\ \A l \in 1..(k - 1) : ToSet(seqs[l]) \subseteq {out[j] : j \in 1..(i - 1)}
      BY <1>6, <2>1 DEF Joined
    <3>2. \A j \in 1..(i - 1) : list[j] = out[j]
      BY <1>6, <2>1
    <3>3. {out[j] : j \in 1..(i - 1)} = {list[j] : j \in 1..(i - 1)}
      BY <3>2
    <3>4. list[i] = out[i] /\ k \in 1..(n + 1)
      BY <1>6, <2>1
    <3> QED
      BY <3>1, <3>3, <3>4
  <2>2. CASE i \notin 1..Len(out)
    <3>1. i - Len(out) \in 1..Len(B) /\ Len(out) + (i - Len(out)) = i
      BY <1>6, <2>2
    <3>2. list[i] = B[i - Len(out)]
      BY <1>6, <3>1
    <3>3. list[i] \in ToSet(B)
      BY <1>6, <3>1, <3>2 DEF ToSet
    <3>4. ASSUME NEW l \in 1..n PROVE ToSet(seqs[l]) \subseteq {list[j] : j \in 1..(i - 1)}
      <4>1. ToSet(seqs[l]) \subseteq ToSet(out)
        BY DEF Joined
      <4>2. ToSet(out) = {out[j] : j \in 1..Len(out)}
        BY <1>6 DEF ToSet
      <4>3. \A j \in 1..Len(out) : j \in 1..(i - 1) /\ list[j] = out[j]
        BY <1>6, <2>2
      <4> QED
        BY <4>1, <4>2, <4>3
    <3> QED
      BY <1>4, <3>3, <3>4
  <2> QED
    BY <2>1, <2>2
<1> QED
  BY <1>3, <1>5, <1>7 DEF Joined, list

LEMMA FlattenOrder ==
  ASSUME NEW T, NEW R, NEW seqs \in Seq(Seq(T)),
         \A k \in DOMAIN seqs : InOrder(seqs[k], R),
         \A k, l \in DOMAIN seqs : k < l =>
           \A c \in ToSet(seqs[k]), d \in ToSet(seqs[l]) : <<c, d>> \in R
  PROVE  FlattenSeq(seqs) \in Seq(T) /\ Joined(FlattenSeq(seqs), seqs, Len(seqs), R)
<1> DEFINE len == Len(seqs)
<1>0. len \in Nat /\ DOMAIN seqs = 1..len /\ \A i \in 1..len : seqs[i] \in Seq(T)
  OBVIOUS
<1>1. CASE len = 0
  <2>1. FlattenSeq(seqs) = <<>>
    BY <1>1 DEF FlattenSeq
  <2>2. 1..len = {}
    BY <1>1
  <2>3. DOMAIN <<>> = {}
    OBVIOUS
  <2>4. ToSet(<<>>) = {} /\ UNION {ToSet(seqs[k]) : k \in 1..len} = {}
    BY <2>2, <2>3 DEF ToSet
  <2>5. ASSUME NEW e, DOMAIN e = {}, ToSet(e) = {} PROVE Joined(e, seqs, len, R)
    BY <2>4, <2>5 DEF Joined, InOrder
  <2>6. Joined(<<>>, seqs, len, R)
    BY <2>3, <2>4, <2>5
  <2> QED
    BY <2>1, <2>6
<1>2. CASE len # 0
  <2>2. PICK f : /\ f = [i \in 1..len |-> IF i = 1 THEN seqs[i] ELSE f[i - 1] \o seqs[i]]
                 /\ FlattenSeq(seqs) = f[len]
    BY <1>0, <1>2, FlattenDef
  <2>3. ASSUME NEW i \in 1..len PROVE f[i] = IF i = 1 THEN seqs[i] ELSE f[i - 1] \o seqs[i]
    BY <2>2
  <2> HIDE DEF len
  <2> DEFINE Good == {n \in Nat : n \in 1..len => f[n] \in Seq(T) /\ Joined(f[n], seqs, n, R)}
  <2>4. 0 \in Good
    OBVIOUS
  <2>5. ASSUME NEW n \in Nat, n \in Good PROVE n + 1 \in Good
    <3> SUFFICES ASSUME n + 1 \in 1..len
                 PROVE  f[n + 1] \in Seq(T) /\ Joined(f[n + 1], seqs, n + 1, R)
      OBVIOUS
    <3>1. seqs[n + 1] \in Seq(T) /\ InOrder(seqs[n + 1], R)
      BY <1>0
    <3>2. CASE n = 0
      <4>1. f[1] = seqs[1] /\ seqs[1] \in Seq(T) /\ InOrder(seqs[1], R)
        BY <2>3, <3>1, <3>2
      <4>2. 1..1 = {1} /\ 1..(1 - 1) = {}
        OBVIOUS
      <4>3. UNION {ToSet(seqs[k]) : k \in 1..1} = ToSet(seqs[1])
        BY <4>2
      <4>4. \A i \in DOMAIN seqs[1] : seqs[1][i] \in ToSet(seqs[1])
        BY DEF ToSet
      <4>5. Joined(seqs[1], seqs, 1, R)
        BY <4>1, <4>2, <4>3, <4>4 DEF Joined
      <4> QED
        BY <3>2, <4>1, <4>5
    <3>3. CASE n # 0
      <4>1. f[n] \in Seq(T) /\ Joined(f[n], seqs, n, R)
        BY <1>0, <2>5, <3>3
      <4>2. (n + 1) - 1 = n /\ n + 1 # 1
        BY <3>3
      <4>3. f[n + 1] = f[n] \o seqs[n + 1]
        BY <2>3, <4>2
      <4>4. \A k \in 1..n : \A c \in ToSet(seqs[k]), d \in ToSet(seqs[n + 1]) : <<c, d>> \in R
        <5>1. \A k \in 1..n : k \in 1..len /\ k < n + 1
          BY <1>0
        <5> QED
          BY <1>0, <5>1
      <4> QED
        BY <3>1, <4>1, <4>3, <4>4, JoinOne
    <3> QED
      BY <3>2, <3>3
  <2> HIDE DEF Good
  <2>6. Nat \subseteq Good
    BY <2>4, <2>5, Induction
  <2>7. len \in Good /\ len \in 1..len
    BY <1>0, <1>2, <2>6
  <2> QED
    BY <2>2, <2>7 DEF Good, len
<1> QED
  BY <1>1, <1>2

LEMMA SetToSeqBijective ==
  ASSUME NEW S, IsFiniteSet(S)
  PROVE  /\ SetToSeq(S) \in Seq(S)
         /\ \A i, j \in DOMAIN SetToSeq(S) : SetToSeq(S)[i] = SetToSeq(S)[j] => i = j
         /\ \A x \in S : \E i \in DOMAIN SetToSeq(S) : SetToSeq(S)[i] = x
<1> DEFINE n == Cardinality(S)
           g == SetToSeq(S)
<1>1. n \in Nat /\ ExistsBijection(1..n, S)
  BY FS_CardinalityType
<1>2. PICK f \in [1..n -> S] : IsInjective(f)
  BY <1>1 DEF ExistsBijection, Bijection, Injection, IsInjective
<1>3. g \in [1..n -> S] /\ IsInjective(g)
  BY <1>2 DEF SetToSeq
<1>4. \A i, j \in 1..n : g[i] = g[j] => i = j
  BY <1>3 DEF IsInjective
<1>5. ASSUME NEW x \in S, \A i \in 1..n : g[i] # x PROVE FALSE
  <2>1. IsFiniteSet(S \ {x}) /\ Cardinality(S \ {x}) = n - 1
    BY FS_RemoveElement
  <2>2. IsFiniteSet(1..n) /\ Cardinality(1..n) = n
    BY <1>1, FS_Interval
  <2> HIDE DEF g, n
  <2>3. g \in [1..n -> S \ {x}]
    BY <1>3, <1>5
  <2>4. Cardinality(S \ {x}) < Cardinality(1..n)
    BY <1>1, <2>1, <2>2
  <2>5. \E i, j \in 1..n : i # j /\ g[i] = g[j]
    BY <2>1, <2>2, <2>3, <2>4, FS_PigeonHole
  <2> QED
    BY <1>4, <2>5
<1> HIDE DEF g, n
<1>6. DOMAIN g = 1..n /\ g \in Seq(S)
  BY <1>1, <1>3
<1> QED
  BY <1>4, <1>5, <1>6 DEF g

-----------------------------------------------------------------------------
(* The order of the commands for addresses.  The first address of IPv4     *)
(* replaces the others, those of IPv6 are put where the old ones have been *)
(* deleted, and the switch to DHCP comes last.                             *)

Before(c, d) ==
  /\ c.op \in {"set4", "add4"} => d.op # "set4"
  /\ c.op = "put6" => d.op # "del6"
  /\ c.op = "del6" /\ d.op = "del6" => c.arg # d.arg
  /\ c.op = "dhcp4" => d.op \notin {"set4", "add4", "dhcp4"} /\ d.onError # "stop"
  /\ c.onError = "stop" => /\ d.op \notin {"set4", "add4", "put6", "wrong"}
                           /\ d.op = "del6" => d.onError = "stop"

Order == {p \in Commands \X Commands : Before(p[1], p[2])}

LEMMA OrderIs ==
  ASSUME NEW c \in Commands, NEW d \in Commands
  PROVE  <<c, d>> \in Order <=> Before(c, d)
BY DEF Order

LEMMA SingleOrder ==
  ASSUME NEW c
  PROVE  InOrder(<<c>>, Order) /\ ToSet(<<c>>) = {c}
<1>1. DOMAIN <<c>> = {1} /\ <<c>>[1] = c
  OBVIOUS
<1>2. ToSet(<<c>>) = {c}
  BY <1>1 DEF ToSet
<1>3. \A R : InOrder(<<c>>, R)
  BY <1>1 DEF InOrder
<1> QED
  BY <1>2, <1>3

LEMMA EmptyOrder ==
  ASSUME NEW T, NEW list, list = <<>>
  PROVE  list \in Seq(T) /\ InOrder(list, Order) /\ ToSet(list) = {}
<1>1. list \in Seq(T) /\ DOMAIN list = {}
  OBVIOUS
<1> QED
  BY <1>1 DEF InOrder, ToSet

\* The deletions of what was found, each once.
IsDeletion(c, e) == c.op = "del6" /\ c.arg \in found.ip6 /\ c.onError = e
Deletes(list, e) ==
  /\ list \in Seq(Plain) /\ InOrder(list, Order)
  /\ \A c \in ToSet(list) : IsDeletion(c, e)
  /\ \A x \in found.ip6 : \E c \in ToSet(list) : c.arg = x

LEMMA Deletions ==
  ASSUME TypeOK, NEW e \in OnError
  PROVE  Deletes(remove_ipv6_ips(e), e)
<1> DEFINE list == SetToSeq(found.ip6)
           one(k) == [op |-> "del6", arg |-> list[k], onError |-> e]
           seqs == [k \in DOMAIN list |-> Cmd("del6", list[k], e)]
<1>1. IsFiniteSet(found.ip6) /\ found.ip6 \subseteq Addr6
  BY SystemsAssumption, FS_Subset DEF TypeOK, System
<1>2. /\ list \in Seq(found.ip6)
      /\ \A i, j \in DOMAIN list : list[i] = list[j] => i = j
      /\ \A x \in found.ip6 : \E i \in DOMAIN list : list[i] = x
  BY <1>1, SetToSeqBijective
<1>3. remove_ipv6_ips(e) = FlattenSeq(seqs)
  BY DEF remove_ipv6_ips, ForEach
<1> HIDE DEF list
<1>4. ASSUME NEW k \in DOMAIN list
      PROVE  /\ seqs[k] = <<one(k)>> /\ one(k) \in Plain
             /\ one(k).op = "del6" /\ one(k).arg = list[k] /\ one(k).onError = e
  <2>1. list[k] \in Addr6
    BY <1>1, <1>2
  <2> QED
    BY <2>1 DEF Cmd, Plain, Commands, NameOps
<1>5. DOMAIN seqs = DOMAIN list /\ DOMAIN list = 1..Len(list) /\ Len(list) \in Nat
  BY <1>2
<1> HIDE DEF one, seqs
<1>6. ASSUME NEW k \in DOMAIN list
      PROVE  seqs[k] \in Seq(Plain) /\ InOrder(seqs[k], Order) /\ ToSet(seqs[k]) = {one(k)}
  <2>1. seqs[k] = <<one(k)>> /\ one(k) \in Plain
    BY <1>4
  <2>2. <<one(k)>> \in Seq(Plain)
    BY <2>1
  <2>3. InOrder(<<one(k)>>, Order) /\ ToSet(<<one(k)>>) = {one(k)}
    BY SingleOrder
  <2> QED
    BY <2>1, <2>2, <2>3
<1>7. seqs \in Seq(Seq(Plain)) /\ Len(seqs) = Len(list)
  <2>1. seqs = [k \in 1..Len(list) |-> seqs[k]]
    BY <1>5 DEF seqs
  <2> QED
    BY <1>5, <1>6, <2>1
<1>8. \A k, l \in DOMAIN seqs : k < l =>
        \A c \in ToSet(seqs[k]), d \in ToSet(seqs[l]) : <<c, d>> \in Order
  <2> SUFFICES ASSUME NEW k \in DOMAIN seqs, NEW l \in DOMAIN seqs, k < l
               PROVE  <<one(k), one(l)>> \in Order
    BY <1>5, <1>6
  <2>1. list[k] # list[l]
    BY <1>2, <1>5
  <2>2. one(k) \in Commands /\ one(l) \in Commands
    BY <1>4, <1>5 DEF Plain
  <2>3. Before(one(k), one(l))
    BY <1>4, <1>5, <2>1 DEF Before
  <2> QED
    BY <2>2, <2>3, OrderIs
<1>9. FlattenSeq(seqs) \in Seq(Plain) /\ Joined(FlattenSeq(seqs), seqs, Len(seqs), Order)
  BY <1>5, <1>6, <1>7, <1>8, FlattenOrder
<1>10. ToSet(FlattenSeq(seqs)) = UNION {ToSet(seqs[k]) : k \in DOMAIN list}
  <2>1. 1..Len(seqs) = DOMAIN list
    BY <1>5, <1>7
  <2>2. ToSet(FlattenSeq(seqs)) = UNION {ToSet(seqs[k]) : k \in 1..Len(seqs)}
    BY <1>9 DEF Joined
  <2> QED
    BY <2>1, <2>2
<1>11. ASSUME NEW c \in ToSet(FlattenSeq(seqs)) PROVE \E k \in DOMAIN list : c = one(k)
  <2>1. PICK k \in DOMAIN list : c \in ToSet(seqs[k])
    BY <1>10
  <2>2. ToSet(seqs[k]) = {one(k)}
    BY <1>6
  <2> QED
    BY <2>1, <2>2
<1>12. \A k \in DOMAIN list : one(k) \in ToSet(FlattenSeq(seqs))
  BY <1>6, <1>10
<1>13. \A k \in DOMAIN list : IsDeletion(one(k), e)
  BY <1>2, <1>4 DEF IsDeletion
<1>14. \A x \in found.ip6 : \E c \in ToSet(FlattenSeq(seqs)) : c.arg = x
  BY <1>2, <1>4, <1>12
<1> QED
  BY <1>3, <1>9, <1>11, <1>13, <1>14 DEF Deletes, Joined

\* A command set_ip() makes of the k-th word of its list, and all of those it makes of it.
FromWord(c, words, k) ==
  /\ c.onError = "return"
  /\ \/ c.op = "set4" /\ words[k] \in Addr4 /\ First(words, k) /\ c.arg = words[k]
     \/ c.op = "add4" /\ words[k] \in Addr4 /\ ~First(words, k) /\ c.arg = words[k]
     \/ c.op = "del6" /\ words[k] \in Addr6 /\ First(words, k) /\ c.arg \in found.ip6
     \/ c.op = "put6" /\ words[k] \in Addr6 /\ c.arg = words[k]
     \/ c.op = "wrong" /\ words[k] \notin Addr4 \cup Addr6 \cup {RemoveV4}

FullWord(list, words, k) ==
  /\ words[k] \in Addr4 /\ First(words, k) => \E c \in ToSet(list) : c.op = "set4" /\ c.arg = words[k]
  /\ words[k] \in Addr4 /\ ~First(words, k) => \E c \in ToSet(list) : c.op = "add4" /\ c.arg = words[k]
  /\ words[k] \in Addr6 => \E c \in ToSet(list) : c.op = "put6" /\ c.arg = words[k]
  /\ words[k] \in Addr6 /\ First(words, k) =>
       \A x \in found.ip6 : \E c \in ToSet(list) : c.op = "del6" /\ c.arg = x
  /\ words[k] \notin Addr4 \cup Addr6 \cup {RemoveV4} => \E c \in ToSet(list) : c.op = "wrong"

LEMMA Families ==
  /\ \A a \in Addr4 : FamilyOf(a) = 4 /\ ~IsRemove(a) /\ a # RemoveV4 /\ a \notin Addr6
  /\ \A a \in Addr6 : FamilyOf(a) = 6 /\ ~IsRemove(a) /\ a # RemoveV4 /\ a \notin Addr4
  /\ IsRemove(RemoveV4)
BY AddressesAssumption DEF FamilyOf, IsV6, IsRemove

LEMMA OneCommand ==
  ASSUME NEW op, NEW a, NEW e, NEW words, NEW k, Cmd(op, a, e) \in Seq(Plain)
  PROVE  LET list == Cmd(op, a, e)
             c    == [op |-> op, arg |-> a, onError |-> e]
         IN  /\ InOrder(list, Order) /\ ToSet(list) = {c}
             /\ c.op = op /\ c.arg = a /\ c.onError = e
BY SingleOrder DEF Cmd

LEMMA IpWordCommands ==
  ASSUME TypeOK, NEW words \in Seq(Word), NEW k \in DOMAIN words
  PROVE  LET list == SetIpWord(words, k)
         IN  /\ list \in Seq(Plain) /\ InOrder(list, Order)
             /\ \A c \in ToSet(list) : FromWord(c, words, k)
             /\ FullWord(list, words, k)
<1> DEFINE a == words[k]
           list == SetIpWord(words, k)
<1>1. list \in Seq(Plain)
  BY IpWordType
<1>2. CASE a = RemoveV4
  <2>1. list = <<>>
    BY <1>2 DEF SetIpWord
  <2>2. InOrder(list, Order) /\ ToSet(list) = {}
    BY <2>1, EmptyOrder
  <2>3. a \notin Addr4 /\ a \notin Addr6
    BY <1>2, Families
  <2> QED
    BY <1>1, <1>2, <2>2, <2>3 DEF FullWord
<1>3. ASSUME NEW op \in {"set4", "add4", "wrong"}, list = Cmd(op, a, "return"), a \notin Addr6,
             op = "set4" <=> a \in Addr4 /\ First(words, k),
             op = "add4" <=> a \in Addr4 /\ ~First(words, k), a # RemoveV4
      PROVE  /\ InOrder(list, Order)
             /\ \A c \in ToSet(list) : FromWord(c, words, k)
             /\ FullWord(list, words, k)
  <2> DEFINE c == [op |-> op, arg |-> a, onError |-> "return"]
  <2>1. InOrder(list, Order) /\ ToSet(list) = {c} /\ c.op = op /\ c.arg = a /\ c.onError = "return"
    BY <1>1, <1>3, OneCommand
  <2> HIDE DEF c, list
  <2>2. FromWord(c, words, k)
    BY <1>3, <2>1 DEF FromWord
  <2>3. FullWord(list, words, k)
    BY <1>3, <2>1 DEF FullWord
  <2> QED
    BY <2>1, <2>2, <2>3
<1>4. CASE a # RemoveV4 /\ a \in Addr4
  <2>1. list = Cmd(IF First(words, k) THEN "set4" ELSE "add4", a, "return")
    BY <1>4 DEF SetIpWord
  <2>2. a \notin Addr6
    BY <1>4, Families
  <2>3. CASE First(words, k)
    BY <1>1, <1>3, <1>4, <2>1, <2>2, <2>3
  <2>4. CASE ~First(words, k)
    BY <1>1, <1>3, <1>4, <2>1, <2>2, <2>4
  <2> QED
    BY <2>3, <2>4
<1>5. CASE a # RemoveV4 /\ a \notin Addr4 /\ a \notin Addr6
  <2>1. list = Cmd("wrong", a, "return")
    BY <1>5 DEF SetIpWord
  <2> QED
    BY <1>1, <1>3, <1>5, <2>1
<1>6. CASE a \in Addr6
  <2> DEFINE A == IF First(words, k) THEN remove_ipv6_ips("return") ELSE <<>>
             B == Cmd("put6", a, "return")
             c == [op |-> "put6", arg |-> a, onError |-> "return"]
  <2>0. a \notin Addr4 /\ a # RemoveV4
    BY <1>6, Families
  <2>1. list = A \o B
    BY <1>6, <2>0 DEF SetIpWord
  <2>2. B \in Seq(Plain)
    BY <1>6, PlainCommands DEF OnError
  <2>3. InOrder(B, Order) /\ ToSet(B) = {c} /\ c.op = "put6" /\ c.arg = a /\ c.onError = "return"
    BY <2>2, OneCommand
  <2>4. Deletes(remove_ipv6_ips("return"), "return")
    BY Deletions DEF OnError
  <2>5. /\ A \in Seq(Plain) /\ InOrder(A, Order)
        /\ \A d \in ToSet(A) : First(words, k) /\ IsDeletion(d, "return")
        /\ First(words, k) => \A x \in found.ip6 : \E d \in ToSet(A) : d.arg = x
    <3>1. CASE First(words, k)
      BY <2>4, <3>1 DEF Deletes
    <3>2. CASE ~First(words, k)
      <4>1. A = <<>>
        BY <3>2
      <4> HIDE DEF A
      <4>2. A \in Seq(Plain) /\ InOrder(A, Order) /\ ToSet(A) = {}
        BY <4>1, EmptyOrder
      <4> QED
        BY <3>2, <4>2
    <3> QED
      BY <3>1, <3>2
  <2> HIDE DEF A, B, c
  <2>6. c \in Plain
    BY <2>2, <2>3, Members
  <2>7. \A d \in ToSet(A), e \in ToSet(B) : <<d, e>> \in Order
    <3> SUFFICES ASSUME NEW d \in ToSet(A) PROVE <<d, c>> \in Order
      BY <2>3
    <3>1. d \in Commands /\ c \in Commands
      BY <2>5, <2>6, Members DEF Plain
    <3>2. d.op = "del6" /\ d.onError = "return"
      BY <2>5 DEF IsDeletion
    <3>3. Before(d, c)
      BY <2>3, <3>2 DEF Before
    <3> QED
      BY <3>1, <3>3, OrderIs
  <2>8. InOrder(list, Order) /\ ToSet(list) = ToSet(A) \cup {c}
    BY <2>1, <2>2, <2>3, <2>5, <2>7, Concat
  <2> HIDE DEF list
  <2>9. ASSUME NEW d \in ToSet(list) PROVE FromWord(d, words, k)
    BY <1>6, <2>3, <2>5, <2>8 DEF FromWord, IsDeletion
  <2>10. FullWord(list, words, k)
    <3>1. ASSUME First(words, k), NEW x \in found.ip6
          PROVE  \E d \in ToSet(list) : d.op = "del6" /\ d.arg = x
      BY <2>5, <2>8, <3>1 DEF IsDeletion
    <3>2. \E d \in ToSet(list) : d.op = "put6" /\ d.arg = a
      BY <2>3, <2>8
    <3>3. a \in Addr4 \cup Addr6 \cup {RemoveV4}
      BY <1>6
    <3> HIDE DEF a
    <3> QED
      BY <2>0, <3>1, <3>2, <3>3 DEF FullWord, a
  <2> QED
    BY <1>1, <2>8, <2>9, <2>10 DEF list
<1> QED
  BY <1>1, <1>2, <1>4, <1>5, <1>6

LEMMA WordsInOrder ==
  ASSUME NEW words \in Seq(Word), NEW k \in DOMAIN words, NEW l \in DOMAIN words, k < l,
         NEW c, FromWord(c, words, k), NEW d, FromWord(d, words, l)
  PROVE  Before(c, d)
<1>1. First(words, l) => IsRemove(words[k]) \/ FamilyOf(words[k]) # FamilyOf(words[l])
  <2>1. k \in 1..(l - 1)
    OBVIOUS
  <2> QED
    BY <2>1 DEF First
<1>2. c.op \in {"set4", "add4"} /\ d.op = "set4" => FALSE
  BY <1>1, Families DEF FromWord
<1>3. c.op \in {"del6", "put6"} /\ d.op = "del6" => FALSE
  BY <1>1, Families DEF FromWord
<1>4. c.op # "dhcp4" /\ c.onError # "stop"
  BY DEF FromWord
<1> QED
  BY <1>2, <1>3, <1>4 DEF Before

\* No address is added before one has been set, unless a wrong word ends the handler first.
Covered(list) ==
  \A i \in DOMAIN list :
    list[i].op = "add4" => \E j \in 1..(i - 1) : list[j].op \in {"set4", "wrong"}

\* The commands set_ip() makes of a list of words.
IpList(list, words) ==
  /\ list \in Seq(Plain) /\ InOrder(list, Order)
  /\ Covered(list)
  /\ \A c \in ToSet(list) : \E k \in DOMAIN words : FromWord(c, words, k)
  /\ \A k \in DOMAIN words : FullWord(list, words, k)

\* A word that is not the first of its family has one before it that is, or is no address.
LEMMA EarlierWord ==
  ASSUME NEW words \in Seq(Word), NEW k \in DOMAIN words, words[k] \in Addr4, ~First(words, k)
  PROVE  \E n \in 1..(k - 1) : \/ words[n] \in Addr4 /\ First(words, n)
                               \/ words[n] \notin Addr4 \cup Addr6 \cup {RemoveV4}
<1> DEFINE S == {n \in 1..(k - 1) : ~IsRemove(words[n]) /\ FamilyOf(words[n]) = 4}
<1>1. FamilyOf(words[k]) = 4
  BY Families
<1>2. S # {} /\ S \subseteq Nat
  BY <1>1 DEF First
<1> HIDE DEF S
<1>3. PICK n \in S : \A m \in S : n <= m
  BY <1>2, Least
<1>4. n \in 1..(k - 1) /\ ~IsRemove(words[n]) /\ FamilyOf(words[n]) = 4
  BY <1>3 DEF S
<1>5. \A m \in 1..(n - 1) : IsRemove(words[m]) \/ FamilyOf(words[m]) # 4
  <2> SUFFICES ASSUME NEW m \in 1..(n - 1), m \in S PROVE FALSE
    BY <1>4 DEF S
  <2>1. n <= m
    BY <1>3
  <2> QED
    BY <1>4, <2>1
<1>6. First(words, n)
  BY <1>4, <1>5 DEF First
<1>7. words[n] \notin Addr6 /\ words[n] # RemoveV4
  BY <1>4, Families
<1> QED
  BY <1>4, <1>6, <1>7

LEMMA IpWords ==
  ASSUME TypeOK, NEW words \in Seq(Word)
  PROVE  IpList(FlattenSeq([k \in DOMAIN words |-> SetIpWord(words, k)]), words)
<1> DEFINE seqs == [k \in DOMAIN words |-> SetIpWord(words, k)]
           list == FlattenSeq(seqs)
<1>1. ASSUME NEW k \in DOMAIN words
      PROVE  /\ seqs[k] \in Seq(Plain) /\ InOrder(seqs[k], Order)
             /\ \A c \in ToSet(seqs[k]) : FromWord(c, words, k)
             /\ FullWord(seqs[k], words, k)
  BY IpWordCommands
<1>2. DOMAIN words = 1..Len(words) /\ Len(words) \in Nat /\ DOMAIN seqs = DOMAIN words
  OBVIOUS
<1>3. seqs \in Seq(Seq(Plain)) /\ Len(seqs) = Len(words)
  <2>1. seqs = [k \in 1..Len(words) |-> seqs[k]]
    BY <1>2
  <2>2. \A k \in 1..Len(words) : seqs[k] \in Seq(Plain)
    BY <1>1, <1>2
  <2> HIDE DEF seqs
  <2> QED
    BY <1>2, <2>1, <2>2
<1> HIDE DEF seqs
<1>4. ASSUME NEW k \in DOMAIN words, NEW l \in DOMAIN words, k < l,
             NEW c \in ToSet(seqs[k]), NEW d \in ToSet(seqs[l])
      PROVE  <<c, d>> \in Order
  <2>1. c \in Commands /\ d \in Commands
    <3>1. seqs[k] \in Seq(Plain) /\ seqs[l] \in Seq(Plain)
      BY <1>1
    <3>2. c \in Plain /\ d \in Plain
      BY <3>1, Members
    <3> QED
      BY <3>2 DEF Plain
  <2>2. FromWord(c, words, k) /\ FromWord(d, words, l)
    BY <1>1
  <2>3. Before(c, d)
    BY <1>4, <2>2, WordsInOrder
  <2> QED
    BY <2>1, <2>3, OrderIs
<1>5. list \in Seq(Plain) /\ Joined(list, seqs, Len(seqs), Order)
  <2>1. \A k \in DOMAIN seqs : InOrder(seqs[k], Order)
    BY <1>1, <1>2
  <2>2. \A k, l \in DOMAIN seqs : k < l =>
          \A c \in ToSet(seqs[k]), d \in ToSet(seqs[l]) : <<c, d>> \in Order
    BY <1>2, <1>4
  <2> QED
    BY <1>3, <2>1, <2>2, FlattenOrder
<1> HIDE DEF list
<1>6. InOrder(list, Order) /\ ToSet(list) = UNION {ToSet(seqs[k]) : k \in DOMAIN words}
  BY <1>2, <1>3, <1>5 DEF Joined
<1>7. ASSUME NEW c \in ToSet(list) PROVE \E k \in DOMAIN words : FromWord(c, words, k)
  <2>1. PICK k \in DOMAIN words : c \in ToSet(seqs[k])
    BY <1>6
  <2> QED
    BY <1>1, <2>1
<1>8. ASSUME NEW k \in DOMAIN words PROVE FullWord(list, words, k)
  <2>1. ToSet(seqs[k]) \subseteq ToSet(list)
    BY <1>6
  <2>2. FullWord(seqs[k], words, k)
    BY <1>1
  <2> QED
    BY <2>1, <2>2 DEF FullWord
<1>9. ASSUME NEW i \in DOMAIN list, list[i].op = "add4"
      PROVE  \E j \in 1..(i - 1) : list[j].op \in {"set4", "wrong"}
  <2>1. PICK k \in DOMAIN words :
          /\ list[i] \in ToSet(seqs[k])
          /\ \A l \in 1..(k - 1) : ToSet(seqs[l]) \subseteq {list[j] : j \in 1..(i - 1)}
    BY <1>2, <1>3, <1>5 DEF Joined
  <2>2. FromWord(list[i], words, k)
    BY <1>1, <2>1
  <2>3. words[k] \in Addr4 /\ ~First(words, k)
    BY <1>9, <2>2 DEF FromWord
  <2>4. PICK n \in 1..(k - 1) : \/ words[n] \in Addr4 /\ First(words, n)
                                \/ words[n] \notin Addr4 \cup Addr6 \cup {RemoveV4}
    BY <2>3, EarlierWord
  <2>5. n \in DOMAIN words
    BY <1>2, <2>4
  <2>6. FullWord(seqs[n], words, n)
    BY <1>1, <2>5
  <2>7. PICK c \in ToSet(seqs[n]) : c.op \in {"set4", "wrong"}
    BY <2>4, <2>6 DEF FullWord
  <2>8. c \in {list[j] : j \in 1..(i - 1)}
    BY <2>1, <2>4, <2>7
  <2> QED
    BY <2>7, <2>8
<1> QED
  BY <1>5, <1>6, <1>7, <1>8, <1>9 DEF IpList, Covered, list, seqs

Has(list, ops)  == \E c \in ToSet(list) : c.op \in ops
Args(list, ops) == {c.arg : c \in {d \in ToSet(list) : d.op \in ops}}

LEMMA ArgsIs ==
  ASSUME NEW list, NEW ops
  PROVE  /\ \A x : x \in Args(list, ops) <=> \E c \in ToSet(list) : c.op \in ops /\ c.arg = x
         /\ Has(list, ops) <=> \E c \in ToSet(list) : c.op \in ops
BY DEF Args, Has

\* What failures of the commands for addresses do: an address that cannot be set, or a
\* word that is none, ends the handler; only deletions drop others.
Errors(list) ==
  \A c \in ToSet(list) :
    /\ c.op \in {"set4", "add4", "put6", "wrong"} => c.onError = "return"
    /\ c.op = "del6" => c.onError \in {"return", "stop"}
    /\ c.onError = "stop" => c.op = "del6"

\* Addresses of IPv6 are asked for only where no failure of a deletion goes unnoticed.
Stops(list) == \A c \in ToSet(list) : c.onError = "stop" => Asked(6) = {}

\* --ip names addresses of IPv4, and does not ask for DHCP.
FourGiven == RemoveV4 \notin Value("ip") /\ Asked(4) # {}

\* The list of set_ip().
IpPlan(list) ==
  /\ list \in Seq(Plain) /\ InOrder(list, Order) /\ Covered(list)
  /\ Errors(list) /\ Stops(list)
  /\ Args(list, {"set4", "add4"}) = Asked(4)
  /\ Args(list, {"put6"}) = Asked(6)
  /\ FourGiven => ~Has(list, {"dhcp4"})
  /\ ~Has(list, {"wrong"}) =>
       /\ Asked(4) # {} => Has(list, {"set4"})
       /\ ~FourGiven => Has(list, {"dhcp4"}) \/ (4 \in Value("dhcp") /\ Asked(4) = {})
       /\ Args(list, {"del6"}) = found.ip6

LEMMA AskedIs ==
  ASSUME TypeOK
  PROVE  LET words == Words("ip") IN
         /\ \A x : x \in Value("ip") <=> \E k \in DOMAIN words : words[k] = x
         /\ \A x : x \in Asked(4) <=> x \in Addr4 /\ x \in Value("ip")
         /\ \A x : x \in Asked(6) <=> x \in Addr6 /\ x \in Value("ip")
<1>1. \A x : x \in Value("ip") <=> \E k \in DOMAIN Words("ip") : Words("ip")[k] = x
  BY DEF Value, ToSet
<1>2. \A x : x \in Asked(4) <=> x \in Addr4 /\ x \in Value("ip")
  BY Families DEF Asked
<1>3. \A x : x \in Asked(6) <=> x \in Addr6 /\ x \in Value("ip")
  BY Families DEF Asked
<1> QED
  BY <1>1, <1>2, <1>3

\* The servers of IPv6 from DHCP and the deletion of all addresses: what the failure of
\* each does is dns and del.
SixPart(list, dns, del) ==
  /\ list \in Seq(Plain) /\ InOrder(list, Order)
  /\ \A c \in ToSet(list) : \/ c.op = "dns" /\ c.arg.to = <<DHCP>> /\ c.onError = dns
                            \/ IsDeletion(c, del)
  /\ \A x \in found.ip6 : \E c \in ToSet(list) : c.op = "del6" /\ c.arg = x

LEMMA SixIs ==
  ASSUME TypeOK, NEW dns \in OnError, NEW del \in OnError, dns # "stop"
  PROVE  SixPart(DnsFromDhcp(6, dns) \o remove_ipv6_ips(del), dns, del)
<1> DEFINE A == DnsFromDhcp(6, dns)
           B == remove_ipv6_ips(del)
           to == [family |-> 6, to |-> <<DHCP>>]
           d == [op |-> "dns", arg |-> to, onError |-> dns]
<1>1. Deletes(B, del)
  BY Deletions
<1>2. A \in Seq(Plain)
  BY PlainCommands DEF OnError, Family
<1>3. InOrder(A, Order) /\ ToSet(A) = {d} /\ d.op = "dns" /\ d.arg.to = <<DHCP>> /\ d.onError = dns
  <2>0. to.to = <<DHCP>>
    OBVIOUS
  <2> HIDE DEF to
  <2>1. A = Cmd("dns", to, dns)
    BY DEF DnsFromDhcp, to
  <2>2. Cmd("dns", to, dns) \in Seq(Plain)
    BY <1>2, <2>1
  <2>3. InOrder(A, Order) /\ ToSet(A) = {d} /\ d.op = "dns" /\ d.arg = to /\ d.onError = dns
    BY <2>1, <2>2, OneCommand
  <2> QED
    BY <2>0, <2>3
<1> HIDE DEF A, B, d
<1>4. d \in Commands
  BY <1>2, <1>3, Members DEF Plain
<1>5. B \in Seq(Plain) /\ InOrder(B, Order) /\ \A c \in ToSet(B) : IsDeletion(c, del)
  BY <1>1 DEF Deletes
<1>6. ASSUME NEW c \in ToSet(B) PROVE <<d, c>> \in Order
  <2>1. c \in Commands /\ c.op = "del6"
    BY <1>5, Members DEF Plain, IsDeletion
  <2>2. Before(d, c)
    BY <1>3 DEF Before
  <2> QED
    BY <1>4, <2>1, <2>2, OrderIs
<1>7. A \o B \in Seq(Plain) /\ ToSet(A \o B) = {d} \cup ToSet(B) /\ InOrder(A \o B, Order)
  BY <1>2, <1>3, <1>5, <1>6, Concat
<1> DEFINE list == A \o B
<1> HIDE DEF list
<1>8. \A c \in ToSet(list) : \/ c.op = "dns" /\ c.arg.to = <<DHCP>> /\ c.onError = dns
                             \/ IsDeletion(c, del)
  BY <1>3, <1>5, <1>7 DEF list
<1>9. ASSUME NEW x \in found.ip6 PROVE \E c \in ToSet(list) : c.op = "del6" /\ c.arg = x
  <2>1. PICK c \in ToSet(B) : c.arg = x
    BY <1>1 DEF Deletes
  <2>2. c.op = "del6" /\ c \in ToSet(list)
    BY <1>5, <1>7 DEF IsDeletion, list
  <2> QED
    BY <2>1, <2>2
<1>10. SixPart(list, dns, del)
  BY <1>7, <1>8, <1>9 DEF SixPart, list
<1> QED
  BY <1>10 DEF list, A, B

\* Behind a list without commands that add addresses none come uncovered.
LEMMA CoveredConcat ==
  ASSUME NEW T, NEW A \in Seq(T), NEW B \in Seq(T), Covered(A), ~Has(B, {"add4"})
  PROVE  Covered(A \o B)
<1> DEFINE list == A \o B
           m == Len(A)
           n == Len(B)
<1>1. /\ list \in Seq(T) /\ Len(list) = m + n /\ m \in Nat /\ n \in Nat
      /\ \A i \in 1..m : list[i] = A[i]
      /\ \A i \in 1..n : list[m + i] = B[i]
      /\ DOMAIN A = 1..m /\ DOMAIN list = 1..(m + n) /\ DOMAIN B = 1..n
  BY TwoLists
<1> HIDE DEF list, m, n
<1> SUFFICES ASSUME NEW i \in 1..(m + n), list[i].op = "add4"
             PROVE  \E j \in 1..(i - 1) : list[j].op \in {"set4", "wrong"}
  BY <1>1 DEF Covered, list
<1>2. CASE i \in 1..m
  <2>1. A[i].op = "add4"
    BY <1>1, <1>2
  <2>2. PICK j \in 1..(i - 1) : A[j].op \in {"set4", "wrong"}
    BY <1>1, <1>2, <2>1 DEF Covered
  <2>3. j \in 1..m
    BY <1>1, <1>2
  <2> QED
    BY <1>1, <2>2, <2>3
<1>3. CASE i \notin 1..m
  <2>1. i - m \in 1..n /\ m + (i - m) = i
    BY <1>1, <1>3
  <2>2. list[i] = B[i - m]
    BY <1>1, <2>1
  <2>3. list[i] \in ToSet(B)
    BY <1>1, <2>1, <2>2 DEF ToSet
  <2> QED
    BY <2>3 DEF Has
<1> QED
  BY <1>2, <1>3

\* A command of set_ip()'s list comes from a word, or is one of those at its end.
SixNone == {a \in Value("ip") : ~IsRemove(a) /\ FamilyOf(a) = 6} = {}
ToDhcp  ==
  \/ RemoveV4 \in Value("ip")
  \/ {a \in Value("ip") : ~IsRemove(a) /\ FamilyOf(a) = 4} = {} /\ 4 \notin Value("dhcp")

AtEndSix(c)  ==
  /\ SixNone
  /\ (c.op = "dns" /\ c.arg.to = <<DHCP>> /\ c.onError = "ignore") \/ IsDeletion(c, "stop")
AtEndFour(c) == ToDhcp /\ c.op = "dhcp4" /\ c.onError = "ignore"

IpParts(A, B, C) ==
  /\ IpList(A, Words("ip"))
  /\ B \in Seq(Plain) /\ InOrder(B, Order)
  /\ \A c \in ToSet(B) : AtEndSix(c)
  /\ SixNone => \A x \in found.ip6 : \E c \in ToSet(B) : c.op = "del6" /\ c.arg = x
  /\ C \in Seq(Plain) /\ InOrder(C, Order)
  /\ \A c \in ToSet(C) : AtEndFour(c)
  /\ ToDhcp => Has(C, {"dhcp4"})

LEMMA SetIpParts ==
  ASSUME TypeOK
  PROVE  \E A, B, C : IpParts(A, B, C) /\ set_ip = A \o B \o C
<1> DEFINE words == Words("ip")
           A == FlattenSeq([k \in DOMAIN words |-> SetIpWord(words, k)])
           six == DnsFromDhcp(6, "ignore") \o remove_ipv6_ips("stop")
           B == IF SixNone THEN six ELSE <<>>
           C == IF ToDhcp THEN Cmd("dhcp4", None, "ignore") ELSE <<>>
           d == [op |-> "dhcp4", arg |-> None, onError |-> "ignore"]
<1>1. set_ip = A \o B \o C
  BY DEF set_ip, ForEach, SixNone, ToDhcp
<1>2. words \in Seq(Word)
  BY WordsType, KindType
<1>3. IpList(A, words)
  <2> HIDE DEF words
  <2> QED
    BY <1>2, IpWords
<1>4. SixPart(six, "ignore", "stop")
  BY SixIs DEF OnError
<1> HIDE DEF words, A, six
<1>5. /\ B \in Seq(Plain) /\ InOrder(B, Order)
      /\ \A c \in ToSet(B) : AtEndSix(c)
      /\ SixNone => \A x \in found.ip6 : \E c \in ToSet(B) : c.op = "del6" /\ c.arg = x
  <2>1. CASE SixNone
    <3>1. B = six
      BY <2>1
    <3> HIDE DEF B
    <3> QED
      BY <1>4, <2>1, <3>1 DEF SixPart, AtEndSix
  <2>2. CASE ~SixNone
    <3>1. B = <<>>
      BY <2>2
    <3> HIDE DEF B
    <3>2. B \in Seq(Plain) /\ InOrder(B, Order) /\ ToSet(B) = {}
      BY <3>1, EmptyOrder
    <3> QED
      BY <2>2, <3>2
  <2> QED
    BY <2>1, <2>2
<1>6. /\ C \in Seq(Plain) /\ InOrder(C, Order)
      /\ \A c \in ToSet(C) : AtEndFour(c)
      /\ ToDhcp => Has(C, {"dhcp4"})
  <2>1. CASE ToDhcp
    <3>1. C = Cmd("dhcp4", None, "ignore")
      BY <2>1
    <3>2. Cmd("dhcp4", None, "ignore") \in Seq(Plain)
      BY PlainCommands DEF OnError
    <3>3. InOrder(C, Order) /\ ToSet(C) = {d} /\ d.op = "dhcp4" /\ d.onError = "ignore"
      BY <3>1, <3>2, OneCommand
    <3> HIDE DEF C, d
    <3> QED
      BY <2>1, <3>1, <3>2, <3>3 DEF AtEndFour, Has
  <2>2. CASE ~ToDhcp
    <3>1. C = <<>>
      BY <2>2
    <3> HIDE DEF C
    <3>2. C \in Seq(Plain) /\ InOrder(C, Order) /\ ToSet(C) = {}
      BY <3>1, EmptyOrder
    <3> QED
      BY <2>2, <3>2
  <2> QED
    BY <2>1, <2>2
<1> HIDE DEF B, C
<1>7. IpParts(A, B, C)
  BY <1>3, <1>5, <1>6 DEF IpParts, words
<1> QED
  BY <1>1, <1>7

\* The parts of the list in order.
LEMMA IpPartsInOrder ==
  ASSUME TypeOK, NEW A, NEW B, NEW C, IpParts(A, B, C)
  PROVE  LET list == A \o B \o C
         IN  /\ list \in Seq(Plain) /\ InOrder(list, Order) /\ Covered(list)
             /\ ToSet(list) = ToSet(A) \cup ToSet(B) \cup ToSet(C)
<1>1. /\ A \in Seq(Plain) /\ InOrder(A, Order) /\ Covered(A)
      /\ \A c \in ToSet(A) : \E k \in DOMAIN Words("ip") : FromWord(c, Words("ip"), k)
  BY DEF IpParts, IpList
<1>2. /\ B \in Seq(Plain) /\ InOrder(B, Order) /\ \A c \in ToSet(B) : AtEndSix(c)
      /\ C \in Seq(Plain) /\ InOrder(C, Order) /\ \A c \in ToSet(C) : AtEndFour(c)
  BY DEF IpParts
<1>3. /\ \A c \in ToSet(A) : c \in Commands
      /\ \A c \in ToSet(B) : c \in Commands
      /\ \A c \in ToSet(C) : c \in Commands
  BY <1>1, <1>2, Members DEF Plain
<1>4. ASSUME NEW c \in ToSet(A), NEW d \in ToSet(B) PROVE <<c, d>> \in Order
  <2>1. PICK k \in DOMAIN Words("ip") : FromWord(c, Words("ip"), k)
    BY <1>1
  <2>2. AtEndSix(d)
    BY <1>2
  <2>3. Words("ip")[k] \notin Addr6
    BY <2>2, AskedIs, Families DEF AtEndSix, SixNone
  <2>4. c.op \notin {"put6", "del6", "dhcp4"} /\ c.onError # "stop"
    BY <2>1, <2>3 DEF FromWord
  <2>5. d.op # "set4"
    BY <2>2 DEF AtEndSix, IsDeletion
  <2>6. Before(c, d)
    BY <2>4, <2>5 DEF Before
  <2> QED
    BY <1>3, <2>6, OrderIs
<1>5. ASSUME NEW c \in ToSet(A), NEW d \in ToSet(C) PROVE <<c, d>> \in Order
  <2>1. PICK k \in DOMAIN Words("ip") : FromWord(c, Words("ip"), k)
    BY <1>1
  <2>2. c.op # "dhcp4" /\ c.onError # "stop"
    BY <2>1 DEF FromWord
  <2>3. d.op = "dhcp4"
    BY <1>2 DEF AtEndFour
  <2>4. Before(c, d)
    BY <2>2, <2>3 DEF Before
  <2> QED
    BY <1>3, <2>4, OrderIs
<1>6. ASSUME NEW c \in ToSet(B), NEW d \in ToSet(C) PROVE <<c, d>> \in Order
  <2>1. c.op # "dhcp4"
    BY <1>2 DEF AtEndSix, IsDeletion
  <2>2. d.op = "dhcp4"
    BY <1>2 DEF AtEndFour
  <2>3. Before(c, d)
    BY <2>1, <2>2 DEF Before
  <2> QED
    BY <1>3, <2>3, OrderIs
<1>7. A \o B \in Seq(Plain) /\ ToSet(A \o B) = ToSet(A) \cup ToSet(B) /\ InOrder(A \o B, Order)
  BY <1>1, <1>2, <1>4, Concat
<1>8. \A c \in ToSet(A \o B), d \in ToSet(C) : <<c, d>> \in Order
  BY <1>5, <1>6, <1>7
<1>9. /\ A \o B \o C \in Seq(Plain) /\ InOrder(A \o B \o C, Order)
      /\ ToSet(A \o B \o C) = ToSet(A) \cup ToSet(B) \cup ToSet(C)
  <2> DEFINE D == A \o B
  <2>1. D \in Seq(Plain) /\ InOrder(D, Order) /\ ToSet(D) = ToSet(A) \cup ToSet(B)
    BY <1>7
  <2>2. \A c \in ToSet(D), d \in ToSet(C) : <<c, d>> \in Order
    BY <1>8
  <2>3. C \in Seq(Plain) /\ InOrder(C, Order)
    BY <1>2
  <2> HIDE DEF D
  <2>4. D \o C \in Seq(Plain) /\ InOrder(D \o C, Order) /\ ToSet(D \o C) = ToSet(D) \cup ToSet(C)
    BY <2>1, <2>2, <2>3, Concat
  <2> QED
    BY <2>1, <2>4 DEF D
<1>10. ~Has(B, {"add4"}) /\ ~Has(C, {"add4"})
  BY <1>2 DEF Has, AtEndSix, AtEndFour, IsDeletion
<1>11. Covered(A \o B)
  BY <1>1, <1>2, <1>10, CoveredConcat
<1>12. Covered(A \o B \o C)
  BY <1>2, <1>7, <1>10, <1>11, CoveredConcat
<1> QED
  BY <1>9, <1>12

\* Where an address of IPv6 is given, or what passes for one, the first of them is a word
\* that is first of its family, or no address.
LEMMA FirstSix ==
  ASSUME NEW words \in Seq(Word), NEW k \in DOMAIN words, ~IsRemove(words[k]), FamilyOf(words[k]) = 6
  PROVE  \E n \in DOMAIN words : \/ words[n] \in Addr6 /\ First(words, n)
                                 \/ words[n] \notin Addr4 \cup Addr6 \cup {RemoveV4}
<1> DEFINE S == {n \in DOMAIN words : ~IsRemove(words[n]) /\ FamilyOf(words[n]) = 6}
<1>1. S # {} /\ S \subseteq Nat
  OBVIOUS
<1> HIDE DEF S
<1>2. PICK n \in S : \A m \in S : n <= m
  BY <1>1, Least
<1>3. n \in DOMAIN words /\ ~IsRemove(words[n]) /\ FamilyOf(words[n]) = 6
  BY <1>2 DEF S
<1>4. \A m \in 1..(n - 1) : IsRemove(words[m]) \/ FamilyOf(words[m]) # 6
  <2> SUFFICES ASSUME NEW m \in 1..(n - 1), m \in S PROVE FALSE
    <3>1. 1..(n - 1) \subseteq DOMAIN words
      BY <1>3
    <3> QED
      BY <3>1 DEF S
  <2>1. n <= m
    BY <1>2
  <2> QED
    BY <1>3, <2>1
<1>5. First(words, n)
  BY <1>3, <1>4 DEF First
<1>6. words[n] \notin Addr4 /\ words[n] # RemoveV4
  BY <1>3, Families
<1> QED
  BY <1>3, <1>5, <1>6

\* Where the commands of the list come from, and those it cannot be without.
LEMMA IpCommands ==
  ASSUME TypeOK
  PROVE  /\ set_ip \in Seq(Plain) /\ InOrder(set_ip, Order) /\ Covered(set_ip)
         /\ \A c \in ToSet(set_ip) :
              \/ \E k \in DOMAIN Words("ip") : FromWord(c, Words("ip"), k)
              \/ AtEndSix(c)
              \/ AtEndFour(c)
         /\ \A k \in DOMAIN Words("ip") : FullWord(set_ip, Words("ip"), k)
         /\ SixNone => \A x \in found.ip6 : \E c \in ToSet(set_ip) : c.op = "del6" /\ c.arg = x
         /\ ToDhcp => Has(set_ip, {"dhcp4"})
<1>1. PICK A, B, C : IpParts(A, B, C) /\ set_ip = A \o B \o C
  BY SetIpParts
<1>2. /\ set_ip \in Seq(Plain) /\ InOrder(set_ip, Order) /\ Covered(set_ip)
      /\ ToSet(set_ip) = ToSet(A) \cup ToSet(B) \cup ToSet(C)
  BY <1>1, IpPartsInOrder
<1> DEFINE list == set_ip
<1> HIDE DEF list
<1>3. ToSet(list) = ToSet(A) \cup ToSet(B) \cup ToSet(C)
  BY <1>2 DEF list
<1>4. /\ \A c \in ToSet(A) : \E k \in DOMAIN Words("ip") : FromWord(c, Words("ip"), k)
      /\ \A k \in DOMAIN Words("ip") : FullWord(A, Words("ip"), k)
      /\ \A c \in ToSet(B) : AtEndSix(c)
      /\ \A c \in ToSet(C) : AtEndFour(c)
  BY <1>1 DEF IpParts, IpList
<1>5. \A c \in ToSet(list) :
        \/ \E k \in DOMAIN Words("ip") : FromWord(c, Words("ip"), k)
        \/ AtEndSix(c)
        \/ AtEndFour(c)
  BY <1>3, <1>4
<1>6. ASSUME NEW k \in DOMAIN Words("ip") PROVE FullWord(list, Words("ip"), k)
  <2>1. FullWord(A, Words("ip"), k) /\ ToSet(A) \subseteq ToSet(list)
    BY <1>3, <1>4
  <2> QED
    BY <2>1 DEF FullWord
<1>7. SixNone => \A x \in found.ip6 : \E c \in ToSet(list) : c.op = "del6" /\ c.arg = x
  <2>1. SixNone => \A x \in found.ip6 : \E c \in ToSet(B) : c.op = "del6" /\ c.arg = x
    BY <1>1 DEF IpParts
  <2> QED
    BY <1>3, <2>1
<1>8. ToDhcp => Has(list, {"dhcp4"})
  <2>1. ToDhcp => Has(C, {"dhcp4"})
    BY <1>1 DEF IpParts
  <2> QED
    BY <1>3, <2>1 DEF Has
<1> QED
  BY <1>2, <1>5, <1>6, <1>7, <1>8 DEF list

\* set_ip()'s list: the addresses that are asked for, the first of IPv4 in place of the
\* others, the deletion of all that was found, and DHCP where no address of IPv4 is asked
\* for.
LEMMA SetIpPlan ==
  ASSUME TypeOK
  PROVE  IpPlan(set_ip)
<1> DEFINE list  == set_ip
           words == Words("ip")
<1>1. list \in Seq(Plain) /\ InOrder(list, Order) /\ Covered(list)
  BY IpCommands
<1>2. \A c \in ToSet(list) : \/ \E k \in DOMAIN words : FromWord(c, words, k)
                             \/ AtEndSix(c)
                             \/ AtEndFour(c)
  BY IpCommands
<1>3. \A k \in DOMAIN words : FullWord(list, words, k)
  BY IpCommands
<1>4. SixNone => \A x \in found.ip6 : \E c \in ToSet(list) : c.op = "del6" /\ c.arg = x
  BY IpCommands
<1>5. ToDhcp => Has(list, {"dhcp4"})
  BY IpCommands
<1>6. words \in Seq(Word)
  BY WordsType, KindType
<1>7. /\ \A x : x \in Value("ip") <=> \E k \in DOMAIN words : words[k] = x
      /\ \A x : x \in Asked(4) <=> x \in Addr4 /\ x \in Value("ip")
      /\ \A x : x \in Asked(6) <=> x \in Addr6 /\ x \in Value("ip")
  BY AskedIs
<1> HIDE DEF list, words
<1>8. Errors(list)
  <2> SUFFICES ASSUME NEW c \in ToSet(list)
               PROVE  /\ c.op \in {"set4", "add4", "put6", "wrong"} => c.onError = "return"
                      /\ c.op = "del6" => c.onError \in {"return", "stop"}
                      /\ c.onError = "stop" => c.op = "del6"
    BY DEF Errors
  <2>1. CASE \E k \in DOMAIN words : FromWord(c, words, k)
    BY <2>1 DEF FromWord
  <2>2. CASE AtEndSix(c)
    BY <2>2 DEF AtEndSix, IsDeletion
  <2>3. CASE AtEndFour(c)
    BY <2>3 DEF AtEndFour
  <2> QED
    BY <1>2, <2>1, <2>2, <2>3
<1>9. Stops(list)
  <2> SUFFICES ASSUME NEW c \in ToSet(list), c.onError = "stop", NEW x \in Asked(6) PROVE FALSE
    BY DEF Stops
  <2>1. SixNone
    BY <1>2 DEF FromWord, AtEndSix, AtEndFour
  <2>2. x \in Addr6 /\ x \in Value("ip")
    BY <1>7
  <2> QED
    BY <2>1, <2>2, Families DEF SixNone
<1>10. Args(list, {"set4", "add4"}) = Asked(4)
  <2>1. ASSUME NEW c \in ToSet(list), c.op \in {"set4", "add4"} PROVE c.arg \in Asked(4)
    <3>1. PICK k \in DOMAIN words : FromWord(c, words, k)
      BY <1>2, <2>1 DEF AtEndSix, AtEndFour, IsDeletion
    <3>2. words[k] \in Addr4 /\ c.arg = words[k]
      BY <2>1, <3>1 DEF FromWord
    <3> QED
      BY <1>7, <3>2
  <2>2. ASSUME NEW x \in Asked(4)
        PROVE  \E c \in ToSet(list) : c.op \in {"set4", "add4"} /\ c.arg = x
    <3>1. PICK k \in DOMAIN words : words[k] = x /\ x \in Addr4
      BY <1>7
    <3>2. FullWord(list, words, k)
      BY <1>3
    <3>3. (\E c \in ToSet(list) : c.op = "set4" /\ c.arg = x)
          \/ \E c \in ToSet(list) : c.op = "add4" /\ c.arg = x
      BY <3>1, <3>2 DEF FullWord
    <3> QED
      BY <3>3
  <2> QED
    BY <2>1, <2>2, ArgsIs
<1>11. Args(list, {"put6"}) = Asked(6)
  <2>1. ASSUME NEW c \in ToSet(list), c.op = "put6" PROVE c.arg \in Asked(6)
    <3>1. PICK k \in DOMAIN words : FromWord(c, words, k)
      BY <1>2, <2>1 DEF AtEndSix, AtEndFour, IsDeletion
    <3>2. words[k] \in Addr6 /\ c.arg = words[k]
      BY <2>1, <3>1 DEF FromWord
    <3> QED
      BY <1>7, <3>2
  <2>2. ASSUME NEW x \in Asked(6) PROVE \E c \in ToSet(list) : c.op = "put6" /\ c.arg = x
    <3>1. PICK k \in DOMAIN words : words[k] = x /\ x \in Addr6
      BY <1>7
    <3>2. FullWord(list, words, k)
      BY <1>3
    <3> QED
      BY <3>1, <3>2 DEF FullWord
  <2>3. \A x : x \in Args(list, {"put6"}) <=> \E c \in ToSet(list) : c.op = "put6" /\ c.arg = x
    BY ArgsIs
  <2> QED
    BY <2>1, <2>2, <2>3
<1>12. ASSUME FourGiven PROVE ~Has(list, {"dhcp4"})
  <2> SUFFICES ASSUME NEW c \in ToSet(list), c.op = "dhcp4" PROVE FALSE
    BY DEF Has
  <2>1. ToDhcp
    BY <1>2 DEF FromWord, AtEndSix, AtEndFour, IsDeletion
  <2>2. PICK x : x \in Addr4 /\ x \in Value("ip")
    BY <1>7, <1>12 DEF FourGiven
  <2>3. x \in {a \in Value("ip") : ~IsRemove(a) /\ FamilyOf(a) = 4}
    BY <2>2, Families
  <2> QED
    BY <1>12, <2>1, <2>3 DEF ToDhcp, FourGiven
<1>13. ASSUME ~Has(list, {"wrong"}), NEW k \in DOMAIN words
       PROVE  words[k] \in Addr4 \cup Addr6 \cup {RemoveV4}
  BY <1>3, <1>13 DEF FullWord, Has
<1>14. ASSUME ~Has(list, {"wrong"}), Asked(4) # {} PROVE Has(list, {"set4"})
  <2>1. PICK k \in DOMAIN words : words[k] \in Addr4
    BY <1>7, <1>14
  <2>2. PICK n \in DOMAIN words : words[n] \in Addr4 /\ First(words, n)
    <3>1. CASE First(words, k)
      BY <2>1, <3>1
    <3>2. CASE ~First(words, k)
      <4>1. PICK n \in 1..(k - 1) : \/ words[n] \in Addr4 /\ First(words, n)
                                    \/ words[n] \notin Addr4 \cup Addr6 \cup {RemoveV4}
        BY <1>6, <2>1, <3>2, EarlierWord
      <4>2. n \in DOMAIN words
        BY <1>6
      <4> QED
        BY <1>13, <1>14, <4>1, <4>2
    <3> QED
      BY <3>1, <3>2
  <2>3. FullWord(list, words, n)
    BY <1>3
  <2> QED
    BY <2>2, <2>3 DEF FullWord, Has
<1>15. ASSUME ~Has(list, {"wrong"}), ~FourGiven
       PROVE  Has(list, {"dhcp4"}) \/ (4 \in Value("dhcp") /\ Asked(4) = {})
  <2>1. CASE RemoveV4 \in Value("ip")
    BY <1>5, <2>1 DEF ToDhcp
  <2>2. CASE Asked(4) = {}
    <3>1. ASSUME NEW a \in Value("ip"), ~IsRemove(a), FamilyOf(a) = 4 PROVE FALSE
      <4>1. a \in Addr4 \cup Addr6 \cup {RemoveV4}
        BY <1>7, <1>13, <1>15
      <4>2. a \notin Addr6 /\ a # RemoveV4
        BY <3>1, Families
      <4> QED
        BY <1>7, <2>2, <4>1, <4>2
    <3> QED
      BY <1>5, <2>2, <3>1 DEF ToDhcp
  <2> QED
    BY <1>15, <2>1, <2>2 DEF FourGiven
<1>16. ASSUME ~Has(list, {"wrong"}) PROVE Args(list, {"del6"}) = found.ip6
  <2>1. ASSUME NEW c \in ToSet(list), c.op = "del6" PROVE c.arg \in found.ip6
    BY <1>2, <2>1 DEF FromWord, AtEndSix, AtEndFour, IsDeletion
  <2>2. ASSUME NEW x \in found.ip6 PROVE \E c \in ToSet(list) : c.op = "del6" /\ c.arg = x
    <3>1. CASE SixNone
      BY <1>4, <3>1
    <3>2. CASE ~SixNone
      <4>1. PICK k \in DOMAIN words : ~IsRemove(words[k]) /\ FamilyOf(words[k]) = 6
        BY <1>7, <3>2 DEF SixNone
      <4>2. PICK n \in DOMAIN words : \/ words[n] \in Addr6 /\ First(words, n)
                                      \/ words[n] \notin Addr4 \cup Addr6 \cup {RemoveV4}
        BY <1>6, <4>1, FirstSix
      <4>3. words[n] \in Addr6 /\ First(words, n)
        BY <1>13, <1>16, <4>2
      <4>4. FullWord(list, words, n)
        BY <1>3
      <4> QED
        BY <4>3, <4>4 DEF FullWord
    <3> QED
      BY <3>1, <3>2
  <2>3. \A x : x \in Args(list, {"del6"}) <=> \E c \in ToSet(list) : c.op = "del6" /\ c.arg = x
    BY ArgsIs
  <2> QED
    BY <2>1, <2>2, <2>3
<1>17. FourGiven => ~Has(list, {"dhcp4"})
  BY <1>12
<1>18. ~Has(list, {"wrong"}) =>
         /\ Asked(4) # {} => Has(list, {"set4"})
         /\ ~FourGiven => Has(list, {"dhcp4"}) \/ (4 \in Value("dhcp") /\ Asked(4) = {})
         /\ Args(list, {"del6"}) = found.ip6
  BY <1>14, <1>15, <1>16
<1>19. IpPlan(list)
  BY <1>1, <1>8, <1>9, <1>10, <1>11, <1>17, <1>18 DEF IpPlan
<1> QED
  BY <1>19 DEF list

LEMMA ConcatOrder ==
  ASSUME NEW A \in Seq(Commands), NEW B \in Seq(Commands), InOrder(A, Order), InOrder(B, Order),
         \A c \in ToSet(A), d \in ToSet(B) : Before(c, d)
  PROVE  /\ A \o B \in Seq(Commands) /\ InOrder(A \o B, Order)
         /\ ToSet(A \o B) = ToSet(A) \cup ToSet(B)
<1>1. \A c \in ToSet(A), d \in ToSet(B) : <<c, d>> \in Order
  BY Members, OrderIs
<1> QED
  BY <1>1, Concat

\* set_dhcp() switches to DHCP where this is asked for, and deletes what was found.
Dhcp4Asked == 4 \in Value("dhcp") /\ ~found.dhcp4
Dhcp6Asked == Given("dhcp") /\ (6 \in Value("dhcp") \/ ~Given("ip"))

DhcpCommand(c) ==
  \/ /\ c.op \in {"dns", "dhcp4", "del6"} /\ c.onError = "return"
     /\ c.op = "dns" => c.arg.to = <<DHCP>>
  \/ c.op = "unchanged" /\ c.onError = "ignore"

DhcpPlan(list) ==
  /\ list \in Seq(Commands) /\ InOrder(list, Order)
  /\ \A c \in ToSet(list) : DhcpCommand(c)
  /\ Has(list, {"dhcp4"}) <=> Dhcp4Asked
  /\ \A c \in ToSet(list) : c.op = "del6" => c.arg \in found.ip6
  /\ Dhcp6Asked => \A x \in found.ip6 : \E c \in ToSet(list) : c.op = "del6" /\ c.arg = x
  /\ Has(list, {"del6"}) => Dhcp6Asked

LEMMA UnchangedIs ==
  ASSUME NEW f \in Family
  PROVE  LET list == Cmd("unchanged", f, "ignore")
         IN  /\ list \in Seq(Commands) /\ InOrder(list, Order)
             /\ \A c \in ToSet(list) : c.op = "unchanged" /\ c.onError = "ignore"
<1> DEFINE c == [op |-> "unchanged", arg |-> f, onError |-> "ignore"]
<1>1. c \in [op: {"unchanged", "delgw"}, arg: Family, onError: OnError]
  BY DEF OnError
<1>2. c.op = "unchanged" /\ c.onError = "ignore"
  OBVIOUS
<1>3. Cmd("unchanged", f, "ignore") = <<c>>
  BY DEF Cmd
<1> HIDE DEF c
<1>4. c \in Commands
  BY <1>1 DEF Commands
<1>5. <<c>> \in Seq(Commands)
  BY <1>4
<1>6. InOrder(<<c>>, Order) /\ ToSet(<<c>>) = {c}
  BY SingleOrder
<1> QED
  BY <1>2, <1>3, <1>5, <1>6

LEMMA SetDhcpFour ==
  ASSUME TypeOK
  PROVE  LET list == IF 4 \in Value("dhcp") /\ ~found.dhcp4
                       THEN DnsFromDhcp(4, "return") \o Cmd("dhcp4", None, "return")
                       ELSE Cmd("unchanged", 4, "ignore")
         IN  /\ list \in Seq(Commands) /\ InOrder(list, Order)
             /\ \A c \in ToSet(list) : DhcpCommand(c) /\ c.op # "del6"
             /\ Has(list, {"dhcp4"}) <=> Dhcp4Asked
<1> DEFINE A == DnsFromDhcp(4, "return")
           B == Cmd("dhcp4", None, "return")
           to == [family |-> 4, to |-> <<DHCP>>]
           a == [op |-> "dns", arg |-> to, onError |-> "return"]
           b == [op |-> "dhcp4", arg |-> None, onError |-> "return"]
           list == IF 4 \in Value("dhcp") /\ ~found.dhcp4 THEN A \o B
                   ELSE Cmd("unchanged", 4, "ignore")
<1>1. A \in Seq(Plain) /\ B \in Seq(Plain)
  BY PlainCommands DEF OnError, Family
<1>2. /\ InOrder(A, Order) /\ ToSet(A) = {a}
      /\ a.op = "dns" /\ a.arg.to = <<DHCP>> /\ a.onError = "return"
  <2>0. to.to = <<DHCP>>
    OBVIOUS
  <2> HIDE DEF to
  <2>1. A = Cmd("dns", to, "return")
    BY DEF DnsFromDhcp, to
  <2>2. Cmd("dns", to, "return") \in Seq(Plain)
    BY <1>1, <2>1
  <2>3. InOrder(A, Order) /\ ToSet(A) = {a} /\ a.op = "dns" /\ a.arg = to /\ a.onError = "return"
    BY <2>1, <2>2, OneCommand
  <2> QED
    BY <2>0, <2>3
<1>3. InOrder(B, Order) /\ ToSet(B) = {b} /\ b.op = "dhcp4" /\ b.onError = "return"
  BY <1>1, OneCommand
<1> HIDE DEF A, B, a, b
<1>4. A \in Seq(Commands) /\ B \in Seq(Commands)
  BY <1>1, PlainIsNameFree
<1>5. Before(a, b)
  BY <1>2, <1>3 DEF Before
<1>6. \A c \in ToSet(A), d \in ToSet(B) : Before(c, d)
  BY <1>2, <1>3, <1>5
<1>7. A \o B \in Seq(Commands) /\ InOrder(A \o B, Order) /\ ToSet(A \o B) = {a, b}
  BY <1>2, <1>3, <1>4, <1>6, ConcatOrder
<1>8. CASE Dhcp4Asked
  <2>1. list = A \o B
    BY <1>8 DEF Dhcp4Asked
  <2> HIDE DEF list
  <2> QED
    BY <1>2, <1>3, <1>7, <1>8, <2>1 DEF DhcpCommand, Has, list, A, B
<1>9. CASE ~Dhcp4Asked
  <2>1. list = Cmd("unchanged", 4, "ignore")
    BY <1>9 DEF Dhcp4Asked
  <2>2. /\ list \in Seq(Commands) /\ InOrder(list, Order)
        /\ \A c \in ToSet(list) : c.op = "unchanged" /\ c.onError = "ignore"
    BY <2>1, UnchangedIs DEF Family
  <2> HIDE DEF list
  <2>3. /\ \A c \in ToSet(list) : DhcpCommand(c) /\ c.op # "del6"
        /\ ~Has(list, {"dhcp4"})
    BY <2>2 DEF DhcpCommand, Has
  <2> QED
    BY <1>9, <2>2, <2>3 DEF list, A, B
<1> QED
  BY <1>8, <1>9

LEMMA SetDhcpSix ==
  ASSUME TypeOK, Given("dhcp")
  PROVE  LET list == IF (6 \in Value("dhcp") \/ ~Given("ip")) /\ found.ip6 # {}
                       THEN DnsFromDhcp(6, "return") \o remove_ipv6_ips("return")
                       ELSE Cmd("unchanged", 6, "ignore")
         IN  /\ list \in Seq(Commands) /\ InOrder(list, Order)
             /\ \A c \in ToSet(list) : DhcpCommand(c) /\ c.op # "dhcp4"
             /\ \A c \in ToSet(list) : c.op = "del6" => c.arg \in found.ip6 /\ Dhcp6Asked
             /\ Dhcp6Asked => \A x \in found.ip6 : \E c \in ToSet(list) : c.op = "del6" /\ c.arg = x
<1> DEFINE A == DnsFromDhcp(6, "return") \o remove_ipv6_ips("return")
           list == IF (6 \in Value("dhcp") \/ ~Given("ip")) /\ found.ip6 # {} THEN A
                   ELSE Cmd("unchanged", 6, "ignore")
<1>1. SixPart(A, "return", "return")
  BY SixIs DEF OnError
<1> HIDE DEF A
<1>2. CASE (6 \in Value("dhcp") \/ ~Given("ip")) /\ found.ip6 # {}
  <2>1. list = A /\ Dhcp6Asked
    BY <1>2 DEF Dhcp6Asked
  <2>2. A \in Seq(Commands)
    BY <1>1, PlainIsNameFree DEF SixPart
  <2> HIDE DEF list
  <2>3. SixPart(list, "return", "return")
    BY <1>1, <2>1
  <2>4. \A c \in ToSet(list) : DhcpCommand(c) /\ c.op # "dhcp4"
    BY <2>3 DEF SixPart, DhcpCommand, IsDeletion
  <2>5. \A c \in ToSet(list) : c.op = "del6" => c.arg \in found.ip6
    BY <2>3 DEF SixPart, IsDeletion
  <2>6. InOrder(list, Order) /\ \A x \in found.ip6 : \E c \in ToSet(list) : c.op = "del6" /\ c.arg = x
    BY <2>3 DEF SixPart
  <2> QED
    BY <2>1, <2>2, <2>4, <2>5, <2>6 DEF list, A
<1>3. CASE ~((6 \in Value("dhcp") \/ ~Given("ip")) /\ found.ip6 # {})
  <2>1. list = Cmd("unchanged", 6, "ignore")
    BY <1>3
  <2>2. /\ list \in Seq(Commands) /\ InOrder(list, Order)
        /\ \A c \in ToSet(list) : c.op = "unchanged" /\ c.onError = "ignore"
    BY <2>1, UnchangedIs DEF Family
  <2>3. Dhcp6Asked => found.ip6 = {}
    BY <1>3 DEF Dhcp6Asked
  <2> HIDE DEF list
  <2>4. \A c \in ToSet(list) : DhcpCommand(c) /\ c.op \notin {"dhcp4", "del6"}
    BY <2>2 DEF DhcpCommand
  <2> QED
    BY <2>2, <2>3, <2>4 DEF list, A
<1> QED
  BY <1>2, <1>3

LEMMA SetDhcpPlan ==
  ASSUME TypeOK, Given("dhcp")
  PROVE  DhcpPlan(set_dhcp)
<1> DEFINE four == IF 4 \in Value("dhcp") /\ ~found.dhcp4
                     THEN DnsFromDhcp(4, "return") \o Cmd("dhcp4", None, "return")
                     ELSE Cmd("unchanged", 4, "ignore")
           six  == IF (6 \in Value("dhcp") \/ ~Given("ip")) /\ found.ip6 # {}
                     THEN DnsFromDhcp(6, "return") \o remove_ipv6_ips("return")
                     ELSE Cmd("unchanged", 6, "ignore")
           list == set_dhcp
<1>1. /\ four \in Seq(Commands) /\ InOrder(four, Order)
      /\ \A c \in ToSet(four) : DhcpCommand(c) /\ c.op # "del6"
      /\ Has(four, {"dhcp4"}) <=> Dhcp4Asked
  BY SetDhcpFour
<1>2. /\ six \in Seq(Commands) /\ InOrder(six, Order)
      /\ \A c \in ToSet(six) : DhcpCommand(c) /\ c.op # "dhcp4"
      /\ \A c \in ToSet(six) : c.op = "del6" => c.arg \in found.ip6 /\ Dhcp6Asked
      /\ Dhcp6Asked => \A x \in found.ip6 : \E c \in ToSet(six) : c.op = "del6" /\ c.arg = x
  BY SetDhcpSix
<1>3. list = four \o six
  BY DEF set_dhcp
<1> HIDE DEF four, six, list
<1>4. ASSUME NEW c \in ToSet(four), NEW d \in ToSet(six) PROVE Before(c, d)
  <2>1. DhcpCommand(c) /\ c.op # "del6"
    BY <1>1
  <2>2. DhcpCommand(d) /\ d.op # "dhcp4"
    BY <1>2
  <2> QED
    BY <2>1, <2>2 DEF DhcpCommand, Before
<1>5. list \in Seq(Commands) /\ InOrder(list, Order) /\ ToSet(list) = ToSet(four) \cup ToSet(six)
  <2>1. four \in Seq(Commands) /\ InOrder(four, Order) /\ six \in Seq(Commands) /\ InOrder(six, Order)
    BY <1>1, <1>2
  <2> QED
    BY <1>3, <1>4, <2>1, ConcatOrder
<1>6. \A c \in ToSet(list) : DhcpCommand(c)
  BY <1>1, <1>2, <1>5
<1>7. Has(list, {"dhcp4"}) <=> Dhcp4Asked
  BY <1>1, <1>2, <1>5 DEF Has
<1>8. \A c \in ToSet(list) : c.op = "del6" => c.arg \in found.ip6 /\ Dhcp6Asked
  BY <1>1, <1>2, <1>5
<1>9. Dhcp6Asked => \A x \in found.ip6 : \E c \in ToSet(list) : c.op = "del6" /\ c.arg = x
  BY <1>2, <1>5
<1>10. Has(list, {"del6"}) => Dhcp6Asked
  BY <1>8 DEF Has
<1>11. DhcpPlan(list)
  BY <1>5, <1>6, <1>7, <1>8, <1>9, <1>10 DEF DhcpPlan
<1> QED
  BY <1>11 DEF list

\* The handlers after set_ip() leave the addresses alone.
LEMMA LaterHandlers ==
  ASSUME TypeOK, NEW kind \in Kind \ {"dhcp", "ip"}
  PROVE  \A c \in ToSet(Handler(kind)) : c.op \notin AddressOps /\ c.onError # "stop"
<1> DEFINE Calm(list) == \A c \in ToSet(list) : c.op \notin AddressOps /\ c.onError # "stop"
<1>1. ASSUME NEW list \in Seq(Apart) PROVE Calm(list)
  BY Members DEF Apart
<1>2. Calm(<<>>)
  <2>1. <<>> \in Seq(Apart)
    OBVIOUS
  <2> HIDE DEF Calm
  <2> QED
    BY <1>1, <2>1
<1>3. Given("hostname") => Calm(set_hostname)
  <2> SUFFICES ASSUME Given("hostname"), NEW c \in ToSet(set_hostname)
               PROVE  c.op \notin AddressOps /\ c.onError # "stop"
    OBVIOUS
  <2>1. HostnameCommand(c)
    BY HostnameOrdered DEF ToSet
  <2> QED
    BY <2>1 DEF HostnameCommand, AddressOps
<1> HIDE DEF Calm
<1>4. Calm(set_dns) /\ Calm(set_route) /\ Calm(Gateways) /\ (Given("search") => Calm(set_search_domain))
  BY <1>1, DnsType, RouteType, GatewaysType, SearchType
<1>5. Calm(Handler(kind))
  <2>1. CASE ~Given(kind)
    BY <1>2, <2>1 DEF Handler
  <2>2. CASE Given(kind) /\ kind = "gateway"
    BY <1>4, <2>2 DEF Handler
  <2>3. CASE Given(kind) /\ kind = "search"
    BY <1>4, <2>3 DEF Handler
  <2>4. CASE Given(kind) /\ kind = "hostname"
    BY <1>3, <2>4 DEF Handler
  <2>5. CASE Given(kind) /\ kind = "dns"
    BY <1>2, <1>4, <2>5 DEF Handler, HandlerOf
  <2>6. CASE Given(kind) /\ kind = "route"
    BY <1>2, <1>4, <2>6 DEF Handler, HandlerOf
  <2> QED
    BY <2>1, <2>2, <2>3, <2>4, <2>5, <2>6, KindType
<1> QED
  BY <1>5 DEF Calm

\* What a command does to the addresses.
AddressEffect(w, c, w2) ==
  /\ w2.ip4 = CASE c.op = "set4" -> {c.arg} [] c.op = "add4" -> w.ip4 \cup {c.arg}
                [] c.op = "dhcp4" -> {} [] OTHER -> w.ip4
  /\ w2.dhcp4 = CASE c.op = "set4" -> FALSE [] c.op = "dhcp4" -> TRUE [] OTHER -> w.dhcp4
  /\ w2.ip6 = CASE c.op = "del6" -> w.ip6 \ {c.arg} [] c.op = "put6" -> w.ip6 \cup {c.arg}
                [] OTHER -> w.ip6
SameAddresses(w, w2) == w2.ip4 = w.ip4 /\ w2.dhcp4 = w.dhcp4 /\ w2.ip6 = w.ip6

LEMMA EffectIs ==
  ASSUME NEW w \in System, NEW c \in Commands
  PROVE  AddressEffect(w, c, Effect(w, c))
<1> DEFINE w2 == Effect(w, c)
<1> USE DEF System
<1>1. CASE c.op = "set4"
  <2>1. w2 = [w EXCEPT !.dhcp4 = FALSE, !.ip4 = {c.arg}]
    BY <1>1 DEF Effect
  <2> QED
    BY <1>1, <2>1 DEF AddressEffect
<1>2. CASE c.op = "add4"
  <2>1. w2 = [w EXCEPT !.ip4 = w.ip4 \cup {c.arg}]
    BY <1>2 DEF Effect
  <2> QED
    BY <1>2, <2>1 DEF AddressEffect
<1>3. CASE c.op = "dhcp4"
  <2>1. w2 = [w EXCEPT !.dhcp4 = TRUE, !.ip4 = {}]
    BY <1>3 DEF Effect
  <2> QED
    BY <1>3, <2>1 DEF AddressEffect
<1>4. CASE c.op = "del6"
  <2>1. w2 = [w EXCEPT !.ip6 = w.ip6 \ {c.arg}]
    BY <1>4 DEF Effect
  <2> QED
    BY <1>4, <2>1 DEF AddressEffect
<1>5. CASE c.op = "put6"
  <2>1. w2 = [w EXCEPT !.ip6 = w.ip6 \cup {c.arg}]
    BY <1>5 DEF Effect
  <2> QED
    BY <1>5, <2>1 DEF AddressEffect
<1>6. CASE c.op \notin AddressOps
  <2>1. SameAddresses(w, w2)
    BY <1>6 DEF Effect, SameAddresses, AddressOps
  <2> QED
    BY <1>6, <2>1 DEF AddressEffect, SameAddresses, AddressOps
<1> QED
  BY <1>1, <1>2, <1>3, <1>4, <1>5, <1>6 DEF AddressOps

\* c is the first command of a list, and rest are the others.
FirstOf(list, c, rest) ==
  /\ list \in Seq(Commands) /\ rest \in Seq(Commands) /\ c \in Commands
  /\ ToSet(list) = {c} \cup ToSet(rest)

LEMMA SplitList ==
  ASSUME NEW list \in Seq(Commands), list # <<>>
  PROVE  /\ FirstOf(list, Head(list), Tail(list))
         /\ InOrder(list, Order) =>
              InOrder(Tail(list), Order) /\ \A d \in ToSet(Tail(list)) : Before(Head(list), d)
         /\ Covered(list) => /\ Head(list).op # "add4"
                             /\ Head(list).op \notin {"set4", "wrong"} => Covered(Tail(list))
<1> DEFINE n == Len(list)
           c == Head(list)
           tail == Tail(list)
<1>1. /\ n \in Nat \ {0} /\ DOMAIN list = 1..n /\ c = list[1] /\ c \in Commands
      /\ tail \in Seq(Commands) /\ DOMAIN tail = 1..(n - 1)
      /\ \A i \in 1..(n - 1) : tail[i] = list[i + 1]
  OBVIOUS
<1> HIDE DEF n, c, tail
<1>2. ToSet(list) = {c} \cup ToSet(tail)
  <2>1. ASSUME NEW i \in 1..n PROVE list[i] = c \/ \E j \in 1..(n - 1) : tail[j] = list[i]
    <3>1. CASE i = 1
      BY <1>1, <3>1
    <3>2. CASE i # 1
      <4>1. i - 1 \in 1..(n - 1) /\ (i - 1) + 1 = i
        BY <1>1, <3>2
      <4> QED
        BY <1>1, <4>1
    <3> QED
      BY <3>1, <3>2
  <2>2. ASSUME NEW j \in 1..(n - 1) PROVE \E i \in 1..n : tail[j] = list[i]
    <3>1. j + 1 \in 1..n
      BY <1>1
    <3> QED
      BY <1>1, <3>1
  <2>3. ToSet(list) = {list[i] : i \in 1..n} /\ ToSet(tail) = {tail[j] : j \in 1..(n - 1)}
    BY <1>1 DEF ToSet
  <2>4. c \in ToSet(list)
    BY <1>1, <2>3
  <2> QED
    BY <2>1, <2>2, <2>3, <2>4
<1>3. ASSUME InOrder(list, Order) PROVE InOrder(tail, Order) /\ \A d \in ToSet(tail) : Before(c, d)
  <2>1. ASSUME NEW i \in 1..(n - 1), NEW j \in 1..(n - 1), i < j PROVE <<tail[i], tail[j]>> \in Order
    <3>1. i + 1 \in 1..n /\ j + 1 \in 1..n /\ i + 1 < j + 1
      BY <1>1, <2>1
    <3>2. <<list[i + 1], list[j + 1]>> \in Order
      BY <1>1, <1>3, <3>1 DEF InOrder
    <3> QED
      BY <1>1, <3>2
  <2>2. ASSUME NEW j \in 1..(n - 1) PROVE Before(c, tail[j])
    <3>1. 1 \in 1..n /\ j + 1 \in 1..n /\ 1 < j + 1
      BY <1>1
    <3>2. <<list[1], list[j + 1]>> \in Order
      BY <1>1, <1>3, <3>1 DEF InOrder
    <3>3. tail[j] \in Commands /\ tail[j] = list[j + 1]
      BY <1>1
    <3> QED
      BY <1>1, <3>2, <3>3, OrderIs
  <2>3. InOrder(tail, Order)
    BY <1>1, <2>1 DEF InOrder
  <2> QED
    BY <1>1, <2>2, <2>3 DEF ToSet
<1>4. ASSUME Covered(list)
      PROVE  /\ c.op # "add4"
             /\ c.op \notin {"set4", "wrong"} => Covered(tail)
  <2>1. c.op # "add4"
    <3>1. 1 \in 1..n /\ 1..(1 - 1) = {}
      BY <1>1
    <3>2. list[1].op = "add4" => \E j \in 1..(1 - 1) : list[j].op \in {"set4", "wrong"}
      BY <1>1, <1>4, <3>1 DEF Covered
    <3> QED
      BY <1>1, <3>1, <3>2
  <2>2. ASSUME c.op \notin {"set4", "wrong"}, NEW i \in 1..(n - 1), tail[i].op = "add4"
        PROVE  \E j \in 1..(i - 1) : tail[j].op \in {"set4", "wrong"}
    <3>1. i + 1 \in 1..n /\ list[i + 1].op = "add4"
      BY <1>1, <2>2
    <3>2. PICK j \in 1..((i + 1) - 1) : list[j].op \in {"set4", "wrong"}
      BY <1>1, <1>4, <3>1 DEF Covered
    <3>3. j # 1
      BY <1>1, <2>2, <3>2
    <3>4. j - 1 \in 1..(i - 1) /\ j - 1 \in 1..(n - 1) /\ (j - 1) + 1 = j
      BY <1>1, <3>2, <3>3
    <3>5. tail[j - 1] = list[j]
      BY <1>1, <3>4
    <3> QED
      BY <3>2, <3>4, <3>5
  <2> QED
    BY <1>1, <2>1, <2>2 DEF Covered
<1>5. FirstOf(list, c, tail)
  BY <1>1, <1>2 DEF FirstOf
<1> QED
  BY <1>3, <1>4, <1>5 DEF c, tail

LEMMA ArgsStep ==
  ASSUME NEW list, NEW c, NEW rest, FirstOf(list, c, rest), NEW ops
  PROVE  /\ c.op \in ops => Args(list, ops) = Args(rest, ops) \cup {c.arg} /\ Has(list, ops)
         /\ c.op \notin ops => Args(list, ops) = Args(rest, ops) /\ (Has(list, ops) <=> Has(rest, ops))
         /\ Has(rest, ops) => Has(list, ops)
<1>1. ToSet(list) = {c} \cup ToSet(rest)
  BY DEF FirstOf
<1>2. /\ \A x : x \in Args(list, ops) <=> \E d \in ToSet(list) : d.op \in ops /\ d.arg = x
      /\ \A x : x \in Args(rest, ops) <=> \E d \in ToSet(rest) : d.op \in ops /\ d.arg = x
  BY ArgsIs
<1>3. (Has(list, ops) <=> c.op \in ops \/ Has(rest, ops))
  BY <1>1 DEF Has
<1>4. ASSUME c.op \in ops PROVE Args(list, ops) = Args(rest, ops) \cup {c.arg}
  BY <1>1, <1>2, <1>4
<1>5. ASSUME c.op \notin ops PROVE Args(list, ops) = Args(rest, ops)
  BY <1>1, <1>2, <1>5
<1> QED
  BY <1>3, <1>4, <1>5

LEMMA BehindPlace ==
  ASSUME NEW T, NEW list \in Seq(T), NEW n \in DOMAIN list
  PROVE  LET rest == SubSeq(list, n + 1, Len(list))
         IN  /\ rest \in Seq(T) /\ DOMAIN rest = 1..(Len(list) - n)
             /\ \A i \in 1..(Len(list) - n) : rest[i] = list[n + i] /\ n + i \in 1..Len(list)
<1>1. Len(list) \in Nat /\ DOMAIN list = 1..Len(list) /\ n \in 1..Len(list)
  OBVIOUS
<1>2. Len(SubSeq(list, n + 1, Len(list))) = Len(list) - n
  BY <1>1
<1>3. ASSUME NEW i \in 1..(Len(list) - n)
      PROVE  SubSeq(list, n + 1, Len(list))[i] = list[n + i] /\ n + i \in 1..Len(list)
  BY <1>1
<1> QED
  BY <1>1, <1>2, <1>3

\* The last deletion of a list.
IsLastDeletion(list, n) ==
  /\ n \in DOMAIN list /\ list[n].op = "del6"
  /\ \A m \in DOMAIN list : m > n => list[m].op # "del6"
Behind(list, rest) ==
  \E n : IsLastDeletion(list, n) /\ rest = SubSeq(list, n + 1, Len(list))

\* What is left when a deletion that stops the others fails: no deletion, and DHCP if it
\* was there.
LEMMA StoppedList ==
  ASSUME NEW list \in Seq(Commands), list # <<>>, InOrder(list, Order),
         Head(list).op = "del6", Head(list).onError = "stop",
         NEW rest, Behind(list, rest)
  PROVE  /\ rest \in Seq(Commands) /\ InOrder(rest, Order) /\ ToSet(rest) \subseteq ToSet(list)
         /\ ~Has(rest, {"del6"}) /\ ~Has(list, {"set4", "add4", "put6", "wrong"})
         /\ \A d \in ToSet(list) : d.op = "dhcp4" => d \in ToSet(rest)
<1> DEFINE len == Len(list)
<1> PICK n : IsLastDeletion(list, n) /\ rest = SubSeq(list, n + 1, Len(list))
  BY DEF Behind
<1>1. n \in DOMAIN list /\ list[n].op = "del6" /\ \A m \in DOMAIN list : m > n => list[m].op # "del6"
  BY DEF IsLastDeletion
<1>2. len \in Nat /\ DOMAIN list = 1..len /\ n \in 1..len /\ 1 \in 1..len /\ Head(list) = list[1]
  BY <1>1
<1>3. /\ len \in Nat /\ DOMAIN list = 1..len /\ n \in 1..len /\ 1 \in 1..len /\ Head(list) = list[1]
      /\ rest \in Seq(Commands) /\ DOMAIN rest = 1..(len - n)
  BY <1>2, BehindPlace
<1>4. \A i \in 1..(len - n) : rest[i] = list[n + i] /\ n + i \in 1..len
  BY <1>2, BehindPlace
<1> HIDE DEF len
<1>5. ASSUME NEW i \in 1..len, NEW j \in 1..len, i < j PROVE Before(list[i], list[j])
  <2>1. <<list[i], list[j]>> \in Order
    BY <1>3, <1>5 DEF InOrder
  <2>2. list[i] \in Commands /\ list[j] \in Commands
    BY <1>3
  <2> QED
    BY <2>1, <2>2, OrderIs
<1>6. ASSUME NEW i \in 1..(len - n), NEW j \in 1..(len - n), i < j
      PROVE  <<rest[i], rest[j]>> \in Order
  <2>1. n + i \in 1..len /\ n + j \in 1..len /\ n + i < n + j
    BY <1>3, <1>4, <1>6
  <2>2. <<list[n + i], list[n + j]>> \in Order
    BY <1>3, <2>1 DEF InOrder
  <2> QED
    BY <1>4, <2>2
<1>7. ASSUME NEW i \in 1..(len - n) PROVE rest[i].op # "del6"
  <2>1. n + i > n
    BY <1>3
  <2> QED
    BY <1>1, <1>3, <1>4, <2>1
<1>8. ASSUME NEW i \in 1..len PROVE list[i].op \notin {"set4", "add4", "put6", "wrong"}
  <2>1. CASE i = 1
    BY <1>3, <2>1
  <2>2. CASE i # 1
    <3>1. Before(list[1], list[i])
      BY <1>3, <1>5, <2>2
    <3> QED
      BY <1>3, <3>1 DEF Before
  <2> QED
    BY <2>1, <2>2
<1>9. ASSUME NEW i \in 1..len, list[i].op = "dhcp4"
      PROVE  \E j \in 1..(len - n) : rest[j] = list[i]
  <2>1. n < i
    <3> SUFFICES ASSUME ~(n < i) PROVE FALSE
      OBVIOUS
    <3>1. i < n
      <4>1. i # n
        BY <1>1, <1>9
      <4> QED
        BY <1>3, <4>1
    <3>2. list[n].onError # "stop"
      BY <1>3, <1>5, <1>9, <3>1 DEF Before
    <3>3. 1 < n
      BY <1>3, <3>1
    <3>4. list[n].onError = "stop"
      BY <1>1, <1>3, <1>5, <3>3 DEF Before
    <3> QED
      BY <3>2, <3>4
  <2>2. i - n \in 1..(len - n) /\ n + (i - n) = i
    BY <1>3, <2>1
  <2> QED
    BY <1>4, <2>2
<1>10. InOrder(rest, Order)
  BY <1>3, <1>6 DEF InOrder
<1>11. ToSet(list) = {list[i] : i \in 1..len} /\ ToSet(rest) = {rest[i] : i \in 1..(len - n)}
  BY <1>3 DEF ToSet
<1>12. ToSet(rest) \subseteq ToSet(list)
  BY <1>4, <1>11
<1>13. ~Has(rest, {"del6"}) /\ ~Has(list, {"set4", "add4", "put6", "wrong"})
  BY <1>7, <1>8, <1>11 DEF Has
<1>14. ASSUME NEW d \in ToSet(list), d.op = "dhcp4" PROVE d \in ToSet(rest)
  <2>1. PICK i \in 1..len : list[i] = d
    BY <1>11
  <2>2. PICK j \in 1..(len - n) : rest[j] = list[i]
    BY <1>9, <1>14, <2>1
  <2> QED
    BY <1>11, <2>1, <2>2
<1> QED
  BY <1>3, <1>10, <1>12, <1>13, <1>14

-----------------------------------------------------------------------------
(* What is still to be done for the addresses, w being the adapter and     *)
(* fails the faults met so far.                                            *)

IsDhcp(w) == w.dhcp4 /\ w.ip4 = {}

\* In set_dhcp().
DhcpSteps(list, w) ==
  /\ \A c \in ToSet(list) : DhcpCommand(c)
  /\ Dhcp4Asked => Has(list, {"dhcp4"}) \/ IsDhcp(w)
  /\ ~Dhcp4Asked => ~Has(list, {"dhcp4"}) /\ w.ip4 = found.ip4 /\ w.dhcp4 = found.dhcp4
  /\ w.ip6 \ Args(list, {"del6"}) = IF Dhcp6Asked THEN {} ELSE found.ip6

\* In set_ip(), which may already have put the first address, and the last one.
FourSteps(list, w) ==
  FourGiven =>
    /\ ~Has(list, {"dhcp4"})
    /\ \/ Has(list, {"set4"}) /\ Args(list, {"set4", "add4"}) = Asked(4)
       \/ ~Has(list, {"set4"}) /\ w.ip4 \cup Args(list, {"set4", "add4"}) = Asked(4) /\ ~w.dhcp4
SwitchSteps(list, w, fails) ==
  ~FourGiven /\ fails = {} =>
    Has(list, {"dhcp4"}) \/ (IsDhcp(w) /\ ~Has(list, {"set4", "add4"}))
SixSteps(list, w, fails) ==
  Asked(6) # {} \/ fails = {} =>
    (w.ip6 \ Args(list, {"del6"})) \cup Args(list, {"put6"}) = Asked(6)
StopSteps(list, w, fails) ==
  fails = {} /\ (\E c \in ToSet(list) : c.onError = "stop") =>
    w.ip6 = {} \/ Args(list, {"del6"}) \subseteq w.ip6

IpSteps(list, w, fails) ==
  /\ Errors(list) /\ Stops(list)
  /\ \/ Has(list, {"wrong"})
     \/ /\ FourSteps(list, w) /\ SwitchSteps(list, w, fails)
        /\ SixSteps(list, w, fails) /\ StopSteps(list, w, fails)

\* When both are done.
Stored(w, fails) ==
  /\ Given("ip") => /\ FourGiven => w.ip4 = Asked(4)
                    /\ Asked(6) # {} => w.ip6 = Asked(6)
  /\ fails = {} =>
       /\ w.ip4 = IF ToDhcp4 THEN {} ELSE IF Given("ip") THEN Asked(4) ELSE found.ip4
       /\ w.dhcp4 = IF ToDhcp4 THEN TRUE ELSE IF Given("ip") THEN FALSE ELSE found.dhcp4
       /\ w.ip6 = IF Given("ip") THEN Asked(6) ELSE IF Given("dhcp") THEN {} ELSE found.ip6

\* The first command is carried out.
LEMMA FourDone ==
  ASSUME NEW list, NEW c, NEW rest, FirstOf(list, c, rest), \A d \in ToSet(rest) : Before(c, d),
         NEW w, NEW w2, AddressEffect(w, c, w2), w.dhcp4 => c.op # "add4", FourSteps(list, w)
  PROVE  FourSteps(rest, w2)
<1> SUFFICES ASSUME FourGiven
             PROVE  /\ ~Has(rest, {"dhcp4"})
                    /\ \/ Has(rest, {"set4"}) /\ Args(rest, {"set4", "add4"}) = Asked(4)
                       \/ /\ ~Has(rest, {"set4"}) /\ ~w2.dhcp4
                          /\ w2.ip4 \cup Args(rest, {"set4", "add4"}) = Asked(4)
  BY DEF FourSteps
<1>1. /\ ~Has(list, {"dhcp4"})
      /\ \/ Has(list, {"set4"}) /\ Args(list, {"set4", "add4"}) = Asked(4)
         \/ ~Has(list, {"set4"}) /\ w.ip4 \cup Args(list, {"set4", "add4"}) = Asked(4) /\ ~w.dhcp4
  BY DEF FourSteps
<1> DEFINE add  == Args(list, {"set4", "add4"})
           add2 == Args(rest, {"set4", "add4"})
           has  == Has(list, {"set4"})
           has2 == Has(rest, {"set4"})
<1>2. /\ c.op \in {"set4", "add4"} => add = add2 \cup {c.arg}
      /\ c.op \notin {"set4", "add4"} => add = add2
  BY ArgsStep
<1>3. /\ c.op = "set4" => has
      /\ c.op # "set4" => (has <=> has2)
  BY ArgsStep
<1>4. c.op # "dhcp4" /\ ~Has(rest, {"dhcp4"})
  BY <1>1, ArgsStep
<1>5. c.op \in {"set4", "add4"} => ~has2
  BY DEF Has, Before
<1> HIDE DEF add, add2, has, has2
<1>6. CASE c.op = "set4"
  <2>1. w2.ip4 = {c.arg} /\ w2.dhcp4 = FALSE
    BY <1>6 DEF AddressEffect
  <2>2. add = add2 \cup {c.arg} /\ has /\ ~has2
    BY <1>2, <1>3, <1>5, <1>6
  <2>3. add = Asked(4)
    BY <1>1, <2>2 DEF add, has
  <2> QED
    BY <1>4, <2>1, <2>2, <2>3 DEF add2, has2
<1>7. CASE c.op = "add4"
  <2>1. w2.ip4 = w.ip4 \cup {c.arg} /\ w2.dhcp4 = w.dhcp4
    BY <1>7 DEF AddressEffect
  <2>2. add = add2 \cup {c.arg} /\ ~has /\ ~has2
    BY <1>2, <1>3, <1>5, <1>7
  <2>3. w.ip4 \cup add = Asked(4) /\ ~w.dhcp4
    BY <1>1, <2>2 DEF add, has
  <2> QED
    BY <1>4, <2>1, <2>2, <2>3 DEF add2, has2
<1>8. CASE c.op \notin {"set4", "add4"}
  <2>1. w2.ip4 = w.ip4 /\ w2.dhcp4 = w.dhcp4
    BY <1>4, <1>8 DEF AddressEffect
  <2>2. add = add2 /\ (has <=> has2)
    BY <1>2, <1>3, <1>8
  <2> QED
    BY <1>1, <1>4, <2>1, <2>2 DEF add, add2, has, has2
<1> QED
  BY <1>6, <1>7, <1>8

LEMMA SwitchDone ==
  ASSUME NEW list, NEW c, NEW rest, FirstOf(list, c, rest), \A d \in ToSet(rest) : Before(c, d),
         NEW w, NEW w2, AddressEffect(w, c, w2), NEW fails, SwitchSteps(list, w, fails)
  PROVE  SwitchSteps(rest, w2, fails)
<1> SUFFICES ASSUME ~FourGiven, fails = {}
             PROVE  Has(rest, {"dhcp4"}) \/ (IsDhcp(w2) /\ ~Has(rest, {"set4", "add4"}))
  BY DEF SwitchSteps
<1>1. CASE c.op = "dhcp4"
  <2>1. w2.ip4 = {} /\ w2.dhcp4 = TRUE
    BY <1>1 DEF AddressEffect
  <2>2. ~Has(rest, {"set4", "add4"})
    BY <1>1 DEF Has, Before
  <2> QED
    BY <2>1, <2>2 DEF IsDhcp
<1>2. CASE c.op # "dhcp4"
  <2>1. Has(list, {"dhcp4"}) \/ (IsDhcp(w) /\ ~Has(list, {"set4", "add4"}))
    BY DEF SwitchSteps
  <2>2. Has(list, {"dhcp4"}) => Has(rest, {"dhcp4"})
    BY <1>2, ArgsStep
  <2>3. ~Has(list, {"set4", "add4"}) => c.op \notin {"set4", "add4"} /\ ~Has(rest, {"set4", "add4"})
    BY ArgsStep
  <2>4. c.op \notin {"set4", "add4"} => w2.ip4 = w.ip4 /\ w2.dhcp4 = w.dhcp4
    BY <1>2 DEF AddressEffect
  <2> QED
    BY <2>1, <2>2, <2>3, <2>4 DEF IsDhcp
<1> QED
  BY <1>1, <1>2

LEMMA SixDone ==
  ASSUME NEW list, NEW c, NEW rest, FirstOf(list, c, rest), \A d \in ToSet(rest) : Before(c, d),
         NEW w, NEW w2, AddressEffect(w, c, w2), NEW fails, SixSteps(list, w, fails)
  PROVE  SixSteps(rest, w2, fails)
<1> SUFFICES ASSUME Asked(6) # {} \/ fails = {}
             PROVE  (w2.ip6 \ Args(rest, {"del6"})) \cup Args(rest, {"put6"}) = Asked(6)
  BY DEF SixSteps
<1> DEFINE del  == Args(list, {"del6"})
           del2 == Args(rest, {"del6"})
           put  == Args(list, {"put6"})
           put2 == Args(rest, {"put6"})
<1>1. (w.ip6 \ del) \cup put = Asked(6)
  BY DEF SixSteps
<1>2. IF c.op = "del6" THEN del = del2 \cup {c.arg} ELSE del = del2
  BY ArgsStep
<1>3. IF c.op = "put6" THEN put = put2 \cup {c.arg} ELSE put = put2
  BY ArgsStep
<1>4. c.op = "put6" => del2 = {}
  BY DEF Args, Before
<1> HIDE DEF del, del2, put, put2
<1>5. CASE c.op = "del6"
  <2>1. w2.ip6 = w.ip6 \ {c.arg} /\ del = del2 \cup {c.arg} /\ put = put2
    BY <1>2, <1>3, <1>5 DEF AddressEffect
  <2> QED
    BY <1>1, <2>1 DEF del2, put2
<1>6. CASE c.op = "put6"
  <2>1. w2.ip6 = w.ip6 \cup {c.arg} /\ del = {} /\ del2 = {} /\ put = put2 \cup {c.arg}
    BY <1>2, <1>3, <1>4, <1>6 DEF AddressEffect
  <2> QED
    BY <1>1, <2>1 DEF del2, put2
<1>7. CASE c.op \notin {"del6", "put6"}
  <2>1. w2.ip6 = w.ip6 /\ del = del2 /\ put = put2
    BY <1>2, <1>3, <1>7 DEF AddressEffect
  <2> QED
    BY <1>1, <2>1 DEF del2, put2
<1> QED
  BY <1>5, <1>6, <1>7

LEMMA StopDone ==
  ASSUME NEW list, NEW c, NEW rest, FirstOf(list, c, rest), \A d \in ToSet(rest) : Before(c, d),
         NEW w, NEW w2, AddressEffect(w, c, w2), NEW fails, StopSteps(list, w, fails)
  PROVE  StopSteps(rest, w2, fails)
<1> DEFINE del  == Args(list, {"del6"})
           del2 == Args(rest, {"del6"})
<1> SUFFICES ASSUME fails = {}, NEW s \in ToSet(rest), s.onError = "stop"
             PROVE  w2.ip6 = {} \/ del2 \subseteq w2.ip6
  BY DEF StopSteps
<1>1. s \in ToSet(list)
  BY DEF FirstOf
<1>2. w.ip6 = {} \/ del \subseteq w.ip6
  BY <1>1 DEF StopSteps
<1>3. IF c.op = "del6" THEN del = del2 \cup {c.arg} ELSE del = del2
  BY ArgsStep
<1>4. c.op = "put6" => del2 = {}
  BY DEF Args, Before
<1>5. c.op = "del6" => c.arg \notin del2
  BY DEF Args, Before
<1> HIDE DEF del, del2
<1>6. CASE c.op = "del6"
  BY <1>2, <1>3, <1>5, <1>6 DEF AddressEffect
<1>7. CASE c.op = "put6"
  BY <1>4, <1>7
<1>8. CASE c.op \notin {"del6", "put6"}
  BY <1>2, <1>3, <1>8 DEF AddressEffect
<1> QED
  BY <1>6, <1>7, <1>8

LEMMA ErrorsRest ==
  ASSUME NEW list, NEW rest, ToSet(rest) \subseteq ToSet(list), Errors(list), Stops(list)
  PROVE  Errors(rest) /\ Stops(rest)
BY DEF Errors, Stops

LEMMA IpDone ==
  ASSUME NEW list, NEW c, NEW rest, FirstOf(list, c, rest), \A d \in ToSet(rest) : Before(c, d),
         NEW w, NEW w2, AddressEffect(w, c, w2), w.dhcp4 => c.op # "add4", c.op # "wrong",
         NEW fails, IpSteps(list, w, fails)
  PROVE  IpSteps(rest, w2, fails)
<1>1. ToSet(rest) \subseteq ToSet(list) /\ Errors(list) /\ Stops(list)
  BY DEF FirstOf, IpSteps
<1>2. Errors(rest) /\ Stops(rest)
  BY <1>1, ErrorsRest
<1>3. CASE Has(list, {"wrong"})
  <2>1. Has(rest, {"wrong"})
    BY <1>3, ArgsStep
  <2> QED
    BY <1>2, <2>1 DEF IpSteps
<1>4. CASE ~Has(list, {"wrong"})
  <2>1. FourSteps(list, w) /\ SwitchSteps(list, w, fails)
        /\ SixSteps(list, w, fails) /\ StopSteps(list, w, fails)
    BY <1>4 DEF IpSteps
  <2>2. FourSteps(rest, w2)
    BY <2>1, FourDone
  <2>3. SwitchSteps(rest, w2, fails)
    BY <2>1, SwitchDone
  <2>4. SixSteps(rest, w2, fails)
    BY <2>1, SixDone
  <2>5. StopSteps(rest, w2, fails)
    BY <2>1, StopDone
  <2> QED
    BY <1>2, <2>2, <2>3, <2>4, <2>5 DEF IpSteps
<1> QED
  BY <1>3, <1>4

LEMMA DhcpDone ==
  ASSUME NEW list, NEW c, NEW rest, FirstOf(list, c, rest),
         NEW w, NEW w2, AddressEffect(w, c, w2), DhcpSteps(list, w)
  PROVE  DhcpSteps(rest, w2)
<1> DEFINE del  == Args(list, {"del6"})
           del2 == Args(rest, {"del6"})
<1>1. /\ \A d \in ToSet(list) : DhcpCommand(d)
      /\ Dhcp4Asked => Has(list, {"dhcp4"}) \/ IsDhcp(w)
      /\ ~Dhcp4Asked => ~Has(list, {"dhcp4"}) /\ w.ip4 = found.ip4 /\ w.dhcp4 = found.dhcp4
      /\ w.ip6 \ del = IF Dhcp6Asked THEN {} ELSE found.ip6
  BY DEF DhcpSteps
<1>2. DhcpCommand(c) /\ \A d \in ToSet(rest) : DhcpCommand(d)
  BY <1>1 DEF FirstOf
<1>3. c.op \in {"dns", "dhcp4", "del6", "unchanged"}
  BY <1>2 DEF DhcpCommand
<1>4. IF c.op = "del6" THEN del = del2 \cup {c.arg} ELSE del = del2
  BY ArgsStep
<1>5. (c.op # "dhcp4" => (Has(list, {"dhcp4"}) <=> Has(rest, {"dhcp4"})))
      /\ (c.op = "dhcp4" => Has(list, {"dhcp4"}))
  BY ArgsStep
<1> HIDE DEF del, del2
<1>6. IF c.op = "del6" THEN w2.ip6 = w.ip6 \ {c.arg} ELSE w2.ip6 = w.ip6
  BY <1>3 DEF AddressEffect
<1>7. IF c.op = "dhcp4" THEN IsDhcp(w2) ELSE w2.ip4 = w.ip4 /\ w2.dhcp4 = w.dhcp4
  BY <1>3 DEF AddressEffect, IsDhcp
<1>8. w2.ip6 \ del2 = w.ip6 \ del
  BY <1>4, <1>6
<1>9. Dhcp4Asked => Has(rest, {"dhcp4"}) \/ IsDhcp(w2)
  BY <1>1, <1>5, <1>7 DEF IsDhcp
<1>10. ~Dhcp4Asked => ~Has(rest, {"dhcp4"}) /\ w2.ip4 = found.ip4 /\ w2.dhcp4 = found.dhcp4
  BY <1>1, <1>5, <1>7
<1> QED
  BY <1>1, <1>2, <1>8, <1>9, <1>10 DEF DhcpSteps, del2

\* The first command fails or is refused, and the others are still run.
LEMMA IpIgnored ==
  ASSUME NEW list, NEW c, NEW rest, FirstOf(list, c, rest), \A d \in ToSet(rest) : Before(c, d),
         c.onError \notin {"return", "stop"},
         NEW w, NEW w2, SameAddresses(w, w2), NEW fails, NEW fails2,
         fails2 = {} => fails = {} /\ (c.op = "dhcp4" => IsDhcp(w)),
         IpSteps(list, w, fails)
  PROVE  IpSteps(rest, w2, fails2)
<1>1. ToSet(rest) \subseteq ToSet(list) /\ c \in ToSet(list) /\ Errors(list) /\ Stops(list)
  BY DEF FirstOf, IpSteps
<1>2. Errors(rest) /\ Stops(rest)
  BY <1>1, ErrorsRest
<1>3. c.op \notin {"set4", "add4", "put6", "wrong", "del6"}
  BY <1>1 DEF Errors
<1>4. w2.ip4 = w.ip4 /\ w2.dhcp4 = w.dhcp4 /\ w2.ip6 = w.ip6
  BY DEF SameAddresses
<1>5. /\ Args(list, {"set4", "add4"}) = Args(rest, {"set4", "add4"})
      /\ Args(list, {"del6"}) = Args(rest, {"del6"})
      /\ Args(list, {"put6"}) = Args(rest, {"put6"})
      /\ Has(list, {"set4"}) <=> Has(rest, {"set4"})
      /\ Has(list, {"set4", "add4"}) <=> Has(rest, {"set4", "add4"})
      /\ Has(list, {"wrong"}) <=> Has(rest, {"wrong"})
  BY <1>3, ArgsStep
<1>6. /\ Has(rest, {"dhcp4"}) => Has(list, {"dhcp4"})
      /\ c.op # "dhcp4" => (Has(list, {"dhcp4"}) => Has(rest, {"dhcp4"}))
  BY ArgsStep
<1>7. CASE Has(list, {"wrong"})
  BY <1>2, <1>5, <1>7 DEF IpSteps
<1>8. CASE ~Has(list, {"wrong"})
  <2>1. FourSteps(list, w) /\ SwitchSteps(list, w, fails)
        /\ SixSteps(list, w, fails) /\ StopSteps(list, w, fails)
    BY <1>8 DEF IpSteps
  <2>2. FourSteps(rest, w2)
    BY <1>4, <1>5, <1>6, <2>1 DEF FourSteps
  <2>3. SwitchSteps(rest, w2, fails2)
    <3> SUFFICES ASSUME ~FourGiven, fails2 = {}
                 PROVE  Has(rest, {"dhcp4"}) \/ (IsDhcp(w2) /\ ~Has(rest, {"set4", "add4"}))
      BY DEF SwitchSteps
    <3>1. Has(list, {"dhcp4"}) \/ (IsDhcp(w) /\ ~Has(list, {"set4", "add4"}))
      BY <2>1 DEF SwitchSteps
    <3>2. c.op = "dhcp4" => IsDhcp(w) /\ ~Has(rest, {"set4", "add4"})
      BY DEF Has, Before
    <3> QED
      BY <1>4, <1>5, <1>6, <3>1, <3>2 DEF IsDhcp
  <2>4. SixSteps(rest, w2, fails2)
    BY <1>4, <1>5, <2>1 DEF SixSteps
  <2>5. StopSteps(rest, w2, fails2)
    BY <1>1, <1>4, <1>5, <2>1 DEF StopSteps
  <2> QED
    BY <1>2, <2>2, <2>3, <2>4, <2>5 DEF IpSteps
<1> QED
  BY <1>7, <1>8

\* A deletion fails or is refused, and the others are dropped.
LEMMA IpStopped ==
  ASSUME NEW list, NEW c \in ToSet(list), c.op = "del6", c.onError = "stop",
         NEW rest, ToSet(rest) \subseteq ToSet(list), ~Has(rest, {"del6"}),
         ~Has(list, {"set4", "add4", "put6", "wrong"}), Has(list, {"dhcp4"}) => Has(rest, {"dhcp4"}),
         NEW w, NEW w2, SameAddresses(w, w2), NEW fails, NEW fails2,
         fails2 = {} => fails = {} /\ c.arg \notin w.ip6,
         IpSteps(list, w, fails)
  PROVE  IpSteps(rest, w2, fails2)
<1>1. Errors(list) /\ Stops(list)
  BY DEF IpSteps
<1>2. Errors(rest) /\ Stops(rest) /\ Asked(6) = {}
  BY <1>1, ErrorsRest DEF Stops
<1>3. w2.ip4 = w.ip4 /\ w2.dhcp4 = w.dhcp4 /\ w2.ip6 = w.ip6
  BY DEF SameAddresses
<1>4. /\ ~Has(list, {"wrong"}) /\ ~Has(list, {"set4"}) /\ ~Has(rest, {"set4"})
      /\ ~Has(rest, {"set4", "add4"}) /\ ~Has(rest, {"put6"})
      /\ Has(rest, {"dhcp4"}) => Has(list, {"dhcp4"})
  BY DEF Has
<1>5. /\ Args(list, {"set4", "add4"}) = {} /\ Args(rest, {"set4", "add4"}) = {}
      /\ Args(rest, {"put6"}) = {} /\ Args(rest, {"del6"}) = {}
  BY <1>4 DEF Has, Args
<1>6. FourSteps(list, w) /\ SwitchSteps(list, w, fails) /\ StopSteps(list, w, fails)
  BY <1>4 DEF IpSteps
<1>7. FourSteps(rest, w2)
  BY <1>3, <1>4, <1>5, <1>6 DEF FourSteps
<1>8. SwitchSteps(rest, w2, fails2)
  BY <1>3, <1>4, <1>6 DEF SwitchSteps, IsDhcp
<1>9. ASSUME fails2 = {} PROVE w.ip6 = {}
  <2>1. w.ip6 = {} \/ Args(list, {"del6"}) \subseteq w.ip6
    BY <1>6, <1>9 DEF StopSteps
  <2>2. c.arg \in Args(list, {"del6"})
    BY DEF Args
  <2> QED
    BY <1>9, <2>1, <2>2
<1>10. SixSteps(rest, w2, fails2)
  BY <1>2, <1>3, <1>5, <1>9 DEF SixSteps
<1>11. StopSteps(rest, w2, fails2)
  BY <1>5 DEF StopSteps
<1> QED
  BY <1>2, <1>7, <1>8, <1>10, <1>11 DEF IpSteps

LEMMA NothingLeft ==
  ASSUME NEW list, list = <<>>, NEW ops
  PROVE  ~Has(list, ops) /\ Args(list, ops) = {} /\ ToSet(list) = {}
<1>1. ToSet(list) = {}
  BY EmptyOrder
<1> QED
  BY <1>1 DEF Has, Args

\* The end of set_ip().
LEMMA IpEnd ==
  ASSUME Given("ip"), NEW w, w.dhcp4 \in BOOLEAN, NEW fails, NEW list, list = <<>>,
         IpSteps(list, w, fails)
  PROVE  Stored(w, fails)
<1>1. /\ ~Has(list, {"wrong"}) /\ ~Has(list, {"set4"}) /\ ~Has(list, {"dhcp4"})
      /\ Args(list, {"set4", "add4"}) = {} /\ Args(list, {"put6"}) = {} /\ Args(list, {"del6"}) = {}
  BY NothingLeft
<1>2. FourSteps(list, w) /\ SwitchSteps(list, w, fails) /\ SixSteps(list, w, fails)
  BY <1>1 DEF IpSteps
<1>3. FourGiven => w.ip4 = Asked(4) /\ w.dhcp4 = FALSE
  BY <1>1, <1>2 DEF FourSteps
<1>4. ~FourGiven /\ fails = {} => w.ip4 = {} /\ w.dhcp4 = TRUE
  BY <1>1, <1>2 DEF SwitchSteps, IsDhcp
<1>5. Asked(6) # {} \/ fails = {} => w.ip6 = Asked(6)
  BY <1>1, <1>2 DEF SixSteps
<1>6. ToDhcp4 <=> ~FourGiven
  BY DEF ToDhcp4, FourGiven
<1> QED
  BY <1>3, <1>4, <1>5, <1>6 DEF Stored

\* The end of set_dhcp() where no --ip is given.
LEMMA DhcpEnd ==
  ASSUME ~Given("ip"), NEW w, found.dhcp4 \in BOOLEAN, w.dhcp4 \in BOOLEAN,
         found.dhcp4 => found.ip4 = {}, NEW fails, NEW list, list = <<>>, DhcpSteps(list, w)
  PROVE  Stored(w, fails)
<1>1. ~Has(list, {"dhcp4"}) /\ Args(list, {"del6"}) = {}
  BY NothingLeft
<1>2. /\ Dhcp4Asked => IsDhcp(w)
      /\ ~Dhcp4Asked => w.ip4 = found.ip4 /\ w.dhcp4 = found.dhcp4
      /\ w.ip6 = IF Dhcp6Asked THEN {} ELSE found.ip6
  BY <1>1 DEF DhcpSteps
<1>3. (ToDhcp4 <=> 4 \in Value("dhcp")) /\ (Dhcp6Asked <=> Given("dhcp"))
  BY DEF ToDhcp4, Dhcp6Asked
<1>4. ToDhcp4 => w.ip4 = {} /\ w.dhcp4 = TRUE
  BY <1>2, <1>3 DEF Dhcp4Asked, IsDhcp
<1>5. ~ToDhcp4 => w.ip4 = found.ip4 /\ w.dhcp4 = found.dhcp4
  BY <1>2, <1>3 DEF Dhcp4Asked
<1> QED
  BY <1>2, <1>3, <1>4, <1>5 DEF Stored

\* The start of set_dhcp(), and the case that there is nothing for it to do.
LEMMA DhcpStart ==
  ASSUME NEW w, SameAddresses(found, w), NEW list, DhcpPlan(list)
  PROVE  DhcpSteps(list, w)
<1> DEFINE del == Args(list, {"del6"})
<1>1. w.ip4 = found.ip4 /\ w.dhcp4 = found.dhcp4 /\ w.ip6 = found.ip6
  BY DEF SameAddresses
<1>2. \A x : x \in del <=> \E c \in ToSet(list) : c.op = "del6" /\ c.arg = x
  BY ArgsIs
<1>3. Dhcp6Asked => \A x \in found.ip6 : x \in del
  BY <1>2 DEF DhcpPlan
<1>4. ~Dhcp6Asked => del = {}
  BY <1>2 DEF DhcpPlan, Has
<1> HIDE DEF del
<1>5. w.ip6 \ del = IF Dhcp6Asked THEN {} ELSE found.ip6
  BY <1>1, <1>3, <1>4
<1> QED
  BY <1>1, <1>5 DEF DhcpSteps, DhcpPlan, del

LEMMA DhcpNotGiven ==
  ASSUME NEW w, SameAddresses(found, w), ~Given("dhcp"), NEW list, list = <<>>
  PROVE  DhcpSteps(list, w)
<1>1. Words("dhcp") = <<>>
  BY DEF Words
<1>2. Value("dhcp") = {}
  BY <1>1 DEF Value, ToSet
<1>3. ~Dhcp4Asked /\ ~Dhcp6Asked
  BY <1>2 DEF Dhcp4Asked, Dhcp6Asked
<1>4. ~Has(list, {"dhcp4"}) /\ Args(list, {"del6"}) = {} /\ ToSet(list) = {}
  BY NothingLeft
<1>5. w.ip4 = found.ip4 /\ w.dhcp4 = found.dhcp4 /\ w.ip6 = found.ip6
  BY DEF SameAddresses
<1> QED
  BY <1>3, <1>4, <1>5 DEF DhcpSteps

\* From set_dhcp() to set_ip().
LEMMA IpStart ==
  ASSUME NEW w, found.dhcp4 => found.ip4 = {}, NEW done, done = <<>>, DhcpSteps(done, w),
         NEW list, IpPlan(list), NEW fails
  PROVE  IpSteps(list, w, fails)
<1>1. ~Has(done, {"dhcp4"}) /\ Args(done, {"del6"}) = {}
  BY NothingLeft
<1>2. /\ Dhcp4Asked => IsDhcp(w)
      /\ ~Dhcp4Asked => w.ip4 = found.ip4 /\ w.dhcp4 = found.dhcp4
      /\ w.ip6 = IF Dhcp6Asked THEN {} ELSE found.ip6
  BY <1>1 DEF DhcpSteps
<1>3. /\ Errors(list) /\ Stops(list)
      /\ Args(list, {"set4", "add4"}) = Asked(4) /\ Args(list, {"put6"}) = Asked(6)
      /\ FourGiven => ~Has(list, {"dhcp4"})
  BY DEF IpPlan
<1>4. CASE Has(list, {"wrong"})
  BY <1>3, <1>4 DEF IpSteps
<1>5. CASE ~Has(list, {"wrong"})
  <2>1. /\ Asked(4) # {} => Has(list, {"set4"})
        /\ ~FourGiven => Has(list, {"dhcp4"}) \/ (4 \in Value("dhcp") /\ Asked(4) = {})
        /\ Args(list, {"del6"}) = found.ip6
    BY <1>5 DEF IpPlan
  <2>2. FourSteps(list, w)
    BY <1>3, <2>1 DEF FourSteps, FourGiven
  <2>3. SwitchSteps(list, w, fails)
    <3> SUFFICES ASSUME 4 \in Value("dhcp"), Asked(4) = {}
                 PROVE  IsDhcp(w) /\ ~Has(list, {"set4", "add4"})
      BY <2>1 DEF SwitchSteps
    <3>1. IsDhcp(w)
      BY <1>2 DEF Dhcp4Asked, IsDhcp
    <3>2. ~Has(list, {"set4", "add4"})
      <4>1. Args(list, {"set4", "add4"}) = {}
        BY <1>3
      <4> QED
        BY <4>1 DEF Args, Has
    <3> QED
      BY <3>1, <3>2
  <2>4. w.ip6 = {} \/ w.ip6 = found.ip6
    BY <1>2
  <2>5. SixSteps(list, w, fails)
    BY <1>3, <2>1, <2>4 DEF SixSteps
  <2>6. StopSteps(list, w, fails)
    BY <2>1, <2>4 DEF StopSteps
  <2> QED
    BY <1>3, <2>2, <2>3, <2>5, <2>6 DEF IpSteps
<1> QED
  BY <1>4, <1>5

\* The commands of the handlers, the present phase being the place ph in all_flags.
ListInv(list, w, ph) ==
  /\ w.dhcp4 => w.ip4 = {} /\ Covered(list)
  /\ InOrder(list, Order)
  /\ ph <= 3 => Errors(list)
  /\ ph > 3 => \A c \in ToSet(list) : c.op \notin AddressOps /\ c.onError # "stop"

Plans(list, w, fails, ph) ==
  /\ ph = 2 => DhcpSteps(list, w)
  /\ ph = 3 => IF Given("ip") THEN IpSteps(list, w, fails) ELSE list = <<>> /\ DhcpSteps(list, w)
  /\ ph \notin 1..3 => Stored(w, fails)

AddressInv ==
  /\ ListInv(todo, win, phase)
  /\ found.dhcp4 => found.ip4 = {}
  /\ phase = 1 => todo = <<>> /\ win = found
  /\ rc2 = 0 /\ differs => Plans(todo, win, failures, phase)

\* A handler with nothing left to do.
LEMMA EmptyInv ==
  ASSUME NEW list, list = <<>>, NEW w, w.dhcp4 => w.ip4 = {}, NEW ph
  PROVE  ListInv(list, w, ph)
<1>1. InOrder(list, Order) /\ ToSet(list) = {}
  BY EmptyOrder
<1>2. Covered(list)
  BY DEF Covered
<1> QED
  BY <1>1, <1>2 DEF ListInv, Errors

\* What is stored stays stored while the addresses stay the same.
LEMMA StoredSame ==
  ASSUME NEW w, NEW w2, SameAddresses(w, w2), NEW fails, NEW fails2, fails2 = {} => fails = {},
         Stored(w, fails)
  PROVE  Stored(w2, fails2)
<1>1. w2.ip4 = w.ip4 /\ w2.dhcp4 = w.dhcp4 /\ w2.ip6 = w.ip6
  BY DEF SameAddresses
<1> QED
  BY <1>1 DEF Stored

-----------------------------------------------------------------------------
(* One command more is done, or has failed: what is left still makes up    *)
(* what the options mean.                                                  *)

\* A command is carried out.
LEMMA InvDone ==
  ASSUME NEW list \in Seq(Commands), list # <<>>, NEW w \in System, NEW ph \in Nat \ {0, 1},
         ListInv(list, w, ph), NEW w2, AddressEffect(w, Head(list), w2), Head(list).op # "wrong"
  PROVE  /\ ListInv(Tail(list), w2, ph)
         /\ \A fails : Plans(list, w, fails, ph) => Plans(Tail(list), w2, fails, ph)
<1> DEFINE c == Head(list)
           rest == Tail(list)
<1>1. /\ FirstOf(list, c, rest) /\ InOrder(rest, Order)
      /\ \A d \in ToSet(rest) : Before(c, d)
      /\ Covered(list) => c.op # "add4" /\ (c.op \notin {"set4", "wrong"} => Covered(rest))
  BY SplitList DEF ListInv
<1>2. c \in ToSet(list) /\ ToSet(rest) \subseteq ToSet(list) /\ AddressEffect(w, c, w2) /\ c.op # "wrong"
  BY <1>1 DEF FirstOf
<1>3. w.dhcp4 => w.ip4 = {} /\ Covered(list)
  BY DEF ListInv
<1>4. w.dhcp4 \in BOOLEAN
  BY DEF System
<1> HIDE DEF c, rest
<1>5. ph <= 3 => Errors(rest)
  BY <1>2 DEF ListInv, Errors
<1>6. ph > 3 => /\ c.op \notin AddressOps
                /\ \A d \in ToSet(rest) : d.op \notin AddressOps /\ d.onError # "stop"
  BY <1>2 DEF ListInv
<1>7. c.op = "dhcp4" => Covered(rest)
  <2> SUFFICES ASSUME c.op = "dhcp4", NEW i \in DOMAIN rest, rest[i].op = "add4" PROVE FALSE
    BY DEF Covered
  <2>1. rest[i] \in ToSet(rest)
    BY DEF ToSet
  <2> QED
    BY <1>1, <2>1 DEF Before
<1>8. w2.dhcp4 => w2.ip4 = {} /\ Covered(rest)
  <2>1. CASE c.op = "set4"
    BY <2>1, <1>2 DEF AddressEffect
  <2>2. CASE c.op = "dhcp4"
    BY <2>2, <1>2, <1>7 DEF AddressEffect
  <2>3. CASE c.op \notin {"set4", "dhcp4"}
    <3>1. w2.dhcp4 = w.dhcp4 /\ (c.op # "add4" => w2.ip4 = w.ip4)
      BY <1>2, <2>3 DEF AddressEffect
    <3> QED
      BY <1>1, <1>2, <1>3, <2>3, <3>1
  <2> QED
    BY <2>1, <2>2, <2>3
<1>9. ListInv(rest, w2, ph)
  BY <1>1, <1>5, <1>6, <1>8 DEF ListInv
<1>10. ASSUME NEW fails, Plans(list, w, fails, ph) PROVE Plans(rest, w2, fails, ph)
  <2>1. CASE ph = 2
    <3>1. DhcpSteps(list, w)
      BY <1>10, <2>1 DEF Plans
    <3>2. DhcpSteps(rest, w2)
      BY <1>1, <1>2, <3>1, DhcpDone
    <3> QED
      BY <2>1, <3>2 DEF Plans
  <2>2. CASE ph = 3
    <3>1. Given("ip") /\ IpSteps(list, w, fails)
      BY <1>10, <2>2 DEF Plans
    <3>2. w.dhcp4 => c.op # "add4"
      BY <1>1, <1>3
    <3>3. IpSteps(rest, w2, fails)
      BY <1>1, <1>2, <3>1, <3>2, IpDone
    <3> QED
      BY <2>2, <3>1, <3>3 DEF Plans
  <2>3. CASE ph > 3
    <3>1. Stored(w, fails)
      BY <1>10, <2>3 DEF Plans
    <3>2. SameAddresses(w, w2)
      BY <1>2, <1>6, <2>3 DEF SameAddresses, AddressEffect, AddressOps
    <3>3. Stored(w2, fails)
      BY <3>1, <3>2, StoredSame
    <3> QED
      BY <2>3, <3>3 DEF Plans
  <2> QED
    BY <2>1, <2>2, <2>3
<1> QED
  BY <1>9, <1>10 DEF c, rest

\* A command fails or is refused, and the next one is run.
LEMMA InvIgnored ==
  ASSUME NEW list \in Seq(Commands), list # <<>>, NEW w, NEW ph \in Nat \ {0, 1},
         ListInv(list, w, ph), NEW w2, SameAddresses(w, w2),
         Head(list).onError \notin {"return", "stop"}
  PROVE  /\ ListInv(Tail(list), w2, ph)
         /\ \A fails, fails2 :
              /\ Plans(list, w, fails, ph)
              /\ fails2 = {} => fails = {} /\ (Head(list).op = "dhcp4" => IsDhcp(w))
              /\ Head(list).op # "unchanged"
              => Plans(Tail(list), w2, fails2, ph)
<1> DEFINE c == Head(list)
           rest == Tail(list)
<1>1. /\ FirstOf(list, c, rest) /\ InOrder(rest, Order)
      /\ \A d \in ToSet(rest) : Before(c, d)
      /\ Covered(list) => c.op # "add4" /\ (c.op \notin {"set4", "wrong"} => Covered(rest))
  BY SplitList DEF ListInv
<1>2. c \in ToSet(list) /\ ToSet(rest) \subseteq ToSet(list)
  BY <1>1 DEF FirstOf
<1>3. /\ w.dhcp4 => w.ip4 = {} /\ Covered(list)
      /\ w2.ip4 = w.ip4 /\ w2.dhcp4 = w.dhcp4 /\ w2.ip6 = w.ip6
  BY DEF ListInv, SameAddresses
<1>4. c.onError \notin {"return", "stop"}
  OBVIOUS
<1> HIDE DEF c, rest
<1>5. ph <= 3 => Errors(rest) /\ c.op \notin {"set4", "wrong"}
  BY <1>2, <1>4 DEF ListInv, Errors
<1>6. ph > 3 => \A d \in ToSet(rest) : d.op \notin AddressOps /\ d.onError # "stop"
  BY <1>2 DEF ListInv
<1>7. ph > 3 => Covered(rest)
  <2> SUFFICES ASSUME ph > 3, NEW i \in DOMAIN rest, rest[i].op = "add4" PROVE FALSE
    BY DEF Covered
  <2>1. rest[i] \in ToSet(rest)
    BY DEF ToSet
  <2> QED
    BY <1>6, <2>1 DEF AddressOps
<1>8. ListInv(rest, w2, ph)
  <2>1. ph <= 3 \/ ph > 3
    OBVIOUS
  <2>2. w2.dhcp4 => w2.ip4 = {} /\ Covered(rest)
    BY <1>1, <1>3, <1>5, <1>7, <2>1
  <2> QED
    BY <1>1, <1>5, <1>6, <2>2 DEF ListInv
<1>9. ASSUME NEW fails, NEW fails2, Plans(list, w, fails, ph), c.op # "unchanged",
             fails2 = {} => fails = {} /\ (c.op = "dhcp4" => IsDhcp(w))
      PROVE  Plans(rest, w2, fails2, ph)
  <2>1. CASE ph = 2
    <3>1. DhcpSteps(list, w)
      BY <1>9, <2>1 DEF Plans
    <3>2. DhcpCommand(c)
      BY <1>2, <3>1 DEF DhcpSteps
    <3> QED
      BY <1>4, <1>9, <3>2 DEF DhcpCommand
  <2>2. CASE ph = 3
    <3>1. Given("ip") /\ IpSteps(list, w, fails)
      BY <1>9, <2>2 DEF Plans
    <3>2. IpSteps(rest, w2, fails2)
      BY <1>1, <1>4, <1>9, <3>1, IpIgnored
    <3> QED
      BY <2>2, <3>1, <3>2 DEF Plans
  <2>3. CASE ph > 3
    <3>1. Stored(w, fails)
      BY <1>9, <2>3 DEF Plans
    <3>2. Stored(w2, fails2)
      BY <1>9, <3>1, StoredSame
    <3> QED
      BY <2>3, <3>2 DEF Plans
  <2> QED
    BY <2>1, <2>2, <2>3
<1> QED
  BY <1>8, <1>9 DEF c, rest

\* A deletion fails or is refused, and what is left behind the last one is run.
LEMMA InvStopped ==
  ASSUME NEW list \in Seq(Commands), list # <<>>, NEW w, NEW ph \in Nat \ {0, 1},
         ListInv(list, w, ph), NEW w2, SameAddresses(w, w2), Head(list).onError = "stop",
         NEW rest, Behind(list, rest)
  PROVE  /\ Head(list).op = "del6" /\ ListInv(rest, w2, ph)
         /\ \A fails, fails2 :
              /\ Plans(list, w, fails, ph)
              /\ fails2 = {} => fails = {} /\ Head(list).arg \notin w.ip6
              => Plans(rest, w2, fails2, ph)
<1> DEFINE c == Head(list)
<1>1. c \in ToSet(list) /\ c.onError = "stop"
  BY SplitList DEF FirstOf
<1>2. ph <= 3 /\ c.op = "del6"
  <2>1. ph <= 3 \/ ph > 3
    OBVIOUS
  <2> HIDE DEF c
  <2>2. ~(ph > 3)
    BY <1>1 DEF ListInv
  <2> QED
    BY <1>1, <2>1, <2>2 DEF ListInv, Errors
<1>3. /\ rest \in Seq(Commands) /\ InOrder(rest, Order) /\ ToSet(rest) \subseteq ToSet(list)
      /\ ~Has(rest, {"del6"}) /\ ~Has(list, {"set4", "add4", "put6", "wrong"})
      /\ Has(list, {"dhcp4"}) => Has(rest, {"dhcp4"})
  <2>1. InOrder(list, Order) /\ Head(list).op = "del6"
    BY <1>2 DEF ListInv
  <2>2. rest \in Seq(Commands)
    BY <2>1, StoppedList
  <2>3. InOrder(rest, Order)
    BY <2>1, StoppedList
  <2>4. ToSet(rest) \subseteq ToSet(list)
    BY <2>1, StoppedList
  <2>5. ~Has(rest, {"del6"})
    BY <2>1, StoppedList
  <2>6. ~Has(list, {"set4", "add4", "put6", "wrong"})
    BY <2>1, StoppedList
  <2>7. \A d \in ToSet(list) : d.op = "dhcp4" => d \in ToSet(rest)
    BY <2>1, StoppedList
  <2>8. Has(list, {"dhcp4"}) => Has(rest, {"dhcp4"})
    BY <2>7 DEF Has
  <2> QED
    BY <2>2, <2>3, <2>4, <2>5, <2>6, <2>8
<1> HIDE DEF c
<1>4. Covered(rest)
  <2> SUFFICES ASSUME NEW i \in DOMAIN rest, rest[i].op = "add4" PROVE FALSE
    BY DEF Covered
  <2>1. rest[i] \in ToSet(rest)
    BY Zenon DEF ToSet
  <2>2. rest[i] \in ToSet(list)
    BY <1>3, <2>1
  <2> QED
    BY <1>3, <2>2 DEF Has
<1>5. ListInv(rest, w2, ph)
  <2>1. Errors(rest)
    BY <1>2, <1>3 DEF ListInv, Errors
  <2>2. w2.dhcp4 => w2.ip4 = {}
    BY DEF ListInv, SameAddresses
  <2>3. ~(ph > 3)
    BY <1>2
  <2> QED
    BY <1>3, <1>4, <2>1, <2>2, <2>3 DEF ListInv
<1>6. ASSUME NEW fails, NEW fails2, Plans(list, w, fails, ph),
             fails2 = {} => fails = {} /\ c.arg \notin w.ip6
      PROVE  Plans(rest, w2, fails2, ph)
  <2>1. CASE ph = 2
    <3>1. DhcpCommand(c)
      BY <1>1, <1>6, <2>1 DEF Plans, DhcpSteps
    <3> QED
      BY <1>1, <3>1 DEF DhcpCommand
  <2>2. CASE ph = 3
    <3>1. Given("ip") /\ IpSteps(list, w, fails)
      <4>1. list # <<>>
        OBVIOUS
      <4> QED
        BY <1>6, <2>2, <4>1 DEF Plans
    <3>2. IpSteps(rest, w2, fails2)
      BY <1>1, <1>2, <1>3, <1>6, <3>1, IpStopped
    <3> QED
      BY <2>2, <3>1, <3>2 DEF Plans
  <2>3. ph = 2 \/ ph = 3
    BY <1>2
  <2> QED
    BY <2>1, <2>2, <2>3
<1> QED
  BY <1>2, <1>5, <1>6 DEF c

-----------------------------------------------------------------------------
(* The handlers' lists when they are called. *)

\* Commands that leave the addresses alone.
LEMMA CalmInOrder ==
  ASSUME NEW list \in Seq(Commands),
         \A c \in ToSet(list) : c.op \notin AddressOps /\ c.onError # "stop"
  PROVE  InOrder(list, Order) /\ Covered(list)
<1>1. \A i \in DOMAIN list : list[i] \in ToSet(list) /\ list[i] \in Commands
  BY DEF ToSet
<1>2. ASSUME NEW i \in DOMAIN list, NEW j \in DOMAIN list PROVE <<list[i], list[j]>> \in Order
  <2>1. list[i].op \notin {"set4", "add4", "dhcp4", "del6", "put6"} /\ list[i].onError # "stop"
    BY <1>1 DEF AddressOps
  <2>2. Before(list[i], list[j])
    BY <2>1 DEF Before
  <2> QED
    BY <1>1, <2>2, OrderIs
<1>3. InOrder(list, Order)
  BY <1>2 DEF InOrder
<1>4. \A i \in DOMAIN list : list[i].op # "add4"
  BY <1>1 DEF AddressOps
<1> QED
  BY <1>3, <1>4 DEF Covered

LEMMA FlagsAre ==
  /\ all_flags[1] = "dhcp" /\ all_flags[2] = "ip"
  /\ \A n \in 3..7 : all_flags[n] \in Kind \ {"dhcp", "ip"}
<1>1. all_flags = <<"dhcp", "ip", "gateway", "search", "dns", "route", "hostname">>
  BY DEF all_flags
<1>2. all_flags[1] = "dhcp" /\ all_flags[2] = "ip"
  BY <1>1
<1>3. ASSUME NEW n \in 3..7 PROVE all_flags[n] \notin {"dhcp", "ip"}
  <2>1. n = 3 \/ n = 4 \/ n = 5 \/ n = 6 \/ n = 7
    OBVIOUS
  <2> QED
    BY <1>1, <2>1
<1>4. \A n \in 3..7 : all_flags[n] \in Kind
  BY LenFlags
<1> QED
  BY <1>2, <1>3, <1>4

\* set_dhcp() is called.
LEMMA CallDhcp ==
  ASSUME TypeOK, win.dhcp4 => win.ip4 = {}, win = found
  PROVE  /\ ListInv(Handler("dhcp"), win, 2)
         /\ differs => Plans(Handler("dhcp"), win, failures, 2)
<1> DEFINE list == Handler("dhcp")
<1>1. SameAddresses(found, win)
  BY DEF SameAddresses
<1>2. CASE Given("dhcp") /\ differs
  <2>1. list = set_dhcp
    BY <1>2 DEF Handler, HandlerOf
  <2>2. DhcpPlan(list)
    BY <1>2, <2>1, SetDhcpPlan
  <2> HIDE DEF list
  <2>3. \A c \in ToSet(list) : c.op # "add4"
    BY <2>2 DEF DhcpPlan, DhcpCommand
  <2>4. Covered(list)
    <3>1. list \in Seq(Commands)
      BY <2>2 DEF DhcpPlan
    <3> QED
      BY <2>3, <3>1 DEF Covered, ToSet
  <2>5. Errors(list)
    BY <2>2 DEF DhcpPlan, DhcpCommand, Errors
  <2>6. ListInv(list, win, 2)
    <3>1. 2 <= 3 /\ ~(2 > 3)
      OBVIOUS
    <3> QED
      BY <2>2, <2>4, <2>5, <3>1 DEF ListInv, DhcpPlan
  <2>7. DhcpSteps(list, win)
    BY <1>1, <2>2, DhcpStart
  <2>8. Plans(list, win, failures, 2)
    <3>1. 2 # 3 /\ 2 \in 1..3
      OBVIOUS
    <3> QED
      BY <2>7, <3>1 DEF Plans
  <2> QED
    BY <2>6, <2>8 DEF list
<1>3. CASE ~(Given("dhcp") /\ differs)
  <2>1. list = <<>>
    BY <1>3 DEF Handler
  <2> HIDE DEF list
  <2>2. ListInv(list, win, 2)
    BY <2>1, EmptyInv
  <2>3. differs => DhcpSteps(list, win)
    BY <1>1, <1>3, <2>1, DhcpNotGiven
  <2>4. differs => Plans(list, win, failures, 2)
    <3>1. 2 # 3 /\ 2 \in 1..3
      OBVIOUS
    <3> QED
      BY <2>3, <3>1 DEF Plans
  <2> QED
    BY <2>2, <2>4 DEF list
<1> QED
  BY <1>2, <1>3

\* set_ip() is called, when set_dhcp() has come to its end.
LEMMA CallIp ==
  ASSUME TypeOK, win.dhcp4 => win.ip4 = {}, found.dhcp4 => found.ip4 = {}, todo = <<>>,
         rc2 = 0 /\ differs => Plans(todo, win, failures, 2)
  PROVE  /\ ListInv(Handler("ip"), win, 3)
         /\ rc2 = 0 /\ differs => Plans(Handler("ip"), win, failures, 3)
<1> DEFINE list == Handler("ip")
<1>1. rc2 = 0 /\ differs => DhcpSteps(todo, win)
  BY DEF Plans
<1>2. CASE Given("ip") /\ differs
  <2>1. list = set_ip
    BY <1>2 DEF Handler, HandlerOf
  <2>2. IpPlan(list)
    BY <2>1, SetIpPlan
  <2> HIDE DEF list
  <2>3. ListInv(list, win, 3)
    <3>1. 3 <= 3 /\ ~(3 > 3)
      OBVIOUS
    <3> QED
      BY <2>2, <3>1 DEF ListInv, IpPlan
  <2>4. rc2 = 0 /\ differs => IpSteps(list, win, failures)
    BY <1>1, <2>2, IpStart
  <2>5. rc2 = 0 /\ differs => Plans(list, win, failures, 3)
    <3>1. 3 # 2 /\ 3 \in 1..3
      OBVIOUS
    <3> QED
      BY <1>2, <2>4, <3>1 DEF Plans
  <2> QED
    BY <2>3, <2>5 DEF list
<1>3. CASE ~(Given("ip") /\ differs)
  <2>1. list = <<>>
    BY <1>3 DEF Handler
  <2> HIDE DEF list
  <2>2. ListInv(list, win, 3)
    BY <2>1, EmptyInv
  <2>3. rc2 = 0 /\ differs => Plans(list, win, failures, 3)
    <3>1. 3 # 2 /\ 3 \in 1..3
      OBVIOUS
    <3>2. list = todo
      BY <2>1
    <3> QED
      BY <1>1, <1>3, <2>1, <3>1, <3>2 DEF Plans
  <2> QED
    BY <2>2, <2>3 DEF list
<1> QED
  BY <1>2, <1>3

\* What is stored when set_ip() has come to its end.
LEMMA IpIsDone ==
  ASSUME TypeOK, found.dhcp4 => found.ip4 = {}, todo = <<>>, Plans(todo, win, failures, 3)
  PROVE  Stored(win, failures)
<1>1. win.dhcp4 \in BOOLEAN /\ found.dhcp4 \in BOOLEAN
  BY DEF TypeOK, System
<1>2. 3 = 3
  OBVIOUS
<1>3. CASE Given("ip")
  BY <1>1, <1>2, <1>3, IpEnd DEF Plans
<1>4. CASE ~Given("ip")
  BY <1>1, <1>2, <1>4, DhcpEnd DEF Plans
<1> QED
  BY <1>3, <1>4

-----------------------------------------------------------------------------
(* The options stay as they are while an invocation lasts. *)

LEMMA SameOptions ==
  ASSUME opts' = opts, found' = found
  PROVE  /\ Given("ip")' <=> Given("ip")
         /\ Given("dhcp")' <=> Given("dhcp")
         /\ Asked(4)' = Asked(4) /\ Asked(6)' = Asked(6)
         /\ FourGiven' <=> FourGiven
         /\ ToDhcp4' <=> ToDhcp4
         /\ Dhcp4Asked' <=> Dhcp4Asked
         /\ Dhcp6Asked' <=> Dhcp6Asked
<1>1. Given("ip")' <=> Given("ip")
  BY DEF Given
<1>2. Given("dhcp")' <=> Given("dhcp")
  BY DEF Given
<1>3. Value("ip")' = Value("ip") /\ Value("dhcp")' = Value("dhcp")
  BY DEF Value, Words, Given, ToSet
<1>4. Asked(4)' = Asked(4) /\ Asked(6)' = Asked(6)
  BY <1>3 DEF Asked, FamilyOf, IsV6
<1>5. FourGiven' <=> FourGiven
  BY <1>3, <1>4 DEF FourGiven
<1>6. ToDhcp4' <=> ToDhcp4
  BY <1>1, <1>3, <1>4 DEF ToDhcp4
<1>7. Dhcp4Asked' <=> Dhcp4Asked
  BY <1>3 DEF Dhcp4Asked
<1>8. Dhcp6Asked' <=> Dhcp6Asked
  BY <1>1, <1>2, <1>3 DEF Dhcp6Asked
<1> QED
  BY <1>1, <1>2, <1>4, <1>5, <1>6, <1>7, <1>8

LEMMA NowStored ==
  ASSUME opts' = opts, found' = found, Stored(win', failures')
  PROVE  Stored(win, failures)'
BY SameOptions DEF Stored

LEMMA NowDhcpSteps ==
  ASSUME opts' = opts, found' = found, DhcpSteps(todo', win')
  PROVE  DhcpSteps(todo, win)'
BY SameOptions DEF DhcpSteps, Has, Args, IsDhcp, DhcpCommand, ToSet

LEMMA NowIpSteps ==
  ASSUME opts' = opts, found' = found, IpSteps(todo', win', failures')
  PROVE  IpSteps(todo, win, failures)'
<1>1. Errors(todo') => Errors(todo)'
  BY DEF Errors, ToSet
<1>2. Stops(todo') => Stops(todo)'
  BY SameOptions DEF Stops, ToSet
<1>3. Has(todo', {"wrong"}) => Has(todo, {"wrong"})'
  BY DEF Has, ToSet
<1>4. FourSteps(todo', win') => FourSteps(todo, win)'
  BY SameOptions DEF FourSteps, Has, Args, ToSet
<1>5. SwitchSteps(todo', win', failures') => SwitchSteps(todo, win, failures)'
  BY SameOptions DEF SwitchSteps, Has, IsDhcp, ToSet
<1>6. SixSteps(todo', win', failures') => SixSteps(todo, win, failures)'
  BY SameOptions DEF SixSteps, Args, ToSet
<1>7. StopSteps(todo', win', failures') => StopSteps(todo, win, failures)'
  BY DEF StopSteps, Args, ToSet
<1> QED
  BY <1>1, <1>2, <1>3, <1>4, <1>5, <1>6, <1>7 DEF IpSteps

LEMMA NowPlans ==
  ASSUME opts' = opts, found' = found, Plans(todo', win', failures', phase')
  PROVE  Plans(todo, win, failures, phase)'
BY NowStored, NowDhcpSteps, NowIpSteps, SameOptions DEF Plans

LEMMA NowListInv ==
  ASSUME ListInv(todo', win', phase')
  PROVE  ListInv(todo, win, phase)'
<1>1. Covered(todo') => Covered(todo)'
  BY DEF Covered
<1>2. InOrder(todo', Order) => InOrder(todo, Order)'
  BY DEF InOrder
<1>3. Errors(todo') => Errors(todo)'
  BY DEF Errors, ToSet
<1>4. (\A c \in ToSet(todo') : c.op \notin AddressOps /\ c.onError # "stop")
        => (\A c \in ToSet(todo) : c.op \notin AddressOps /\ c.onError # "stop")'
  BY DEF ToSet
<1> QED
  BY <1>1, <1>2, <1>3, <1>4 DEF ListInv

-----------------------------------------------------------------------------
(* The steps of the specification. *)

LEMMA NowAddressInv ==
  ASSUME opts' = opts, found' = found, found.dhcp4 => found.ip4 = {}, phase' # 1,
         ListInv(todo', win', phase'),
         rc2' = 0 /\ differs' => Plans(todo', win', failures', phase')
  PROVE  AddressInv'
<1>1. ListInv(todo, win, phase)'
  BY NowListInv
<1>2. rc2' = 0 /\ differs' => Plans(todo, win, failures, phase)'
  BY NowPlans
<1> QED
  BY <1>1, <1>2 DEF AddressInv

LEMMA StartAddress ==
  ASSUME TypeOK, AddressInv, Start
  PROVE  AddressInv'
<1>1. todo' = <<>> /\ win' = win /\ found' = win /\ phase' = 1
  BY DEF Start, TypeOK
<1>2. win.dhcp4 => win.ip4 = {}
  BY DEF AddressInv, ListInv
<1>3. ListInv(todo', win', phase')
  BY <1>1, <1>2, EmptyInv
<1>4. ListInv(todo, win, phase)'
  BY <1>3, NowListInv
<1>5. Plans(todo, win, failures, phase)'
  <2>1. 1 # 2 /\ 1 # 3 /\ 1 \in 1..3
    OBVIOUS
  <2> QED
    BY <1>1, <2>1 DEF Plans
<1> QED
  BY <1>1, <1>2, <1>4, <1>5 DEF AddressInv

LEMMA CallAddress ==
  ASSUME TypeOK, AddressInv, CallHandler
  PROVE  AddressInv'
<1>1. /\ phase \in 1..7 /\ todo = <<>> /\ todo' = Handler(all_flags[phase]) /\ phase' = phase + 1
      /\ win' = win /\ opts' = opts /\ found' = found /\ differs' = differs /\ rc2' = rc2
      /\ failures' = failures
  BY LenFlags DEF CallHandler
<1>2. /\ win.dhcp4 => win.ip4 = {}
      /\ found.dhcp4 => found.ip4 = {}
      /\ phase = 1 => win = found
      /\ rc2 = 0 /\ differs => Plans(todo, win, failures, phase)
  BY DEF AddressInv, ListInv
<1>3. CASE phase = 1
  <2>1. todo' = Handler("dhcp") /\ phase' = 2
    BY <1>1, <1>3, FlagsAre
  <2>2. ListInv(todo', win', phase')
    BY <1>1, <1>2, <1>3, <2>1, CallDhcp
  <2>3. differs => Plans(todo', win', failures', phase')
    BY <1>1, <1>2, <1>3, <2>1, CallDhcp
  <2> QED
    BY <1>1, <1>2, <2>1, <2>2, <2>3, NowAddressInv
<1>4. CASE phase = 2
  <2>1. todo' = Handler("ip") /\ phase' = 3
    BY <1>1, <1>4, FlagsAre
  <2>2. rc2 = 0 /\ differs => Plans(todo, win, failures, 2)
    BY <1>2, <1>4
  <2>3. ListInv(todo', win', phase')
    BY <1>1, <1>2, <2>1, <2>2, CallIp
  <2>4. rc2 = 0 /\ differs => Plans(todo', win', failures', phase')
    BY <1>1, <1>2, <2>1, <2>2, CallIp
  <2> QED
    BY <1>1, <1>2, <2>1, <2>3, <2>4, NowAddressInv
<1>5. CASE phase > 2
  <2>1. phase \in 3..7 /\ phase' > 3 /\ phase' # 1 /\ phase' # 2 /\ phase' # 3 /\ phase' \notin 1..3
    BY <1>1, <1>5
  <2>2. PICK kind \in Kind \ {"dhcp", "ip"} : todo' = Handler(kind)
    BY <1>1, <2>1, FlagsAre
  <2>3. todo' \in Seq(Commands)
    BY <2>2, HandlerType
  <2>4. \A c \in ToSet(todo') : c.op \notin AddressOps /\ c.onError # "stop"
    BY <2>2, LaterHandlers
  <2>5. InOrder(todo', Order) /\ Covered(todo')
    BY <2>3, <2>4, CalmInOrder
  <2>6. ~(phase' <= 3)
    BY <1>1, <2>1
  <2>7. ListInv(todo', win', phase')
    BY <1>1, <1>2, <2>4, <2>5, <2>6 DEF ListInv
  <2>8. rc2 = 0 /\ differs => Stored(win, failures)
    <3>1. CASE phase = 3
      BY <1>1, <1>2, <3>1, IpIsDone
    <3>2. CASE phase # 3
      <4>1. phase \notin 1..3
        BY <2>1, <3>2
      <4> QED
        BY <1>2, <4>1 DEF Plans
    <3> QED
      BY <3>1, <3>2
  <2>9. rc2' = 0 /\ differs' => Plans(todo', win', failures', phase')
    BY <1>1, <2>1, <2>8 DEF Plans
  <2> QED
    BY <1>1, <1>2, <2>1, <2>7, <2>9, NowAddressInv
<1>6. phase = 1 \/ phase = 2 \/ phase > 2
  BY <1>1
<1> QED
  BY <1>3, <1>4, <1>5, <1>6

\* Commands are left in an invocation only, and after its first handler is called.
LEMMA AtWork ==
  ASSUME TypeOK, AddressInv, todo # <<>>
  PROVE  /\ todo \in Seq(Commands) /\ Head(todo) \in Commands /\ win \in System
         /\ phase \in Nat \ {0, 1}
<1>1. phase \in Nat
  BY LenFlags DEF TypeOK
<1> QED
  BY <1>1, HeadType DEF TypeOK, AddressInv

LEMMA CommandAddress ==
  ASSUME TypeOK, AddressInv, Command
  PROVE  AddressInv'
<1>1. /\ todo # <<>> /\ ~Refused(win, Head(todo)) /\ win' = Effect(win, Head(todo))
      /\ todo' = Tail(todo) /\ phase' = phase
      /\ opts' = opts /\ found' = found /\ differs' = differs /\ rc2' = rc2
      /\ failures' = failures
  BY DEF Command
<1>2. /\ todo \in Seq(Commands) /\ Head(todo) \in Commands /\ win \in System
      /\ phase \in Nat \ {0, 1}
  BY <1>1, AtWork
<1>3. Head(todo).op # "wrong"
  BY <1>1 DEF Refused
<1>4. AddressEffect(win, Head(todo), win')
  BY <1>1, <1>2, EffectIs
<1>5. /\ ListInv(todo, win, phase) /\ (found.dhcp4 => found.ip4 = {})
      /\ rc2 = 0 /\ differs => Plans(todo, win, failures, phase)
  BY DEF AddressInv
<1>6. ListInv(Tail(todo), win', phase)
  BY <1>1, <1>2, <1>3, <1>4, <1>5, InvDone
<1>7. rc2 = 0 /\ differs => Plans(Tail(todo), win', failures, phase)
  BY <1>1, <1>2, <1>3, <1>4, <1>5, InvDone
<1> QED
  BY <1>1, <1>2, <1>5, <1>6, <1>7, NowAddressInv

\* Where no failure is counted, Windows has refused what was so already.
LEMMA FailsAddress ==
  ASSUME TypeOK, AddressInv, todo # <<>>, NEW negative, CommandFails(negative),
         SameAddresses(win, win'), Head(todo).op # "unchanged",
         failures' = {} => /\ failures = {}
                           /\ Head(todo).op = "dhcp4" => IsDhcp(win)
                           /\ Head(todo).op = "del6" => Head(todo).arg \notin win.ip6
  PROVE  AddressInv'
<1> DEFINE ends == Head(todo).onError = "return" \/ (Head(todo).onError = "negative" /\ negative)
<1>1. /\ todo' \in Rest(ends) /\ rc2' = IF ends THEN 1 ELSE rc2
      /\ ~ends => Head(todo).onError # "return"
      /\ opts' = opts /\ found' = found /\ differs' = differs /\ phase' = phase
  BY DEF CommandFails
<1>2. /\ todo \in Seq(Commands) /\ Head(todo) \in Commands /\ win \in System
      /\ phase \in Nat \ {0, 1}
  BY AtWork
<1>3. /\ ListInv(todo, win, phase) /\ (found.dhcp4 => found.ip4 = {})
      /\ rc2 = 0 /\ differs => Plans(todo, win, failures, phase)
  BY DEF AddressInv
<1> HIDE DEF ends
<1>4. CASE ends
  <2>1. todo' = <<>> /\ rc2' = 1
    BY <1>1, <1>4 DEF Rest
  <2>2. win'.dhcp4 => win'.ip4 = {}
    BY <1>3 DEF ListInv, SameAddresses
  <2>3. ListInv(todo', win', phase')
    BY <2>1, <2>2, EmptyInv
  <2> QED
    BY <1>1, <1>2, <1>3, <2>1, <2>3, NowAddressInv
<1>5. CASE ~ends /\ Head(todo).onError = "stop"
  <2>1. Behind(todo, todo')
    <3>1. PICK n \in DOMAIN todo : LastDeletion(n) /\ todo' = SubSeq(todo, n + 1, Len(todo))
      BY <1>1, <1>5 DEF Rest
    <3>2. IsLastDeletion(todo, n)
      BY <3>1 DEF LastDeletion, IsLastDeletion
    <3> QED
      BY <3>1, <3>2 DEF Behind
  <2>2. Head(todo).op = "del6" /\ ListInv(todo', win', phase)
    BY <1>2, <1>3, <1>5, <2>1, InvStopped
  <2>3. ASSUME Plans(todo, win, failures, phase) PROVE Plans(todo', win', failures', phase)
    <3>1. failures' = {} => failures = {} /\ Head(todo).arg \notin win.ip6
      BY <2>2
    <3> QED
      BY <1>2, <1>3, <1>5, <2>1, <2>3, <3>1, InvStopped
  <2>4. rc2' = 0 /\ differs' => Plans(todo', win', failures', phase')
    BY <1>1, <1>3, <1>5, <2>3
  <2> QED
    BY <1>1, <1>2, <1>3, <2>2, <2>4, NowAddressInv
<1>6. CASE ~ends /\ Head(todo).onError # "stop"
  <2>1. todo' = Tail(todo) /\ Head(todo).onError \notin {"return", "stop"}
    BY <1>1, <1>6 DEF Rest
  <2>2. ListInv(todo', win', phase)
    BY <1>2, <1>3, <2>1, InvIgnored
  <2>3. ASSUME Plans(todo, win, failures, phase) PROVE Plans(todo', win', failures', phase)
    <3>1. failures' = {} => failures = {} /\ (Head(todo).op = "dhcp4" => IsDhcp(win))
      OBVIOUS
    <3> QED
      BY <1>2, <1>3, <2>1, <2>3, <3>1, InvIgnored
  <2>4. rc2' = 0 /\ differs' => Plans(todo', win', failures', phase')
    BY <1>1, <1>3, <1>6, <2>3
  <2> QED
    BY <1>1, <1>2, <1>3, <2>2, <2>4, NowAddressInv
<1> QED
  BY <1>4, <1>5, <1>6

LEMMA RefusalAddress ==
  ASSUME TypeOK, AddressInv, Refusal
  PROVE  AddressInv'
<1>1. todo # <<>> /\ Refused(win, Head(todo)) /\ CommandFails(FALSE) /\ win' = win /\ failures' = failures
  BY DEF Refusal
<1>2. SameAddresses(win, win')
  BY <1>1 DEF SameAddresses
<1>3. Head(todo).op # "unchanged"
  BY <1>1 DEF Refused
<1>4. Head(todo).op = "dhcp4" => IsDhcp(win)
  BY <1>1 DEF Refused, IsDhcp, AddressInv, ListInv
<1>5. Head(todo).op = "del6" => Head(todo).arg \notin win.ip6
  BY <1>1 DEF Refused
<1> QED
  BY <1>1, <1>2, <1>3, <1>4, <1>5, FailsAddress

LEMMA FailureAddress ==
  ASSUME TypeOK, AddressInv, NEW kind, Failure(kind)
  PROVE  AddressInv'
<1>1. todo # <<>> /\ Head(todo).op # "unchanged" /\ CommandFails(kind = "crash")
  BY DEF Failure
<1>2. failures' # {}
  BY DEF Failure, Fault
<1>3. SameAddresses(win, win')
  <2>1. win \in System
    BY DEF TypeOK
  <2>2. CASE win' = win
    BY <2>2 DEF SameAddresses
  <2>3. CASE win' # win
    <3>1. PICK left : win' = [win EXCEPT !.routes = left]
      BY <2>3 DEF Failure
    <3> QED
      BY <2>1, <3>1 DEF System, SameAddresses
  <2> QED
    BY <2>2, <2>3
<1> QED
  BY <1>1, <1>2, <1>3, FailsAddress

LEMMA AddressNext ==
  ASSUME TypeOK, AddressInv, [Next]_vars
  PROVE  AddressInv'
<1>1. CASE Finish
  <2>1. /\ phase = 8 /\ phase' = 0 /\ todo = <<>> /\ todo' = <<>> /\ win' = win /\ opts' = opts
        /\ found' = found /\ differs' = differs /\ rc2' = rc2 /\ failures' = failures
    BY <1>1, LenFlags DEF Finish
  <2>2. /\ win.dhcp4 => win.ip4 = {}
        /\ found.dhcp4 => found.ip4 = {}
        /\ rc2 = 0 /\ differs => Plans(todo, win, failures, phase)
    BY DEF AddressInv, ListInv
  <2>3. ListInv(todo', win', phase')
    BY <2>1, <2>2, EmptyInv
  <2>4. 8 \notin 1..3 /\ 0 # 2 /\ 0 # 3 /\ 0 # 1
    OBVIOUS
  <2>5. rc2' = 0 /\ differs' => Plans(todo', win', failures', phase')
    BY <2>1, <2>2, <2>4 DEF Plans
  <2> QED
    BY <2>1, <2>2, <2>3, <2>4, <2>5, NowAddressInv
<1>2. CASE Kill
  <2>1. todo' = <<>> /\ win' = win /\ found' = win /\ phase' = 0 /\ differs' = FALSE
    BY <1>2 DEF Kill
  <2>2. win.dhcp4 => win.ip4 = {}
    BY DEF AddressInv, ListInv
  <2>3. ListInv(todo', win', phase')
    BY <2>1, <2>2, EmptyInv
  <2>4. ListInv(todo, win, phase)'
    BY <2>3, NowListInv
  <2>5. phase' # 1
    BY <2>1
  <2> QED
    BY <2>1, <2>2, <2>4, <2>5 DEF AddressInv
<1>3. CASE UNCHANGED vars
  <2>1. /\ todo' = todo /\ win' = win /\ opts' = opts /\ found' = found /\ differs' = differs
        /\ phase' = phase /\ rc2' = rc2 /\ failures' = failures
    BY <1>3 DEF vars
  <2>2. CASE phase # 1
    BY <2>1, <2>2, NowAddressInv DEF AddressInv
  <2>3. CASE phase = 1
    <3>1. ListInv(todo, win, phase)' /\ Plans(todo, win, failures, phase)'
      <4>1. 1 # 2 /\ 1 # 3 /\ 1 \in 1..3
        OBVIOUS
      <4>2. Plans(todo, win, failures, phase)'
        BY <2>1, <2>3, <4>1 DEF Plans
      <4>3. ListInv(todo', win', phase')
        BY <2>1 DEF AddressInv
      <4> QED
        BY <4>2, <4>3, NowListInv
    <3> QED
      BY <2>1, <3>1 DEF AddressInv
  <2> QED
    BY <2>2, <2>3
<1>4. ASSUME NEW kind \in {"exit", "crash"}, Failure(kind) PROVE AddressInv'
  BY <1>4, FailureAddress
<1> QED
  BY <1>1, <1>2, <1>3, <1>4, StartAddress, CallAddress, CommandAddress, RefusalAddress DEF Next

LEMMA AddressInit ==
  ASSUME Init
  PROVE  AddressInv
<1>1. /\ win \in Systems /\ found = win /\ differs = FALSE /\ phase = 0 /\ todo = <<>>
  BY DEF Init
<1>2. win.dhcp4 => win.ip4 = {}
  BY <1>1, SystemsAssumption
<1>3. ListInv(todo, win, phase)
  BY <1>1, <1>2, EmptyInv
<1> QED
  BY <1>1, <1>2, <1>3 DEF AddressInv

\* Whatever fails, the commands that are left and the adapter as it is make up what the
\* options mean for the addresses.
THEOREM AddressInvHolds == Spec => []AddressInv
<1>1. Init => AddressInv
  BY AddressInit
<1>2. TypeOK /\ AddressInv /\ [Next]_vars => AddressInv'
  BY AddressNext
<1> QED
  BY <1>1, <1>2, TypeCorrect, PTL DEF Spec

\* What a successful invocation leaves.
LEMMA EndedStored ==
  ASSUME AddressInv, Ended, rc2 = 0, differs
  PROVE  Stored(win, failures)
<1>1. phase = 0
  BY DEF Ended
<1>2. 0 \notin 1..3
  OBVIOUS
<1> QED
  BY <1>1, <1>2 DEF AddressInv, Plans

\* Whatever the constants are: no address that was asked for is missing without an error.
THEOREM NoAddressSilentlyMissingHolds == Spec => []NoAddressSilentlyMissing
<1>1. AddressInv => NoAddressSilentlyMissing
  BY EndedStored DEF NoAddressSilentlyMissing, Stored, FourGiven
<1> QED
  BY <1>1, AddressInvHolds, PTL

\* Whatever the constants are: an invocation that meets no fault and reports no error
\* leaves the addresses its options mean.
THEOREM AddressesAsAskedHolds == Spec => []AddressesAsAsked
<1>1. AddressInv => AddressesAsAsked
  BY EndedStored DEF AddressesAsAsked, Smooth, Stored, AddressesAre
<1> QED
  BY <1>1, AddressInvHolds, PTL

-----------------------------------------------------------------------------
(* Which commands a handler makes. *)

FromDhcp(c) == c.op = "dns" => c.arg.to = <<DHCP>>
BadName == Words("hostname")[1] \notin Host \/ Words("hostname")[2] = Invalid
OfKind(c, kind) ==
  CASE kind = "dhcp" -> c.op \in {"dns", "dhcp4", "del6", "unchanged"} /\ FromDhcp(c)
    [] kind = "ip"   -> /\ c.op \in {"set4", "add4", "del6", "put6", "wrong", "dns", "dhcp4"}
                        /\ FromDhcp(c)
    [] kind = "gateway"  -> c.op \in {"delgw", "addgw"} /\ c.onError = "ignore"
    [] kind = "search"   -> c.op = "search"
    [] kind = "dns"      -> c.op \in {"dns", "adddns"} /\ c.onError = "negative"
    [] kind = "route"    -> c.op \in {"delroute", "addroute"} /\ c.onError = "ignore"
    [] kind = "hostname" -> /\ c.op \in {"host", "wrong", "domain", "convert", "computer"}
                            /\ c.op = "wrong" => BadName
                            /\ Given("hostname")

\* Commands that share what is done and what a failure does.
Likely(ops, onErrors) == {c \in Commands : c.op \in ops /\ c.onError \in onErrors}

LEMMA LikelyCommand ==
  ASSUME NEW op, NEW a, NEW e, Cmd(op, a, e) \in Seq(Plain), NEW ops, op \in ops
  PROVE  Cmd(op, a, e) \in Seq(Likely(ops, {e}))
<1> DEFINE c == [op |-> op, arg |-> a, onError |-> e]
<1>1. Cmd(op, a, e) = <<c>> /\ c.op = op /\ c.onError = e
  BY DEF Cmd
<1> HIDE DEF c
<1>2. c \in ToSet(<<c>>)
  BY SingleOrder
<1>3. c \in Commands
  BY <1>1, <1>2, Members DEF Plain
<1>4. c \in Likely(ops, {e})
  BY <1>1, <1>3 DEF Likely
<1> QED
  BY <1>1, <1>4

LEMMA DnsCommands ==
  ASSUME TypeOK
  PROVE  set_dns \in Seq(Likely({"dns", "adddns"}, {"negative"}))
<1> DEFINE words == Words("dns")
           firstOf(k) == \A n \in 1..(k - 1) : FamilyOf(words[n]) # FamilyOf(words[k])
           clear(k) == Cmd("dns", [family |-> FamilyOf(words[k]), to |-> <<>>], "negative")
           add(k) == Cmd("adddns", words[k], "negative")
           list == [k \in DOMAIN words |-> (IF firstOf(k) THEN clear(k) ELSE <<>>) \o add(k)]
           T == Likely({"dns", "adddns"}, {"negative"})
<1>1. words \in Seq(Word)
  BY WordsType, KindType
<1>2. set_dns = FlattenSeq(list)
  BY DEF set_dns, ForEach
<1>3. ASSUME NEW k \in DOMAIN words
      PROVE  (IF firstOf(k) THEN clear(k) ELSE <<>>) \o add(k) \in Seq(T)
  <2>1. FamilyOf(words[k]) \in Family /\ words[k] \in Word
    BY <1>1 DEF FamilyOf, Family
  <2>2. clear(k) \in Seq(Plain) /\ add(k) \in Seq(Plain)
    BY <2>1, PlainCommands DEF OnError
  <2>3. clear(k) \in Seq(T) /\ add(k) \in Seq(T)
    BY <2>2, LikelyCommand
  <2> HIDE DEF clear, add, firstOf, T
  <2> QED
    BY <2>3
<1>4. list = [k \in DOMAIN words |-> list[k]]
  OBVIOUS
<1>5. \A k \in DOMAIN words : list[k] \in Seq(T)
  BY <1>3
<1> HIDE DEF words, list, T
<1>6. FlattenSeq(list) \in Seq(T)
  BY <1>1, <1>4, <1>5, EachType
<1> QED
  BY <1>2, <1>6 DEF T

LEMMA GatewayListCommands ==
  ASSUME NEW words \in Seq(Gateway4 \cup Gateway6 \cup {RemoveV4, RemoveV6})
  PROVE  set_gateway(words) \in Seq(Likely({"delgw", "addgw"}, {"ignore"}))
<1> DEFINE del(k) == Cmd("delgw", GatewayFamily(words[k]), "ignore")
           add(k) == Cmd("addgw", words[k], "ignore")
           list == [k \in DOMAIN words |-> del(k) \o (IF IsRemove(words[k]) THEN <<>> ELSE add(k))]
           T == Likely({"delgw", "addgw"}, {"ignore"})
<1>1. set_gateway(words) = FlattenSeq(list)
  BY DEF set_gateway, ForEach
<1>2. ASSUME NEW k \in DOMAIN words
      PROVE  del(k) \o (IF IsRemove(words[k]) THEN <<>> ELSE add(k)) \in Seq(T)
  <2>1. GatewayFamily(words[k]) \in Family
    BY DEF GatewayFamily, Family
  <2>2. del(k) \in Seq(Plain)
    BY <2>1, PlainCommands DEF OnError
  <2>3. del(k) \in Seq(T)
    BY <2>2, LikelyCommand
  <2>4. ~IsRemove(words[k]) => add(k) \in Seq(Plain)
    BY PlainCommands DEF OnError, IsRemove
  <2>5. ~IsRemove(words[k]) => add(k) \in Seq(T)
    BY <2>4, LikelyCommand
  <2> HIDE DEF del, add, T
  <2> QED
    BY <2>3, <2>5
<1>3. list = [k \in DOMAIN words |-> list[k]]
  OBVIOUS
<1>4. \A k \in DOMAIN words : list[k] \in Seq(T)
  BY <1>2
<1> DEFINE Some == Gateway4 \cup Gateway6 \cup {RemoveV4, RemoveV6}
<1>5. words \in Seq(Some)
  OBVIOUS
<1> HIDE DEF list, Some, T
<1>6. FlattenSeq(list) \in Seq(T)
  BY <1>3, <1>4, <1>5, EachType
<1> QED
  BY <1>1, <1>6 DEF T

LEMMA GatewaysCommands ==
  ASSUME TypeOK
  PROVE  Gateways \in Seq(Likely({"delgw", "addgw"}, {"ignore"}))
<1> DEFINE records == opts["gateway"]
           isPart(k) == records[k] = <<RemoveV4>>
           one == [k \in DOMAIN records |-> IF isPart(k) THEN set_gateway(records[k]) ELSE <<>>]
           two == [k \in DOMAIN records |-> IF isPart(k) THEN <<>> ELSE set_gateway(records[k])]
           T == Likely({"delgw", "addgw"}, {"ignore"})
<1>1. records \in Seq(Seq(Word))
  BY KindType DEF TypeOK, IsLine
<1>2. ASSUME NEW k \in DOMAIN records
      PROVE  set_gateway(records[k]) \in Seq(T)
  BY GatewayListCommands DEF TypeOK, IsLine
<1>3. Gateways = FlattenSeq(one) \o FlattenSeq(two)
  BY DEF Gateways, ForEach
<1>4. one = [k \in DOMAIN records |-> one[k]] /\ two = [k \in DOMAIN records |-> two[k]]
  OBVIOUS
<1> HIDE DEF records, isPart, T
<1>5. \A k \in DOMAIN records : one[k] \in Seq(T) /\ two[k] \in Seq(T)
  BY <1>2
<1> HIDE DEF one, two
<1>6. FlattenSeq(one) \in Seq(T) /\ FlattenSeq(two) \in Seq(T)
  BY <1>1, <1>4, <1>5, EachType
<1> QED
  BY <1>3, <1>6 DEF T

LEMMA RouteCommands ==
  ASSUME TypeOK
  PROVE  set_route \in Seq(Likely({"delroute", "addroute"}, {"ignore"}))
<1> DEFINE words == Words("route")
           T == Likely({"delroute", "addroute"}, {"ignore"})
           list == [k \in DOMAIN words |->
                      IF IsRemove(words[k]) THEN Cmd("delroute", None, "ignore")
                                            ELSE Cmd("addroute", words[k], "ignore")]
<1>1. words \in Seq(Route \cup {RemoveV4, RemoveV6})
  <2>1. CASE Given("route")
    BY <2>1, WordsType, KindType DEF TypeOK, IsLine
  <2>2. CASE ~Given("route")
    BY <2>2 DEF Given, Words
  <2> QED
    BY <2>1, <2>2
<1>2. set_route = FlattenSeq(list)
  BY DEF set_route, ForEach
<1> HIDE DEF words
<1>3. ASSUME NEW k \in DOMAIN words
      PROVE  (IF IsRemove(words[k]) THEN Cmd("delroute", None, "ignore")
                                    ELSE Cmd("addroute", words[k], "ignore")) \in Seq(T)
  <2>1. CASE IsRemove(words[k])
    <3>1. Cmd("delroute", None, "ignore") \in Seq(Plain)
      BY PlainCommands DEF OnError
    <3> QED
      BY <2>1, <3>1, LikelyCommand
  <2>2. CASE ~IsRemove(words[k])
    <3>1. words[k] \in Route
      BY <1>1, <2>2 DEF IsRemove
    <3>2. Cmd("addroute", words[k], "ignore") \in Seq(Plain)
      BY <3>1, PlainCommands DEF OnError
    <3> QED
      BY <2>2, <3>2, LikelyCommand
  <2> QED
    BY <2>1, <2>2
<1> HIDE DEF T
<1>4. list \in Seq(Seq(T))
  BY <1>1, <1>3
<1> QED
  BY <1>2, <1>4, FlattenType DEF T

LEMMA SearchCommands ==
  ASSUME TypeOK, Given("search")
  PROVE  set_search_domain \in Seq(Likely({"search"}, {"return"}))
<1>1. Words("search") \in Seq(Domain \cup {RemoveV4})
  BY WordsType, KindType DEF TypeOK, IsLine
<1>2. Cmd("search", Words("search"), "return") \in Seq(Plain)
  BY <1>1, PlainCommands DEF OnError
<1> QED
  BY <1>2, LikelyCommand DEF set_search_domain

\* The commands of each handler.
LEMMA KindCommands ==
  ASSUME TypeOK, NEW kind \in Kind
  PROVE  \A c \in ToSet(Handler(kind)) : OfKind(c, kind)
<1>1. CASE ToSet(Handler(kind)) = {}
  BY <1>1
<1>2. CASE ToSet(Handler(kind)) # {} /\ kind = "dhcp"
  <2>1. Given("dhcp") /\ Handler(kind) = set_dhcp
    BY <1>2, EmptyOrder DEF Handler, HandlerOf
  <2>2. \A c \in ToSet(set_dhcp) : DhcpCommand(c)
    BY <2>1, SetDhcpPlan DEF DhcpPlan
  <2>3. \A c : DhcpCommand(c) => OfKind(c, "dhcp")
    BY DEF DhcpCommand, OfKind, FromDhcp
  <2> QED
    BY <1>2, <2>1, <2>2, <2>3
<1>3. CASE ToSet(Handler(kind)) # {} /\ kind = "ip"
  <2>1. Given("ip") /\ Handler(kind) = set_ip
    BY <1>3, EmptyOrder DEF Handler, HandlerOf
  <2>2. \A c \in ToSet(set_ip) : \/ \E k \in DOMAIN Words("ip") : FromWord(c, Words("ip"), k)
                                 \/ AtEndSix(c)
                                 \/ AtEndFour(c)
    BY IpCommands
  <2>3. ASSUME NEW c, NEW k, FromWord(c, Words("ip"), k) PROVE OfKind(c, "ip")
    BY <2>3 DEF FromWord, OfKind, FromDhcp
  <2>4. \A c : AtEndSix(c) => OfKind(c, "ip")
    BY DEF AtEndSix, IsDeletion, OfKind, FromDhcp
  <2>5. \A c : AtEndFour(c) => OfKind(c, "ip")
    BY DEF AtEndFour, OfKind, FromDhcp
  <2> QED
    BY <1>3, <2>1, <2>2, <2>3, <2>4, <2>5
<1>4. CASE ToSet(Handler(kind)) # {} /\ kind = "gateway"
  <2>1. Handler(kind) = Gateways
    BY <1>4, EmptyOrder DEF Handler
  <2>2. \A c \in ToSet(Gateways) : c.op \in {"delgw", "addgw"} /\ c.onError = "ignore"
    BY GatewaysCommands, Members DEF Likely
  <2> QED
    BY <1>4, <2>1, <2>2 DEF OfKind
<1>5. CASE ToSet(Handler(kind)) # {} /\ kind = "search"
  <2>1. Handler(kind) = set_search_domain /\ Given("search")
    BY <1>5, EmptyOrder DEF Handler
  <2>2. \A c \in ToSet(set_search_domain) : c.op \in {"search"}
    BY <2>1, SearchCommands, Members DEF Likely
  <2> QED
    BY <1>5, <2>1, <2>2 DEF OfKind
<1>6. CASE ToSet(Handler(kind)) # {} /\ kind = "dns"
  <2>1. Handler(kind) = set_dns
    BY <1>6, EmptyOrder DEF Handler, HandlerOf
  <2>2. \A c \in ToSet(set_dns) : c.op \in {"dns", "adddns"} /\ c.onError = "negative"
    BY DnsCommands, Members DEF Likely
  <2> QED
    BY <1>6, <2>1, <2>2 DEF OfKind
<1>7. CASE ToSet(Handler(kind)) # {} /\ kind = "route"
  <2>1. Handler(kind) = set_route
    BY <1>7, EmptyOrder DEF Handler, HandlerOf
  <2>2. \A c \in ToSet(set_route) : c.op \in {"delroute", "addroute"} /\ c.onError = "ignore"
    BY RouteCommands, Members DEF Likely
  <2> QED
    BY <1>7, <2>1, <2>2 DEF OfKind
<1>8. CASE ToSet(Handler(kind)) # {} /\ kind = "hostname"
  <2>1. Handler(kind) = set_hostname /\ Given("hostname")
    BY <1>8, EmptyOrder DEF Handler
  <2>2. \A c \in ToSet(set_hostname) : HostnameCommand(c)
    BY <2>1, HostnameOrdered DEF ToSet
  <2> QED
    BY <1>8, <2>1, <2>2 DEF OfKind, HostnameCommand, BadName
<1> QED
  BY <1>1, <1>2, <1>3, <1>4, <1>5, <1>6, <1>7, <1>8, KindType

\* The first of a list in any order, and the others.
LEMMA SplitOrder ==
  ASSUME NEW T, NEW list \in Seq(T), list # <<>>, NEW R, InOrder(list, R)
  PROVE  InOrder(Tail(list), R) /\ \A d \in ToSet(Tail(list)) : <<Head(list), d>> \in R
<1> DEFINE n == Len(list)
           c == Head(list)
           tail == Tail(list)
<1>1. /\ n \in Nat \ {0} /\ DOMAIN list = 1..n /\ c = list[1]
      /\ DOMAIN tail = 1..(n - 1)
      /\ \A i \in 1..(n - 1) : tail[i] = list[i + 1]
  OBVIOUS
<1> HIDE DEF n, c, tail
<1>2. ASSUME NEW i \in 1..(n - 1), NEW j \in 1..(n - 1), i < j PROVE <<tail[i], tail[j]>> \in R
  <2>1. i + 1 \in 1..n /\ j + 1 \in 1..n /\ i + 1 < j + 1
    BY <1>1, <1>2
  <2>2. <<list[i + 1], list[j + 1]>> \in R
    BY <1>1, <2>1 DEF InOrder
  <2> QED
    BY <1>1, <2>2
<1>3. ASSUME NEW j \in 1..(n - 1) PROVE <<c, tail[j]>> \in R
  <2>1. 1 \in 1..n /\ j + 1 \in 1..n /\ 1 < j + 1
    BY <1>1
  <2>2. <<list[1], list[j + 1]>> \in R
    BY <1>1, <2>1 DEF InOrder
  <2> QED
    BY <1>1, <2>2
<1>4. InOrder(tail, R)
  BY <1>1, <1>2 DEF InOrder
<1>5. \A d \in ToSet(tail) : <<c, d>> \in R
  BY <1>1, <1>3 DEF ToSet
<1> QED
  BY <1>4, <1>5 DEF c, tail

-----------------------------------------------------------------------------
(* The gateways of a family after a list of commands: a list leads to some *)
(* if these are what it adds behind its last deletion.                     *)

IsDel(c, f) == c.op = "delgw" /\ c.arg = f
IsAdd(c, f) == c.op = "addgw" /\ FamilyOf(c.arg) = f
NoDel(list, f) == \A c \in ToSet(list) : ~IsDel(c, f)
Adds(list, f)  == {c.arg : c \in {d \in ToSet(list) : IsAdd(d, f)}}
Quiet(list, f) == \A c \in ToSet(list) : ~IsDel(c, f) /\ ~IsAdd(c, f)

Leads(list, f, X) ==
  \E A, B \in Seq(Commands) :
    /\ list = A \o B /\ B # <<>>
    /\ IsDel(Head(B), f) /\ NoDel(Tail(B), f) /\ Adds(Tail(B), f) = X

LEMMA AddsIs ==
  ASSUME NEW list, NEW f
  PROVE  \A x : x \in Adds(list, f) <=> \E c \in ToSet(list) : IsAdd(c, f) /\ c.arg = x
BY DEF Adds

LEMMA QuietIs ==
  ASSUME NEW list, NEW f
  PROVE  Quiet(list, f) <=> NoDel(list, f) /\ Adds(list, f) = {}
<1>1. \A x : x \in Adds(list, f) <=> \E c \in ToSet(list) : IsAdd(c, f) /\ c.arg = x
  BY AddsIs
<1>2. Quiet(list, f) => Adds(list, f) = {}
  BY <1>1 DEF Quiet
<1>3. Adds(list, f) = {} => \A c \in ToSet(list) : ~IsAdd(c, f)
  BY <1>1
<1> QED
  BY <1>2, <1>3 DEF Quiet, NoDel

LEMMA JoinedMembers ==
  ASSUME NEW T, NEW A \in Seq(T), NEW B \in Seq(T)
  PROVE  A \o B \in Seq(T) /\ ToSet(A \o B) = ToSet(A) \cup ToSet(B)
<1> DEFINE R == {}
<1>1. /\ A \o B \in Seq(T) /\ ToSet(A \o B) = ToSet(A) \cup ToSet(B)
      /\ /\ InOrder(A, R) /\ InOrder(B, R)
         /\ \A c \in ToSet(A), d \in ToSet(B) : <<c, d>> \in R
         => InOrder(A \o B, R)
  <2> HIDE DEF R
  <2> QED
    BY Concat
<1> QED
  BY <1>1

LEMMA JoinedAdds ==
  ASSUME NEW A \in Seq(Commands), NEW B \in Seq(Commands), NEW f
  PROVE  /\ A \o B \in Seq(Commands)
         /\ NoDel(A \o B, f) <=> NoDel(A, f) /\ NoDel(B, f)
         /\ Adds(A \o B, f) = Adds(A, f) \cup Adds(B, f)
         /\ Quiet(A \o B, f) <=> Quiet(A, f) /\ Quiet(B, f)
<1>1. A \o B \in Seq(Commands) /\ ToSet(A \o B) = ToSet(A) \cup ToSet(B)
  BY JoinedMembers
<1>2. Adds(A \o B, f) = Adds(A, f) \cup Adds(B, f)
  <2>1. /\ \A x : x \in Adds(A \o B, f) <=> \E c \in ToSet(A \o B) : IsAdd(c, f) /\ c.arg = x
        /\ \A x : x \in Adds(A, f) <=> \E c \in ToSet(A) : IsAdd(c, f) /\ c.arg = x
        /\ \A x : x \in Adds(B, f) <=> \E c \in ToSet(B) : IsAdd(c, f) /\ c.arg = x
    BY AddsIs
  <2> QED
    BY <1>1, <2>1
<1> QED
  BY <1>1, <1>2 DEF NoDel, Quiet

LEMMA FirstOfTwo ==
  ASSUME NEW T, NEW A \in Seq(T), NEW B \in Seq(T), A # <<>>
  PROVE  A \o B # <<>> /\ Head(A \o B) = Head(A) /\ Tail(A \o B) = Tail(A) \o B
<1>1. /\ Len(A) \in Nat \ {0} /\ Len(B) \in Nat /\ A \o B \in Seq(T) /\ Len(A \o B) = Len(A) + Len(B)
      /\ Tail(A) \in Seq(T) /\ Len(Tail(A)) = Len(A) - 1
      /\ \A i \in 1..Len(A) : (A \o B)[i] = A[i]
      /\ \A i \in 1..Len(B) : (A \o B)[Len(A) + i] = B[i]
  BY TwoLists
<1>2. Head(A \o B) = Head(A) /\ A \o B # <<>>
  BY <1>1
<1>3. /\ Tail(A \o B) \in Seq(T) /\ Len(Tail(A \o B)) = Len(A) + Len(B) - 1
      /\ Tail(A) \o B \in Seq(T) /\ Len(Tail(A) \o B) = Len(A) - 1 + Len(B)
  BY <1>1
<1>4. ASSUME NEW i \in 1..(Len(A) + Len(B) - 1) PROVE Tail(A \o B)[i] = (Tail(A) \o B)[i]
  <2>1. Tail(A \o B)[i] = (A \o B)[i + 1]
    BY <1>1, <1>3
  <2>2. CASE i <= Len(A) - 1
    BY <1>1, <2>1, <2>2
  <2>3. CASE ~(i <= Len(A) - 1)
    <3>1. i - (Len(A) - 1) \in 1..Len(B) /\ i + 1 = Len(A) + (i - (Len(A) - 1))
      BY <1>1, <2>3
    <3>2. (A \o B)[i + 1] = B[i - (Len(A) - 1)]
      BY <1>1, <3>1
    <3>3. (Tail(A) \o B)[(Len(A) - 1) + (i - (Len(A) - 1))] = B[i - (Len(A) - 1)]
      BY <1>1, <3>1, TwoLists
    <3> QED
      BY <1>1, <2>1, <3>2, <3>3
  <2> QED
    BY <2>2, <2>3
<1>5. Tail(A \o B) = Tail(A) \o B
  BY <1>1, <1>3, <1>4
<1> QED
  BY <1>2, <1>5

LEMMA Associative ==
  ASSUME NEW T, NEW A \in Seq(T), NEW B \in Seq(T), NEW C \in Seq(T)
  PROVE  A \o (B \o C) = (A \o B) \o C
OBVIOUS

LEMMA EmptyConcat ==
  ASSUME NEW T, NEW A \in Seq(T)
  PROVE  <<>> \o A = A /\ A \o <<>> = A
OBVIOUS

LEMMA LeadsConcat ==
  ASSUME NEW A \in Seq(Commands), NEW B \in Seq(Commands), NEW f, NEW X
  PROVE  /\ Leads(B, f, X) => Leads(A \o B, f, X)
         /\ Leads(A, f, X) /\ Quiet(B, f) => Leads(A \o B, f, X)
<1>1. ASSUME Leads(B, f, X) PROVE Leads(A \o B, f, X)
  <2>1. PICK P \in Seq(Commands), Q \in Seq(Commands) :
          /\ B = P \o Q /\ Q # <<>>
          /\ IsDel(Head(Q), f) /\ NoDel(Tail(Q), f) /\ Adds(Tail(Q), f) = X
    BY <1>1 DEF Leads
  <2>2. A \o P \in Seq(Commands)
    BY TwoLists
  <2>3. A \o (P \o Q) = (A \o P) \o Q
    BY Associative
  <2>4. A \o B = (A \o P) \o Q
    BY <2>1, <2>3
  <2> QED
    BY <2>1, <2>2, <2>4 DEF Leads
<1>2. ASSUME Leads(A, f, X), Quiet(B, f) PROVE Leads(A \o B, f, X)
  <2>1. PICK P \in Seq(Commands), Q \in Seq(Commands) :
          /\ A = P \o Q /\ Q # <<>>
          /\ IsDel(Head(Q), f) /\ NoDel(Tail(Q), f) /\ Adds(Tail(Q), f) = X
    BY <1>2 DEF Leads
  <2>2. A \o B = P \o (Q \o B) /\ Q \o B \in Seq(Commands)
    <3>1. Q \o B \in Seq(Commands)
      BY TwoLists
    <3>2. P \o (Q \o B) = (P \o Q) \o B
      BY Associative
    <3> QED
      BY <2>1, <3>1, <3>2
  <2>3. Q \o B # <<>> /\ Head(Q \o B) = Head(Q) /\ Tail(Q \o B) = Tail(Q) \o B
    BY <2>1, FirstOfTwo
  <2>4. Tail(Q) \in Seq(Commands)
    BY <2>1
  <2>5. NoDel(B, f) /\ Adds(B, f) = {}
    BY <1>2, QuietIs
  <2>6. NoDel(Tail(Q) \o B, f) /\ Adds(Tail(Q) \o B, f) = X
    <3>1. ASSUME NEW R \in Seq(Commands)
          PROVE  /\ NoDel(R, f) /\ NoDel(B, f) => NoDel(R \o B, f)
                 /\ Adds(R \o B, f) = Adds(R, f) \cup Adds(B, f)
      BY JoinedAdds
    <3> QED
      BY <2>1, <2>4, <2>5, <3>1
  <2>7. ASSUME NEW R, R = Q \o B PROVE Leads(P \o R, f, X)
    <3>1. R \in Seq(Commands) /\ R # <<>> /\ IsDel(Head(R), f) /\ Tail(R) = Tail(Q) \o B
      BY <2>1, <2>2, <2>3, <2>7
    <3>2. NoDel(Tail(R), f) /\ Adds(Tail(R), f) = X
      BY <2>6, <3>1
    <3> QED
      BY <3>1, <3>2 DEF Leads
  <2> QED
    BY <2>2, <2>7
<1> QED
  BY <1>1, <1>2

\* The first command of a list that leads to X: what is left leads to X, or adds X.
LEMMA LeadsStep ==
  ASSUME NEW list \in Seq(Commands), NEW f, NEW X, Leads(list, f, X)
  PROVE  /\ list # <<>>
         /\ \/ Leads(Tail(list), f, X)
            \/ IsDel(Head(list), f) /\ NoDel(Tail(list), f) /\ Adds(Tail(list), f) = X
<1>1. PICK A \in Seq(Commands), B \in Seq(Commands) :
        /\ list = A \o B /\ B # <<>>
        /\ IsDel(Head(B), f) /\ NoDel(Tail(B), f) /\ Adds(Tail(B), f) = X
  BY DEF Leads
<1>2. CASE A = <<>>
  <2>1. list = B
    BY <1>1, <1>2, EmptyConcat
  <2> QED
    BY <1>1, <2>1
<1>3. CASE A # <<>>
  <2>1. list # <<>> /\ Tail(list) = Tail(A) \o B /\ Tail(A) \in Seq(Commands)
    BY <1>1, <1>3, FirstOfTwo
  <2> QED
    BY <1>1, <2>1 DEF Leads
<1> QED
  BY <1>2, <1>3

\* Several lists, one after the other: the last one that leads to anything counts.
LEMMA LeadsAll ==
  ASSUME NEW seqs \in Seq(Seq(Commands)), NEW f, NEW K \in SUBSET DOMAIN seqs, NEW X,
         \A k \in DOMAIN seqs : IF k \in K THEN Leads(seqs[k], f, X[k]) ELSE Quiet(seqs[k], f)
  PROVE  /\ FlattenSeq(seqs) \in Seq(Commands)
         /\ K = {} => Quiet(FlattenSeq(seqs), f)
         /\ \A k \in K : (\A l \in K : l <= k) => Leads(FlattenSeq(seqs), f, X[k])
<1> DEFINE len == Len(seqs)
<1>0. len \in Nat /\ DOMAIN seqs = 1..len /\ \A i \in 1..len : seqs[i] \in Seq(Commands)
  OBVIOUS
<1>1. CASE len = 0
  <2>1. FlattenSeq(seqs) = <<>> /\ K = {}
    BY <1>1, <1>0 DEF FlattenSeq
  <2>2. \A e : e = <<>> => e \in Seq(Commands) /\ Quiet(e, f)
    BY EmptyOrder DEF Quiet
  <2> QED
    BY <2>1, <2>2
<1>2. CASE len # 0
  <2>2. PICK g : /\ g = [i \in 1..len |-> IF i = 1 THEN seqs[i] ELSE g[i - 1] \o seqs[i]]
                 /\ FlattenSeq(seqs) = g[len]
    BY <1>0, <1>2, FlattenDef
  <2>3. ASSUME NEW i \in 1..len PROVE g[i] = IF i = 1 THEN seqs[i] ELSE g[i - 1] \o seqs[i]
    BY <2>2
  <2> HIDE DEF len
  <2> DEFINE Latest(n, k) == k \in K /\ k \in 1..n /\ \A l \in K : l \in 1..n => l <= k
             Upto(n) == /\ g[n] \in Seq(Commands)
                        /\ (\A l \in K : l \notin 1..n) => Quiet(g[n], f)
                        /\ \A k : Latest(n, k) => Leads(g[n], f, X[k])
             Good == {n \in Nat : n \in 1..len => Upto(n)}
  <2>4. 0 \in Good
    OBVIOUS
  <2>5. ASSUME NEW n \in Nat, n \in Good PROVE n + 1 \in Good
    <3> SUFFICES ASSUME n + 1 \in 1..len PROVE Upto(n + 1)
      OBVIOUS
    <3>1. /\ seqs[n + 1] \in Seq(Commands)
          /\ n + 1 \in K => Leads(seqs[n + 1], f, X[n + 1])
          /\ n + 1 \notin K => Quiet(seqs[n + 1], f)
      BY <1>0
    <3>2. CASE n = 0
      <4>1. g[n + 1] = seqs[n + 1]
        BY <2>3, <3>2
      <4>2. 1..(n + 1) = {n + 1}
        BY <3>2
      <4> QED
        BY <3>1, <4>1, <4>2
    <3>3. CASE n # 0
      <4>1. Upto(n)
        BY <1>0, <2>5, <3>3
      <4>2. (n + 1) - 1 = n /\ n + 1 # 1
        BY <3>3
      <4>3. g[n + 1] = g[n] \o seqs[n + 1]
        BY <2>3, <4>2
      <4>4. 1..(n + 1) = 1..n \cup {n + 1}
        OBVIOUS
      <4>5. g[n + 1] \in Seq(Commands)
        BY <3>1, <4>1, <4>3, TwoLists
      <4>6. ASSUME \A l \in K : l \notin 1..(n + 1) PROVE Quiet(g[n + 1], f)
        <5>1. Quiet(g[n], f) /\ Quiet(seqs[n + 1], f)
          BY <3>1, <4>1, <4>4, <4>6
        <5> QED
          BY <3>1, <4>1, <4>3, <5>1, JoinedAdds
      <4>7. ASSUME NEW k, Latest(n + 1, k) PROVE Leads(g[n + 1], f, X[k])
        <5>1. CASE n + 1 \in K
          <6>1. n + 1 \in 1..(n + 1) /\ k \in 1..(n + 1)
            BY <4>7
          <6>2. n + 1 <= k
            BY <4>7, <5>1, <6>1
          <6>3. k = n + 1
            BY <6>1, <6>2
          <6> QED
            BY <3>1, <4>1, <4>3, <5>1, <6>3, LeadsConcat
        <5>2. CASE n + 1 \notin K
          <6>1. Latest(n, k)
            BY <4>4, <4>7, <5>2
          <6>2. Leads(g[n], f, X[k])
            BY <4>1, <6>1
          <6> QED
            BY <3>1, <4>1, <4>3, <5>2, <6>2, LeadsConcat
        <5> QED
          BY <5>1, <5>2
      <4> QED
        BY <4>5, <4>6, <4>7
    <3> QED
      BY <3>2, <3>3
  <2> HIDE DEF Good
  <2>6. Nat \subseteq Good
    BY <2>4, <2>5, Induction
  <2>7. len \in Good /\ len \in 1..len
    BY <1>0, <1>2, <2>6
  <2>8. Upto(len)
    BY <2>7 DEF Good
  <2>9. \A k \in K : (\A l \in K : l <= k) => Latest(len, k)
    BY <1>0 DEF len
  <2>10. K = {} => \A l \in K : l \notin 1..len
    OBVIOUS
  <2> QED
    BY <2>2, <2>8, <2>9, <2>10
<1> QED
  BY <1>1, <1>2

LEMMA Greatest ==
  ASSUME NEW n \in Nat, NEW S, S \subseteq 1..n, S # {}
  PROVE  Max(S) \in S /\ \A m \in S : m <= Max(S)
<1> DEFINE U == {n - x : x \in S}
<1>1. U \subseteq Nat /\ U # {}
  <2>1. \A x \in S : n - x \in Nat
    OBVIOUS
  <2> QED
    BY <2>1
<1>2. PICK u \in U : \A v \in U : u <= v
  <2> HIDE DEF U
  <2> QED
    BY <1>1, Least
<1>3. PICK x \in S : u = n - x
  BY <1>2
<1>4. \A y \in S : x >= y
  <2> SUFFICES ASSUME NEW y \in S PROVE x >= y
    OBVIOUS
  <2>1. n - y \in U /\ x \in Nat /\ y \in Nat
    OBVIOUS
  <2>2. n - x <= n - y
    BY <1>2, <1>3, <2>1
  <2> QED
    BY <2>1, <2>2
<1>5. \E z \in S : \A y \in S : z >= y
  BY <1>4
<1>6. Max(S) \in S /\ \A y \in S : Max(S) >= y
  BY <1>5 DEF Max
<1>7. \A y \in S : y \in Nat
  OBVIOUS
<1> QED
  BY <1>6, <1>7

\* What set_gateway() makes of one word.
GatewayWord(word) ==
  Cmd("delgw", GatewayFamily(word), "ignore")
  \o (IF IsRemove(word) THEN <<>> ELSE Cmd("addgw", word, "ignore"))

SomeGateway == Gateway4 \cup Gateway6 \cup {RemoveV4, RemoveV6}
Left(word)  == {word} \ {RemoveV4, RemoveV6}
About(words, f) == {n \in DOMAIN words : GatewayFamily(words[n]) = f}

LEMMA GatewayWordIs ==
  ASSUME NEW word \in SomeGateway, NEW f \in Family
  PROVE  LET list == GatewayWord(word)
         IN  /\ list \in Seq(Commands)
             /\ IF GatewayFamily(word) = f THEN Leads(list, f, Left(word)) ELSE Quiet(list, f)
<1> DEFINE g == GatewayFamily(word)
           A == Cmd("delgw", g, "ignore")
           B == Cmd("addgw", word, "ignore")
           C == IF IsRemove(word) THEN <<>> ELSE B
           a == [op |-> "delgw", arg |-> g, onError |-> "ignore"]
           b == [op |-> "addgw", arg |-> word, onError |-> "ignore"]
<1>1. g \in Family
  BY DEF GatewayFamily, Family
<1>2. A \in Seq(Commands) /\ A = <<a>> /\ a.op = "delgw" /\ a.arg = g /\ ToSet(A) = {a}
  <2>1. A \in Seq(Plain)
    BY <1>1, PlainCommands DEF OnError
  <2> QED
    BY <2>1, PlainIsNameFree, SingleOrder DEF Cmd
<1>3. ASSUME ~IsRemove(word)
      PROVE  /\ B \in Seq(Commands) /\ ToSet(B) = {b} /\ b.op = "addgw" /\ b.arg = word
             /\ FamilyOf(word) = g
  <2>1. word \in Gateway4 \cup Gateway6 /\ word # RemoveV6
    BY <1>3 DEF SomeGateway, IsRemove
  <2>2. B \in Seq(Plain)
    BY <2>1, PlainCommands DEF OnError
  <2>3. FamilyOf(word) = g
    BY <2>1 DEF FamilyOf, GatewayFamily
  <2> QED
    BY <2>2, <2>3, PlainIsNameFree, SingleOrder DEF Cmd
<1> HIDE DEF a, b, g, A, B
<1>4. /\ C \in Seq(Commands) /\ NoDel(C, f)
      /\ g = f => Adds(C, f) = Left(word)
      /\ g # f => Quiet(C, f)
  <2>1. CASE IsRemove(word)
    <3>1. C = <<>>
      BY <2>1
    <3> HIDE DEF C
    <3>2. C \in Seq(Commands) /\ ToSet(C) = {}
      BY <3>1, EmptyOrder
    <3>3. Adds(C, f) = {}
      BY <3>2 DEF Adds
    <3>4. Left(word) = {}
      BY <2>1 DEF Left, IsRemove
    <3> QED
      BY <3>2, <3>3, <3>4 DEF NoDel, Quiet
  <2>2. CASE ~IsRemove(word)
    <3>1. C \in Seq(Commands) /\ ToSet(C) = {b} /\ b.op = "addgw" /\ b.arg = word /\ FamilyOf(word) = g
      BY <1>3, <2>2
    <3> HIDE DEF C
    <3>2. Left(word) = {word}
      BY <2>2 DEF Left, IsRemove
    <3>3. NoDel(C, f)
      BY <3>1 DEF NoDel, IsDel
    <3>4. ASSUME g = f PROVE Adds(C, f) = {word}
      <4>1. \A x : x \in Adds(C, f) <=> \E c \in ToSet(C) : IsAdd(c, f) /\ c.arg = x
        BY AddsIs
      <4>2. IsAdd(b, f)
        BY <3>1, <3>4 DEF IsAdd
      <4> QED
        BY <3>1, <4>1, <4>2
    <3>5. g # f => Quiet(C, f)
      BY <3>1 DEF Quiet, IsDel, IsAdd
    <3> QED
      BY <3>1, <3>2, <3>3, <3>4, <3>5
  <2> QED
    BY <2>1, <2>2
<1> HIDE DEF C
<1>5. GatewayWord(word) = A \o C
  BY DEF GatewayWord, A, B, C, g
<1>6. ASSUME NEW list, list = A \o C
      PROVE  /\ list \in Seq(Commands)
             /\ IF g = f THEN Leads(list, f, Left(word)) ELSE Quiet(list, f)
  <2>1. list \in Seq(Commands) /\ ToSet(list) = {a} \cup ToSet(C)
    <3>1. A \in Seq(Commands) /\ C \in Seq(Commands) /\ ToSet(A) = {a}
      BY <1>2, <1>4
    <3>2. A \o C \in Seq(Commands) /\ ToSet(A \o C) = ToSet(A) \cup ToSet(C)
      BY <3>1, JoinedMembers
    <3>3. list \in Seq(Commands) /\ ToSet(list) = ToSet(A) \cup ToSet(C)
      BY <1>6, <3>2
    <3> QED
      BY <3>1, <3>3
  <2>2. ASSUME g = f PROVE Leads(list, f, Left(word))
    <3>1. list # <<>> /\ Head(list) = a /\ Tail(list) = C
      <4>0. ASSUME NEW c, NEW l, l = <<c>> PROVE l # <<>> /\ Head(l) = c /\ Tail(l) = <<>>
        BY <4>0
      <4>1. A # <<>> /\ Head(A) = a /\ Tail(A) = <<>>
        BY <1>2, <4>0
      <4>2. <<>> \o C = C
        BY <1>4, EmptyConcat
      <4>3. A \o C # <<>> /\ Head(A \o C) = Head(A) /\ Tail(A \o C) = Tail(A) \o C
        BY <1>2, <1>4, <4>1, FirstOfTwo
      <4>4. Tail(A) \o C = C
        BY <4>1, <4>2
      <4> QED
        BY <1>6, <4>1, <4>3, <4>4
    <3>2. IsDel(Head(list), f)
      BY <1>2, <2>2, <3>1 DEF IsDel
    <3>3. ASSUME NEW e, e = <<>> PROVE Leads(list, f, Left(word))
      <4>1. e \in Seq(Commands) /\ list = e \o list
        BY <2>1, <3>3, EmptyConcat
      <4>2. NoDel(Tail(list), f) /\ Adds(Tail(list), f) = Left(word)
        BY <1>4, <2>2, <3>1
      <4> QED
        BY <2>1, <3>1, <3>2, <4>1, <4>2 DEF Leads
    <3> QED
      BY <3>3
  <2>3. ASSUME g # f PROVE Quiet(list, f)
    <3>1. ~IsDel(a, f) /\ ~IsAdd(a, f)
      BY <1>2, <2>3 DEF IsDel, IsAdd
    <3> QED
      BY <1>4, <2>1, <2>3, <3>1 DEF Quiet
  <2> QED
    BY <2>1, <2>2, <2>3
<1> QED
  BY <1>5, <1>6 DEF g

\* The last word about a family decides what one --gateway leaves.
LEMMA GatewayList ==
  ASSUME NEW words \in Seq(SomeGateway), NEW f \in Family
  PROVE  /\ set_gateway(words) \in Seq(Commands)
         /\ About(words, f) = {} => Quiet(set_gateway(words), f)
         /\ About(words, f) # {} => Leads(set_gateway(words), f, Left(words[Max(About(words, f))]))
<1> DEFINE seqs == [k \in DOMAIN words |-> GatewayWord(words[k])]
           X == [k \in DOMAIN words |-> Left(words[k])]
           K == About(words, f)
<1>1. set_gateway(words) = FlattenSeq(seqs)
  BY DEF set_gateway, ForEach, GatewayWord
<1>2. /\ DOMAIN words = 1..Len(words) /\ Len(words) \in Nat
      /\ \A k \in DOMAIN words : words[k] \in SomeGateway
  <2> HIDE DEF SomeGateway
  <2> QED
    OBVIOUS
<1>3. DOMAIN seqs = DOMAIN words /\ K \subseteq DOMAIN words
  BY DEF About
<1>4. ASSUME NEW k \in DOMAIN words
      PROVE  /\ seqs[k] \in Seq(Commands)
             /\ IF k \in K THEN Leads(seqs[k], f, X[k]) ELSE Quiet(seqs[k], f)
  BY <1>2, GatewayWordIs DEF About
<1>5. seqs \in Seq(Seq(Commands))
  <2>1. seqs = [k \in 1..Len(words) |-> seqs[k]]
    BY <1>2
  <2> HIDE DEF seqs
  <2> QED
    BY <1>2, <1>3, <1>4, <2>1
<1>6. \A k \in K : X[k] = Left(words[k])
  BY <1>3
<1> HIDE DEF seqs, X, K
<1>7. /\ FlattenSeq(seqs) \in Seq(Commands)
      /\ K = {} => Quiet(FlattenSeq(seqs), f)
      /\ \A k \in K : (\A l \in K : l <= k) => Leads(FlattenSeq(seqs), f, X[k])
  BY <1>3, <1>4, <1>5, LeadsAll
<1>8. K # {} => Max(K) \in K /\ \A m \in K : m <= Max(K)
  BY <1>2, <1>3, Greatest
<1>9. K # {} => Leads(FlattenSeq(seqs), f, Left(words[Max(K)]))
  BY <1>6, <1>7, <1>8
<1> QED
  BY <1>1, <1>7, <1>9 DEF K

\* What the options for the gateways mean for a family.
Telling(f) ==
  {k \in DOMAIN opts["gateway"] : opts["gateway"][k] # <<RemoveV4>> /\ About(opts["gateway"][k], f) # {}}
LastWord(f) ==
  LET words == opts["gateway"][Max(Telling(f))] IN words[Max(About(words, f))]
GatewaysOf(f) ==
  IF Telling(f) # {} THEN Left(LastWord(f))
  ELSE IF f = 4 /\ <<RemoveV4>> \in ToSet(opts["gateway"]) THEN {}
  ELSE found.gw[f]

LEMMA GatewaysAre ==
  GatewaysAsAsked <=> (Smooth => \A f \in Family : win.gw[f] = GatewaysOf(f))
BY DEF GatewaysAsAsked, GatewaysOf, LastWord, Left, Telling, About

\* The first pass: the options that say "remove".
LEMMA PassOne ==
  ASSUME TypeOK, NEW f \in Family
  PROVE  LET records == opts["gateway"]
             list == FlattenSeq([k \in DOMAIN records |->
                       IF records[k] = <<RemoveV4>> THEN set_gateway(records[k]) ELSE <<>>])
         IN  /\ list \in Seq(Commands)
             /\ IF f = 4 /\ <<RemoveV4>> \in ToSet(records) THEN Leads(list, f, {}) ELSE Quiet(list, f)
<1> DEFINE records == opts["gateway"]
           seqs == [k \in DOMAIN records |->
                      IF records[k] = <<RemoveV4>> THEN set_gateway(records[k]) ELSE <<>>]
           K == IF f = 4 THEN {k \in DOMAIN records : records[k] = <<RemoveV4>>} ELSE {}
           X == [k \in DOMAIN records |-> {}]
<1>1. /\ DOMAIN records = 1..Len(records) /\ Len(records) \in Nat
      /\ \A k \in DOMAIN records : records[k] \in Seq(SomeGateway)
  BY KindType DEF TypeOK, IsLine, SomeGateway
<1>2. ASSUME NEW r, r = <<RemoveV4>>
      PROVE  /\ set_gateway(r) \in Seq(Commands)
             /\ IF f = 4 THEN Leads(set_gateway(r), f, {}) ELSE Quiet(set_gateway(r), f)
  <2>1. r \in Seq(SomeGateway) /\ DOMAIN r = {1} /\ r[1] = RemoveV4
    BY <1>2 DEF SomeGateway
  <2>2. GatewayFamily(RemoveV4) = 4
    BY AddressesAssumption DEF GatewayFamily, IsV6
  <2>3. About(r, f) = IF f = 4 THEN {1} ELSE {}
    BY <2>1, <2>2 DEF About
  <2>4. ASSUME f = 4 PROVE Left(r[Max(About(r, f))]) = {}
    <3>1. Max(About(r, f)) \in About(r, f)
      BY <2>3, <2>4, Greatest
    <3>2. r[Max(About(r, f))] = RemoveV4
      BY <2>1, <2>3, <2>4, <3>1
    <3> QED
      BY <3>2 DEF Left
  <2> QED
    BY <2>1, <2>3, <2>4, GatewayList
<1>3. DOMAIN seqs = DOMAIN records /\ K \subseteq DOMAIN records
  OBVIOUS
<1>4. ASSUME NEW k \in DOMAIN records
      PROVE  /\ seqs[k] \in Seq(Commands)
             /\ IF k \in K THEN Leads(seqs[k], f, X[k]) ELSE Quiet(seqs[k], f)
  <2>1. CASE records[k] = <<RemoveV4>>
    BY <1>2, <2>1
  <2>2. CASE records[k] # <<RemoveV4>>
    <3>1. seqs[k] = <<>> /\ k \notin K
      BY <2>2
    <3> HIDE DEF seqs, K, records
    <3>2. seqs[k] \in Seq(Commands) /\ Quiet(seqs[k], f)
      BY <3>1, EmptyOrder DEF Quiet
    <3> QED
      BY <3>1, <3>2
  <2> QED
    BY <2>1, <2>2
<1>5. seqs \in Seq(Seq(Commands))
  <2>1. seqs = [k \in 1..Len(records) |-> seqs[k]]
    BY <1>1
  <2> HIDE DEF seqs, records
  <2> QED
    BY <1>1, <1>3, <1>4, <2>1
<1>6. \A k \in K : X[k] = {}
  BY <1>3
<1>7. IF f = 4 /\ <<RemoveV4>> \in ToSet(records) THEN K # {} ELSE K = {}
  BY DEF ToSet
<1> HIDE DEF seqs, X, K, records
<1>8. /\ FlattenSeq(seqs) \in Seq(Commands)
      /\ K = {} => Quiet(FlattenSeq(seqs), f)
      /\ \A k \in K : (\A l \in K : l <= k) => Leads(FlattenSeq(seqs), f, X[k])
  BY <1>3, <1>4, <1>5, LeadsAll
<1>9. K # {} => Max(K) \in K /\ \A m \in K : m <= Max(K)
  BY <1>1, <1>3, Greatest
<1>10. K # {} => Leads(FlattenSeq(seqs), f, {})
  BY <1>6, <1>8, <1>9
<1> QED
  BY <1>7, <1>8, <1>10 DEF seqs, records

\* The second pass: the other options, the last of them that tells of the family.
LEMMA PassTwo ==
  ASSUME TypeOK, NEW f \in Family
  PROVE  LET records == opts["gateway"]
             list == FlattenSeq([k \in DOMAIN records |->
                       IF records[k] = <<RemoveV4>> THEN <<>> ELSE set_gateway(records[k])])
         IN  /\ list \in Seq(Commands)
             /\ IF Telling(f) # {} THEN Leads(list, f, Left(LastWord(f))) ELSE Quiet(list, f)
<1> DEFINE records == opts["gateway"]
           seqs == [k \in DOMAIN records |->
                      IF records[k] = <<RemoveV4>> THEN <<>> ELSE set_gateway(records[k])]
           K == Telling(f)
           X == [k \in DOMAIN records |-> Left(records[k][Max(About(records[k], f))])]
<1>1. /\ DOMAIN records = 1..Len(records) /\ Len(records) \in Nat
      /\ \A k \in DOMAIN records : records[k] \in Seq(SomeGateway)
  BY KindType DEF TypeOK, IsLine, SomeGateway
<1>3. DOMAIN seqs = DOMAIN records /\ K \subseteq DOMAIN records
  BY DEF Telling
<1>4. ASSUME NEW k \in DOMAIN records
      PROVE  /\ seqs[k] \in Seq(Commands)
             /\ IF k \in K THEN Leads(seqs[k], f, X[k]) ELSE Quiet(seqs[k], f)
  <2>1. CASE records[k] = <<RemoveV4>>
    <3>1. seqs[k] = <<>> /\ k \notin K
      BY <2>1 DEF Telling
    <3> HIDE DEF seqs, K, records
    <3>2. seqs[k] \in Seq(Commands) /\ Quiet(seqs[k], f)
      BY <3>1, EmptyOrder DEF Quiet
    <3> QED
      BY <3>1, <3>2
  <2>2. CASE records[k] # <<RemoveV4>>
    <3>1. seqs[k] = set_gateway(records[k]) /\ (k \in K <=> About(records[k], f) # {})
      BY <2>2 DEF Telling
    <3>2. X[k] = Left(records[k][Max(About(records[k], f))])
      OBVIOUS
    <3> HIDE DEF seqs, K, X, records
    <3> QED
      BY <1>1, <3>1, <3>2, GatewayList
  <2> QED
    BY <2>1, <2>2
<1>5. seqs \in Seq(Seq(Commands))
  <2>1. seqs = [k \in 1..Len(records) |-> seqs[k]]
    BY <1>1
  <2> HIDE DEF seqs, records
  <2> QED
    BY <1>1, <1>3, <1>4, <2>1
<1>6. \A k \in K : X[k] = Left(records[k][Max(About(records[k], f))])
  BY <1>3
<1> HIDE DEF seqs, X, K, records
<1>8. /\ FlattenSeq(seqs) \in Seq(Commands)
      /\ K = {} => Quiet(FlattenSeq(seqs), f)
      /\ \A k \in K : (\A l \in K : l <= k) => Leads(FlattenSeq(seqs), f, X[k])
  BY <1>3, <1>4, <1>5, LeadsAll
<1>9. K # {} => Max(K) \in K /\ \A m \in K : m <= Max(K)
  BY <1>1, <1>3, Greatest
<1>10. K # {} => Leads(FlattenSeq(seqs), f, X[Max(K)])
  BY <1>8, <1>9
<1>11. K # {} => X[Max(K)] = Left(LastWord(f))
  BY <1>6, <1>9 DEF LastWord, K, records
<1> QED
  BY <1>8, <1>10, <1>11 DEF seqs, records, K

\* The two passes lead to what the options mean.
LEMMA GatewaysLead ==
  ASSUME TypeOK, NEW f \in Family
  PROVE  Leads(Gateways, f, GatewaysOf(f)) \/ (Quiet(Gateways, f) /\ GatewaysOf(f) = found.gw[f])
<1> DEFINE records == opts["gateway"]
           A == FlattenSeq([k \in DOMAIN records |->
                  IF records[k] = <<RemoveV4>> THEN set_gateway(records[k]) ELSE <<>>])
           B == FlattenSeq([k \in DOMAIN records |->
                  IF records[k] = <<RemoveV4>> THEN <<>> ELSE set_gateway(records[k])])
<1>1. Gateways = A \o B
  BY DEF Gateways, ForEach
<1>2. A \in Seq(Commands)
      /\ IF f = 4 /\ <<RemoveV4>> \in ToSet(records) THEN Leads(A, f, {}) ELSE Quiet(A, f)
  BY PassOne
<1>3. B \in Seq(Commands) /\ IF Telling(f) # {} THEN Leads(B, f, Left(LastWord(f))) ELSE Quiet(B, f)
  BY PassTwo
<1> HIDE DEF A, B
<1>4. CASE Telling(f) # {}
  BY <1>1, <1>2, <1>3, <1>4, LeadsConcat DEF GatewaysOf
<1>5. CASE Telling(f) = {} /\ f = 4 /\ <<RemoveV4>> \in ToSet(records)
  BY <1>1, <1>2, <1>3, <1>5, LeadsConcat DEF GatewaysOf
<1>6. CASE Telling(f) = {} /\ ~(f = 4 /\ <<RemoveV4>> \in ToSet(records))
  BY <1>1, <1>2, <1>3, <1>6, JoinedAdds DEF GatewaysOf
<1> QED
  BY <1>4, <1>5, <1>6

-----------------------------------------------------------------------------
(* The commands that are left are those of the present handler. *)

KindInv == \A c \in ToSet(todo) : phase \in 2..8 /\ OfKind(c, all_flags[phase - 1])

\* What may be left when a command has failed.
LEMMA RestMembers ==
  ASSUME TypeOK, todo # <<>>, NEW negative, CommandFails(negative)
  PROVE  ToSet(todo') \subseteq ToSet(todo) /\ opts' = opts /\ found' = found /\ phase' = phase
<1> DEFINE ends == Head(todo).onError = "return" \/ (Head(todo).onError = "negative" /\ negative)
<1>1. todo' \in Rest(ends) /\ opts' = opts /\ found' = found /\ phase' = phase
  BY DEF CommandFails
<1>2. todo \in Seq(Commands)
  BY DEF TypeOK
<1> HIDE DEF ends
<1>3. CASE todo' = <<>>
  BY <1>1, <1>3, EmptyOrder
<1>4. CASE todo' = Tail(todo)
  <2>1. FirstOf(todo, Head(todo), Tail(todo))
    BY <1>2, SplitList
  <2> QED
    BY <1>1, <1>4, <2>1 DEF FirstOf
<1>5. CASE todo' # <<>> /\ todo' # Tail(todo)
  <2>1. PICK n \in DOMAIN todo : todo' = SubSeq(todo, n + 1, Len(todo))
    BY <1>1, <1>5 DEF Rest
  <2>2. /\ todo' \in Seq(Commands) /\ DOMAIN todo' = 1..(Len(todo) - n)
        /\ \A i \in 1..(Len(todo) - n) : todo'[i] = todo[n + i] /\ n + i \in 1..Len(todo)
    BY <1>2, <2>1, BehindPlace
  <2>3. ASSUME NEW i \in 1..(Len(todo) - n) PROVE todo'[i] \in ToSet(todo)
    <3>1. todo'[i] = todo[n + i] /\ n + i \in 1..Len(todo)
      BY <2>2
    <3> QED
      BY <1>2, <3>1, Members
  <2>4. ToSet(todo') = {todo'[i] : i \in 1..(Len(todo) - n)}
    BY <2>2 DEF ToSet
  <2> QED
    BY <1>1, <2>3, <2>4
<1> QED
  BY <1>3, <1>4, <1>5

LEMMA KeptKind ==
  ASSUME KindInv, ToSet(todo') \subseteq ToSet(todo), opts' = opts, phase' = phase
  PROVE  KindInv'
<1>1. ASSUME NEW c, NEW kind, OfKind(c, kind) PROVE OfKind(c, kind)'
  BY <1>1 DEF OfKind, FromDhcp, BadName, Words, Given
<1>2. \A c \in ToSet(todo') : phase \in 2..8 /\ OfKind(c, all_flags[phase - 1])
  BY DEF KindInv
<1>3. \A c \in ToSet(todo') : phase' \in 2..8 /\ OfKind(c, all_flags[phase - 1])'
  BY <1>1, <1>2
<1> QED
  BY <1>3 DEF KindInv, ToSet, all_flags

LEMMA KindNext ==
  ASSUME TypeOK, KindInv, [Next]_vars
  PROVE  KindInv'
<1>1. ASSUME todo' = <<>> PROVE KindInv'
  <2>1. ToSet(todo') = {}
    BY <1>1, EmptyOrder
  <2> QED
    BY <2>1 DEF KindInv, ToSet
<1>2. CASE Start
  BY <1>1, <1>2 DEF Start, TypeOK
<1>3. CASE CallHandler
  <2>1. PICK n \in 1..7 : /\ phase = n /\ todo' = Handler(all_flags[n]) /\ phase' = n + 1
                          /\ opts' = opts
    BY <1>3, LenFlags DEF CallHandler
  <2>2. \A c \in ToSet(todo') : OfKind(c, all_flags[n])
    BY <2>1, KindCommands, LenFlags
  <2>3. ASSUME NEW c, NEW kind, OfKind(c, kind) PROVE OfKind(c, kind)'
    BY <2>1, <2>3 DEF OfKind, FromDhcp, BadName, Words, Given
  <2>4. \A c \in ToSet(todo') : OfKind(c, all_flags[n])'
    BY <2>2, <2>3
  <2>5. phase' \in 2..8 /\ phase' - 1 = n
    BY <2>1
  <2> QED
    BY <2>4, <2>5 DEF KindInv, ToSet, all_flags
<1>4. CASE Command
  <2>1. todo # <<>> /\ todo' = Tail(todo) /\ opts' = opts /\ phase' = phase /\ todo \in Seq(Commands)
    BY <1>4 DEF Command, TypeOK
  <2>2. ToSet(todo') \subseteq ToSet(todo)
    BY <2>1, SplitList DEF FirstOf
  <2> QED
    BY <2>1, <2>2, KeptKind
<1>5. CASE Refusal
  BY <1>5, RestMembers, KeptKind DEF Refusal
<1>6. ASSUME NEW kind \in {"exit", "crash"}, Failure(kind) PROVE KindInv'
  <2>1. todo # <<>> /\ CommandFails(kind = "crash")
    BY <1>6 DEF Failure
  <2> QED
    BY <2>1, RestMembers, KeptKind
<1>7. CASE Finish
  BY <1>1, <1>7 DEF Finish
<1>8. CASE Kill
  BY <1>1, <1>8 DEF Kill
<1>9. CASE UNCHANGED vars
  <2>1. ToSet(todo') = ToSet(todo) /\ opts' = opts /\ phase' = phase
    BY <1>9 DEF vars
  <2> QED
    BY <2>1, KeptKind
<1> QED
  BY <1>2, <1>3, <1>4, <1>5, <1>6, <1>7, <1>8, <1>9 DEF Next

LEMMA KindInvHolds == Spec => []KindInv
<1>1. Init => KindInv
  <2> SUFFICES ASSUME Init PROVE KindInv
    OBVIOUS
  <2>1. ToSet(todo) = {}
    BY EmptyOrder DEF Init
  <2> QED
    BY <2>1 DEF KindInv
<1>2. TypeOK /\ KindInv /\ [Next]_vars => KindInv'
  BY KindNext
<1> QED
  BY <1>1, <1>2, TypeCorrect, PTL DEF Spec

-----------------------------------------------------------------------------
(* The gateways. *)

\* What is left to do leads to the gateways X, or adds what of them is not there yet.
GatewaySteps(list, w, f, X) ==
  Leads(list, f, X) \/ (NoDel(list, f) /\ w.gw[f] \cup Adds(list, f) = X)

GatewayEffect(w, c, w2, f) ==
  w2.gw[f] = IF IsDel(c, f) THEN {} ELSE IF IsAdd(c, f) THEN w.gw[f] \cup {c.arg} ELSE w.gw[f]

LEMMA GatewayStep ==
  ASSUME NEW list \in Seq(Commands), list # <<>>, NEW f, NEW X, NEW w, NEW w2,
         GatewayEffect(w, Head(list), w2, f), GatewaySteps(list, w, f, X)
  PROVE  GatewaySteps(Tail(list), w2, f, X)
<1> DEFINE c == Head(list)
           rest == Tail(list)
<1>1. FirstOf(list, c, rest)
  BY SplitList
<1>2. CASE Leads(list, f, X)
  <2>1. Leads(rest, f, X) \/ (IsDel(c, f) /\ NoDel(rest, f) /\ Adds(rest, f) = X)
    BY <1>2, LeadsStep
  <2> QED
    BY <2>1 DEF GatewaySteps, GatewayEffect
<1>3. CASE NoDel(list, f) /\ w.gw[f] \cup Adds(list, f) = X
  <2> HIDE DEF c, rest
  <2>1. ~IsDel(c, f) /\ NoDel(rest, f)
    BY <1>1, <1>3 DEF FirstOf, NoDel
  <2>2. /\ \A x : x \in Adds(list, f) <=> \E d \in ToSet(list) : IsAdd(d, f) /\ d.arg = x
        /\ \A x : x \in Adds(rest, f) <=> \E d \in ToSet(rest) : IsAdd(d, f) /\ d.arg = x
    BY AddsIs
  <2>3. ToSet(list) = {c} \cup ToSet(rest)
    BY <1>1 DEF FirstOf
  <2>4. Adds(list, f) = Adds(rest, f) \cup (IF IsAdd(c, f) THEN {c.arg} ELSE {})
    BY <2>2, <2>3
  <2>5. w2.gw[f] = IF IsAdd(c, f) THEN w.gw[f] \cup {c.arg} ELSE w.gw[f]
    BY <2>1 DEF GatewayEffect, c
  <2>6. w2.gw[f] \cup Adds(rest, f) = w.gw[f] \cup Adds(list, f)
    BY <2>4, <2>5
  <2> QED
    BY <1>3, <2>1, <2>6 DEF GatewaySteps, rest
<1> QED
  BY <1>2, <1>3 DEF GatewaySteps

LEMMA GatewayEffectIs ==
  ASSUME NEW w \in System, NEW c \in Commands, NEW f \in Family
  PROVE  GatewayEffect(w, c, Effect(w, c), f)
<1> DEFINE w2 == Effect(w, c)
<1> USE DEF System
<1>1. w.gw \in [Family -> SUBSET (Gateway4 \cup Gateway6)]
  OBVIOUS
<1>2. CASE c.op = "delgw"
  <2>1. w2.gw = [w.gw EXCEPT ![c.arg] = {}]
    BY <1>2 DEF Effect
  <2> QED
    BY <1>1, <1>2, <2>1 DEF GatewayEffect, IsDel, IsAdd
<1>3. CASE c.op = "addgw"
  <2>1. w2.gw = [w.gw EXCEPT ![FamilyOf(c.arg)] = @ \cup {c.arg}]
    BY <1>3 DEF Effect
  <2> QED
    BY <1>1, <1>3, <2>1 DEF GatewayEffect, IsDel, IsAdd
<1>4. CASE c.op \notin {"delgw", "addgw"}
  <2>1. w2.gw = w.gw
    BY <1>4 DEF Effect
  <2> QED
    BY <1>4, <2>1 DEF GatewayEffect, IsDel, IsAdd
<1> QED
  BY <1>2, <1>3, <1>4

\* A list that has nothing to do with the gateways.
LEMMA QuietSteps ==
  ASSUME NEW list \in Seq(Commands), NEW f, NEW X, Quiet(list, f)
  PROVE  \A w : GatewaySteps(list, w, f, X) <=> w.gw[f] = X
<1>1. ~Leads(list, f, X)
  <2> SUFFICES ASSUME Leads(list, f, X) PROVE FALSE
    OBVIOUS
  <2>1. PICK A \in Seq(Commands), B \in Seq(Commands) : list = A \o B /\ B # <<>> /\ IsDel(Head(B), f)
    BY DEF Leads
  <2>2. Head(B) \in ToSet(B) /\ ToSet(B) \subseteq ToSet(list)
    BY <2>1, Concat, SplitList DEF FirstOf
  <2> QED
    BY <2>1, <2>2 DEF Quiet
<1>2. NoDel(list, f) /\ Adds(list, f) = {}
  BY QuietIs
<1> QED
  BY <1>1, <1>2 DEF GatewaySteps

NoGateways(list) == \A c \in ToSet(list) : c.op \notin {"delgw", "addgw"}

GatewayInv ==
  failures = {} =>
    /\ phase \in 1..3 => win.gw = found.gw
    /\ phase \notin 1..3 => \A f \in Family : GatewaySteps(todo, win, f, GatewaysOf(f))

LEMMA NowGateways ==
  ASSUME opts' = opts, found' = found,
         failures' = {} =>
           /\ phase' \in 1..3 => win'.gw = found.gw
           /\ phase' \notin 1..3 => \A f \in Family : GatewaySteps(todo', win', f, GatewaysOf(f))
  PROVE  GatewayInv'
<1>1. ASSUME NEW f PROVE GatewaysOf(f)' = GatewaysOf(f)
  <2>1. Telling(f)' = Telling(f)
    BY DEF Telling, About, GatewayFamily, IsV6
  <2>2. LastWord(f)' = LastWord(f)
    BY <2>1 DEF LastWord, About, GatewayFamily, IsV6
  <2>3. (<<RemoveV4>> \in ToSet(opts["gateway"]))' <=> <<RemoveV4>> \in ToSet(opts["gateway"])
    BY DEF ToSet
  <2> QED
    BY <2>1, <2>2, <2>3 DEF GatewaysOf, Left
<1>2. ASSUME NEW f, GatewaySteps(todo', win', f, GatewaysOf(f))
      PROVE  GatewaySteps(todo, win, f, GatewaysOf(f))'
  <2>1. ASSUME NEW X, Leads(todo', f, X) PROVE Leads(todo, f, X)'
    BY <2>1 DEF Leads
  <2>2. ASSUME NEW X, NoDel(todo', f) /\ win'.gw[f] \cup Adds(todo', f) = X
        PROVE  (NoDel(todo, f) /\ win.gw[f] \cup Adds(todo, f) = X)'
    BY <2>2 DEF NoDel, Adds, ToSet
  <2> QED
    BY <1>1, <1>2, <2>1, <2>2 DEF GatewaySteps
<1>3. ASSUME failures' = {}, phase' \notin 1..3, NEW f \in Family
      PROVE  GatewaySteps(todo, win, f, GatewaysOf(f))'
  BY <1>2, <1>3
<1>4. failures' = {} /\ phase' \in 1..3 => win'.gw = found'.gw
  OBVIOUS
<1> QED
  BY <1>3, <1>4 DEF GatewayInv, Family

LEMMA Places ==
  /\ all_flags[1] = "dhcp" /\ all_flags[2] = "ip" /\ all_flags[3] = "gateway"
  /\ all_flags[4] = "search" /\ all_flags[5] = "dns" /\ all_flags[6] = "route"
  /\ all_flags[7] = "hostname"
BY DEF all_flags

\* Only the handler of the gateways touches them.
LEMMA KindHere ==
  ASSUME KindInv, NEW c \in ToSet(todo)
  PROVE  /\ phase \in 2..8 /\ OfKind(c, all_flags[phase - 1])
         /\ phase = 4 => c.onError = "ignore"
         /\ phase # 4 => c.op \notin {"delgw", "addgw"}
         /\ phase = 2 => c.op \in {"dns", "dhcp4", "del6", "unchanged"} /\ FromDhcp(c)
         /\ phase = 3 => /\ c.op \in {"set4", "add4", "del6", "put6", "wrong", "dns", "dhcp4"}
                         /\ FromDhcp(c)
         /\ phase = 5 => c.op = "search"
         /\ phase = 6 => c.op \in {"dns", "adddns"} /\ c.onError = "negative"
         /\ phase = 7 => c.op \in {"delroute", "addroute"} /\ c.onError = "ignore"
         /\ phase = 8 => /\ c.op \in {"host", "wrong", "domain", "convert", "computer"}
                         /\ c.op = "wrong" => BadName
                         /\ Given("hostname")
<1>1. phase \in 2..8 /\ OfKind(c, all_flags[phase - 1])
  BY DEF KindInv
<1>2. CASE phase = 2
  <2>1. OfKind(c, "dhcp")
    BY <1>1, <1>2, Places
  <2>2. c.op \in {"dns", "dhcp4", "del6", "unchanged"} /\ FromDhcp(c)
    BY <2>1 DEF OfKind
  <2> QED
    BY <1>1, <1>2, <2>2
<1>3. CASE phase = 3
  <2>1. OfKind(c, "ip")
    BY <1>1, <1>3, Places
  <2>2. c.op \in {"set4", "add4", "del6", "put6", "wrong", "dns", "dhcp4"} /\ FromDhcp(c)
    BY <2>1 DEF OfKind
  <2> QED
    BY <1>1, <1>3, <2>2
<1>4. CASE phase = 4
  <2>1. OfKind(c, "gateway")
    BY <1>1, <1>4, Places
  <2>2. c.onError = "ignore"
    BY <2>1 DEF OfKind
  <2> QED
    BY <1>1, <1>4, <2>2
<1>5. CASE phase = 5
  <2>1. OfKind(c, "search")
    BY <1>1, <1>5, Places
  <2>2. c.op = "search"
    BY <2>1 DEF OfKind
  <2> QED
    BY <1>1, <1>5, <2>2
<1>6. CASE phase = 6
  <2>1. OfKind(c, "dns")
    BY <1>1, <1>6, Places
  <2>2. c.op \in {"dns", "adddns"} /\ c.onError = "negative"
    BY <2>1 DEF OfKind
  <2> QED
    BY <1>1, <1>6, <2>2
<1>7. CASE phase = 7
  <2>1. OfKind(c, "route")
    BY <1>1, <1>7, Places
  <2>2. c.op \in {"delroute", "addroute"} /\ c.onError = "ignore"
    BY <2>1 DEF OfKind
  <2> QED
    BY <1>1, <1>7, <2>2
<1>8. CASE phase = 8
  <2>1. OfKind(c, "hostname")
    BY <1>1, <1>8, Places
  <2>2. /\ c.op \in {"host", "wrong", "domain", "convert", "computer"}
        /\ c.op = "wrong" => BadName
        /\ Given("hostname")
    BY <2>1 DEF OfKind
  <2> QED
    BY <1>1, <1>8, <2>2
<1> QED
  BY <1>1, <1>2, <1>3, <1>4, <1>5, <1>6, <1>7, <1>8

\* The next command.
LEMMA KindAtWork ==
  ASSUME TypeOK, KindInv, todo # <<>>
  PROVE  /\ todo \in Seq(Commands) /\ Head(todo) \in Commands /\ win \in System
         /\ Head(todo) \in ToSet(todo) /\ phase \in 2..8
<1>1. todo \in Seq(Commands) /\ win \in System
  BY DEF TypeOK
<1>2. FirstOf(todo, Head(todo), Tail(todo))
  BY <1>1, SplitList
<1>3. Head(todo) \in ToSet(todo) /\ Head(todo) \in Commands
  BY <1>2 DEF FirstOf
<1> QED
  BY <1>1, <1>3, KindHere

LEMMA EmptySteps ==
  ASSUME NEW list, list = <<>>, NEW f, NEW X
  PROVE  \A w : GatewaySteps(list, w, f, X) <=> w.gw[f] = X
<1>1. list \in Seq(Commands) /\ ToSet(list) = {}
  BY EmptyOrder
<1>2. Quiet(list, f)
  BY <1>1 DEF Quiet
<1>3. ASSUME NEW l, l \in Seq(Commands), Quiet(l, f)
      PROVE  \A w : GatewaySteps(l, w, f, X) <=> w.gw[f] = X
  BY <1>3, QuietSteps
<1> QED
  BY <1>1, <1>2, <1>3

LEMMA StartGateways ==
  ASSUME Start
  PROVE  GatewayInv'
<1>1. phase' \in 1..3 /\ win'.gw = found'.gw
  BY DEF Start
<1> QED
  BY <1>1 DEF GatewayInv

LEMMA CallGateways ==
  ASSUME TypeOK, GatewayInv, CallHandler
  PROVE  GatewayInv'
<1>1. PICK n \in 1..7 :
        /\ phase = n /\ todo = <<>> /\ todo' = Handler(all_flags[n]) /\ phase' = n + 1
        /\ opts' = opts /\ found' = found /\ win' = win /\ failures' = failures
  BY LenFlags DEF CallHandler
<1>2. todo' \in Seq(Commands) /\ \A c \in ToSet(todo') : OfKind(c, all_flags[n])
  BY <1>1, HandlerType, KindCommands, LenFlags
<1> SUFFICES ASSUME failures = {}
             PROVE  /\ n + 1 \in 1..3 => win.gw = found.gw
                    /\ n + 1 \notin 1..3 =>
                         \A f \in Family : GatewaySteps(todo', win, f, GatewaysOf(f))
  <2> HIDE DEF GatewayInv
  <2> QED
    BY <1>1, NowGateways
<1>3. CASE n \in 1..2
  BY <1>1, <1>3 DEF GatewayInv
<1>4. CASE n = 3
  <2>1. win.gw = found.gw
    BY <1>1, <1>4 DEF GatewayInv
  <2>2. ASSUME NEW f \in Family PROVE GatewaySteps(todo', win, f, GatewaysOf(f))
    <3>1. CASE Given("gateway")
      <4>1. todo' = Gateways
        BY <1>1, <1>4, <3>1, Places DEF Handler
      <4>2. CASE Leads(Gateways, f, GatewaysOf(f))
        BY <4>1, <4>2 DEF GatewaySteps
      <4>3. CASE Quiet(Gateways, f) /\ GatewaysOf(f) = found.gw[f]
        BY <1>2, <2>1, <4>1, <4>3, QuietSteps
      <4> QED
        BY <4>2, <4>3, GatewaysLead
    <3>2. CASE ~Given("gateway")
      <4>1. todo' = <<>> /\ opts["gateway"] = <<>>
        BY <1>1, <1>4, <3>2, Places DEF Handler, Given
      <4>2. Telling(f) = {} /\ <<RemoveV4>> \notin ToSet(opts["gateway"])
        BY <4>1 DEF Telling, ToSet
      <4>3. GatewaysOf(f) = found.gw[f]
        BY <4>2 DEF GatewaysOf
      <4> QED
        BY <2>1, <4>1, <4>3, EmptySteps
    <3> QED
      BY <3>1, <3>2
  <2> QED
    BY <1>4, <2>2
<1>5. CASE n \in 4..7
  <2>1. \A f \in Family : GatewaySteps(todo, win, f, GatewaysOf(f))
    BY <1>1, <1>5 DEF GatewayInv
  <2>2. \A c \in ToSet(todo') : c.op \notin {"delgw", "addgw"}
    <3>1. all_flags[n] \in {"search", "dns", "route", "hostname"}
      BY <1>5, Places
    <3> HIDE DEF all_flags
    <3>2. ASSUME NEW c, NEW kind \in {"search", "dns", "route", "hostname"}, OfKind(c, kind)
          PROVE  c.op \notin {"delgw", "addgw"}
      BY <3>2 DEF OfKind
    <3> QED
      BY <1>2, <3>1, <3>2
  <2>3. ASSUME NEW f \in Family PROVE GatewaySteps(todo', win, f, GatewaysOf(f))
    <3>1. win.gw[f] = GatewaysOf(f)
      BY <1>1, <2>1, EmptySteps
    <3>2. Quiet(todo', f)
      BY <2>2 DEF Quiet, IsDel, IsAdd
    <3> QED
      BY <1>2, <3>1, <3>2, QuietSteps
  <2> QED
    BY <1>5, <2>3
<1> QED
  BY <1>3, <1>4, <1>5

\* A command that is carried out, or refused without leaving a trace.
LEMMA StepGateways ==
  ASSUME TypeOK, KindInv, GatewayInv, todo # <<>>, todo' = Tail(todo),
         phase' = phase, opts' = opts, found' = found, failures' = failures,
         \A f \in Family : GatewayEffect(win, Head(todo), win', f),
         phase # 4 => win'.gw = win.gw
  PROVE  GatewayInv'
<1>1. failures = {} /\ phase \in 1..3 => win'.gw = found.gw
  BY DEF GatewayInv
<1>2. ASSUME failures = {}, phase \notin 1..3, NEW f \in Family
      PROVE  GatewaySteps(todo', win', f, GatewaysOf(f))
  <2>1. GatewaySteps(todo, win, f, GatewaysOf(f))
    BY <1>2 DEF GatewayInv
  <2>2. GatewayEffect(win, Head(todo), win', f) /\ todo \in Seq(Commands)
    BY DEF TypeOK
  <2> QED
    BY <2>1, <2>2, GatewayStep
<1> QED
  BY <1>1, <1>2, NowGateways

\* Where nothing concerns the gateways, nothing of it may be dropped either.
LEMMA DropGateways ==
  ASSUME TypeOK, KindInv, GatewayInv, phase # 4,
         todo' \in Seq(Commands), ToSet(todo') \subseteq ToSet(todo),
         phase' = phase, opts' = opts, found' = found, failures' = failures, win' = win
  PROVE  GatewayInv'
<1>1. failures = {} /\ phase \in 1..3 => win'.gw = found.gw
  BY DEF GatewayInv
<1>2. ASSUME failures = {}, phase \notin 1..3, NEW f \in Family
      PROVE  GatewaySteps(todo', win', f, GatewaysOf(f))
  <2>1. GatewaySteps(todo, win, f, GatewaysOf(f)) /\ todo \in Seq(Commands)
    BY <1>2 DEF GatewayInv, TypeOK
  <2>2. \A c \in ToSet(todo) : c.op \notin {"delgw", "addgw"}
    BY KindHere
  <2>3. Quiet(todo, f) /\ Quiet(todo', f)
    BY <2>2 DEF Quiet, IsDel, IsAdd
  <2>4. win.gw[f] = GatewaysOf(f)
    BY <2>1, <2>3, QuietSteps
  <2> QED
    BY <2>3, <2>4, QuietSteps
<1> QED
  BY <1>1, <1>2, NowGateways

LEMMA GatewayNext ==
  ASSUME TypeOK, KindInv, GatewayInv, [Next]_vars
  PROVE  GatewayInv'
<1>1. CASE Start
  BY <1>1, StartGateways
<1>2. CASE CallHandler
  BY <1>2, CallGateways
<1>3. CASE Command
  <2>1. /\ todo # <<>> /\ todo' = Tail(todo) /\ win' = Effect(win, Head(todo))
        /\ phase' = phase /\ opts' = opts /\ found' = found /\ failures' = failures
    BY <1>3, Zenon DEF Command
  <2>2. Head(todo) \in Commands /\ win \in System /\ Head(todo) \in ToSet(todo)
    BY <2>1, KindAtWork
  <2>3. \A f \in Family : GatewayEffect(win, Head(todo), win', f)
    BY <2>1, <2>2, GatewayEffectIs
  <2>4. ASSUME phase # 4 PROVE win'.gw = win.gw
    <3>1. Head(todo).op \notin {"delgw", "addgw"}
      BY <2>2, <2>4, KindHere
    <3> QED
      BY <2>1, <2>2, <3>1 DEF Effect, System
  <2> QED
    BY <2>1, <2>3, <2>4, StepGateways
<1>4. CASE Refusal
  <2>1. /\ todo # <<>> /\ Refused(win, Head(todo)) /\ CommandFails(FALSE)
        /\ win' = win /\ failures' = failures
    BY <1>4 DEF Refusal
  <2>2. /\ todo' \in Seq(Commands) /\ ToSet(todo') \subseteq ToSet(todo)
        /\ phase' = phase /\ opts' = opts /\ found' = found
    BY <2>1, FailsType, RestMembers
  <2>3. CASE phase # 4
    BY <2>1, <2>2, <2>3, DropGateways
  <2>4. CASE phase = 4
    <3>1. Head(todo) \in ToSet(todo) /\ Head(todo) \in Commands
      BY <2>1, KindAtWork
    <3>2. Head(todo).onError = "ignore" /\ OfKind(Head(todo), "gateway")
      BY <2>4, <3>1, KindHere, Places
    <3>3. Head(todo).op \in {"delgw", "addgw"}
      BY <3>2 DEF OfKind
    <3>4. todo' = Tail(todo)
      BY <2>1, <3>2 DEF CommandFails, Rest
    <3>5. Head(todo).op = "delgw" /\ win.gw[Head(todo).arg] = {}
      BY <2>1, <3>3 DEF Refused
    <3>6. \A f \in Family : GatewayEffect(win, Head(todo), win', f)
      BY <2>1, <3>5 DEF GatewayEffect, IsDel, IsAdd
    <3> QED
      BY <2>1, <2>2, <2>4, <3>4, <3>6, StepGateways
  <2> QED
    BY <2>3, <2>4
<1>5. ASSUME NEW kind \in {"exit", "crash"}, Failure(kind) PROVE GatewayInv'
  BY <1>5 DEF Failure, Fault, GatewayInv
<1>6. CASE Finish
  <2>1. /\ phase = 8 /\ todo = <<>> /\ phase' = 0 /\ todo' = todo
        /\ opts' = opts /\ found' = found /\ failures' = failures /\ win' = win
    BY <1>6, LenFlags DEF Finish
  <2>2. failures = {} => \A f \in Family : GatewaySteps(todo, win, f, GatewaysOf(f))
    BY <2>1 DEF GatewayInv
  <2> QED
    BY <2>1, <2>2, NowGateways
<1>7. CASE Kill
  BY <1>7 DEF Kill, Fault, GatewayInv
<1>8. CASE UNCHANGED vars
  <2>1. /\ phase' = phase /\ todo' = todo
        /\ opts' = opts /\ found' = found /\ failures' = failures /\ win' = win
    BY <1>8 DEF vars
  <2>2. failures' = {} =>
          /\ phase' \in 1..3 => win'.gw = found.gw
          /\ phase' \notin 1..3 => \A f \in Family : GatewaySteps(todo', win', f, GatewaysOf(f))
    BY <2>1 DEF GatewayInv
  <2> QED
    BY <2>1, <2>2, NowGateways
<1> QED
  BY <1>1, <1>2, <1>3, <1>4, <1>5, <1>6, <1>7, <1>8 DEF Next

LEMMA GatewayInit ==
  ASSUME Init
  PROVE  GatewayInv
<1>1. /\ phase = 0 /\ todo = <<>> /\ found = win /\ opts["gateway"] = <<>>
  BY DEF Init, NoLine, Kind, ToSet, all_flags
<1>2. ASSUME NEW f \in Family PROVE GatewaySteps(todo, win, f, GatewaysOf(f))
  <2>1. Telling(f) = {} /\ <<RemoveV4>> \notin ToSet(opts["gateway"])
    BY <1>1 DEF Telling, ToSet
  <2>2. GatewaysOf(f) = win.gw[f]
    BY <1>1, <2>1 DEF GatewaysOf
  <2> QED
    BY <1>1, <2>2, EmptySteps
<1> QED
  BY <1>1, <1>2 DEF GatewayInv

\* After a smooth run one gateway of each family is left, the last of the --gateway that
\* was given first, or none if that word says "remove"; a family that no option concerns
\* keeps what it had: set_gateway() for the values in the two passes of apply_parameters().
THEOREM GatewaysAsAskedHolds == Spec => []GatewaysAsAsked
<1>1. Init => GatewayInv
  BY GatewayInit
<1>2. TypeOK /\ KindInv /\ GatewayInv /\ [Next]_vars => GatewayInv'
  BY GatewayNext
<1>3. TypeOK /\ GatewayInv => GatewaysAsAsked
  <2> SUFFICES ASSUME TypeOK, GatewayInv, Smooth, NEW f \in Family
               PROVE  win.gw[f] = GatewaysOf(f)
    BY GatewaysAre
  <2>1. phase = 0 /\ todo = <<>> /\ failures = {}
    BY DEF Smooth, Ended, TypeOK
  <2>2. GatewaySteps(todo, win, f, GatewaysOf(f))
    BY <2>1 DEF GatewayInv
  <2> QED
    BY <2>1, <2>2, EmptySteps
<1> QED
  BY <1>1, <1>2, <1>3, TypeCorrect, KindInvHolds, PTL DEF Spec

-----------------------------------------------------------------------------
(* The name servers of a family: what a list of commands makes of them. *)

\* The parts of a list of lists, each after those before it.
LEMMA FlattenSteps ==
  ASSUME NEW T, NEW seqs \in Seq(Seq(T))
  PROVE  \E g : /\ g[0] = <<>> /\ FlattenSeq(seqs) = g[Len(seqs)]
                /\ \A i \in 1..Len(seqs) : g[i] = g[i - 1] \o seqs[i]
                /\ \A i \in 0..Len(seqs) : g[i] \in Seq(T)
<1> DEFINE len == Len(seqs)
<1>0. len \in Nat /\ DOMAIN seqs = 1..len /\ \A i \in 1..len : seqs[i] \in Seq(T)
  OBVIOUS
<1>1. ASSUME NEW e, e = <<>>
      PROVE  \E g : /\ g[0] = e /\ FlattenSeq(seqs) = g[len]
                    /\ \A i \in 1..len : g[i] = g[i - 1] \o seqs[i]
  <2>1. CASE len = 0
    <3> DEFINE g == [i \in 0..0 |-> e]
    <3>1. FlattenSeq(seqs) = seqs /\ seqs = <<>>
      BY <2>1 DEF FlattenSeq
    <3>2. g[0] = e /\ 1..len = {}
      BY <2>1
    <3> HIDE DEF g
    <3>3. FlattenSeq(seqs) = g[len]
      BY <1>1, <2>1, <3>1, <3>2
    <3> QED
      BY <3>2, <3>3
  <2>2. CASE len # 0
    <3>1. PICK f : /\ f = [i \in 1..len |-> IF i = 1 THEN seqs[i] ELSE f[i - 1] \o seqs[i]]
                   /\ FlattenSeq(seqs) = f[len]
      BY <1>0, <2>2, FlattenDef
    <3>2. ASSUME NEW i \in 1..len PROVE f[i] = IF i = 1 THEN seqs[i] ELSE f[i - 1] \o seqs[i]
      BY <3>1
    <3> HIDE DEF len
    <3> DEFINE g == [i \in 0..len |-> IF i = 0 THEN e ELSE f[i]]
    <3>3. g[0] = e /\ \A i \in 1..len : g[i] = f[i]
      BY <1>0
    <3> HIDE DEF g
    <3>4. FlattenSeq(seqs) = g[len]
      BY <1>0, <2>2, <3>1, <3>3
    <3>5. ASSUME NEW i \in 1..len PROVE g[i] = g[i - 1] \o seqs[i]
      <4>1. CASE i = 1
        <5>1. <<>> \o seqs[1] = seqs[1]
          BY <1>0, <4>1, EmptyConcat
        <5>2. f[1] = seqs[1] /\ g[1] = f[1] /\ 1 - 1 = 0
          BY <3>2, <3>3, <4>1
        <5>3. g[1 - 1] = e
          BY <3>3, <5>2
        <5> QED
          BY <1>1, <4>1, <5>1, <5>2, <5>3
      <4>2. CASE i # 1
        <5>1. i - 1 \in 1..len
          BY <1>0, <4>2
        <5> QED
          BY <3>2, <3>3, <4>2, <5>1
      <4> QED
        BY <4>1, <4>2
    <3> QED
      BY <3>3, <3>4, <3>5
  <2> QED
    BY <2>1, <2>2
<1>2. PICK g : /\ g[0] = <<>> /\ FlattenSeq(seqs) = g[len]
               /\ \A i \in 1..len : g[i] = g[i - 1] \o seqs[i]
  BY <1>1
<1> HIDE DEF len
<1>3. \A i \in 0..len : g[i] \in Seq(T)
  <2> DEFINE Good == {n \in Nat : n \in 0..len => g[n] \in Seq(T)}
  <2>1. 0 \in Good
    <3>1. \A e : e = <<>> => e \in Seq(T)
      BY EmptyOrder
    <3> QED
      BY <1>2, <3>1
  <2>2. ASSUME NEW n \in Nat, n \in Good PROVE n + 1 \in Good
    <3> SUFFICES ASSUME n + 1 \in 0..len PROVE g[n + 1] \in Seq(T)
      OBVIOUS
    <3>1. n + 1 \in 1..len /\ n \in 0..len /\ (n + 1) - 1 = n
      BY <1>0
    <3>2. g[n] \in Seq(T) /\ seqs[n + 1] \in Seq(T)
      BY <1>0, <2>2, <3>1
    <3>3. g[n + 1] = g[n] \o seqs[n + 1]
      BY <1>2, <3>1
    <3> QED
      BY <3>2, <3>3, TwoLists
  <2> HIDE DEF Good
  <2>3. Nat \subseteq Good
    BY <2>1, <2>2, Induction
  <2>4. \A n \in Good : n \in 0..len => g[n] \in Seq(T)
    BY DEF Good
  <2> QED
    BY <1>0, <2>3, <2>4
<1> QED
  BY <1>2, <1>3 DEF len

Server == Dns4 \cup Dns6
ServersSet(c, f)  == c.op = "dns" /\ c.arg.family = f
ServerAdded(c, f) == c.op = "adddns" /\ FamilyOf(c.arg) = f /\ c.arg \in Server

\* What a command makes of the servers of a family.
AfterOne(c, f, v) ==
  IF ServersSet(c, f) THEN c.arg.to
  ELSE IF ServerAdded(c, f) THEN Append(IF v = <<DHCP>> THEN <<>> ELSE v, c.arg)
  ELSE v

\* A list of commands takes the servers from v to x.
Takes(list, f, v, x) ==
  \E h : /\ h[0] = v /\ h[Len(list)] = x
         /\ \A m \in 1..Len(list) : h[m] = AfterOne(list[m], f, h[m - 1])

LEMMA TakesNone ==
  ASSUME NEW list, list = <<>>, NEW f, NEW v, NEW x
  PROVE  Takes(list, f, v, x) <=> v = x
<1>1. Len(list) = 0 /\ 1..Len(list) = {}
  OBVIOUS
<1>2. Takes(list, f, v, x) => v = x
  BY <1>1 DEF Takes
<1>3. ASSUME v = x PROVE Takes(list, f, v, x)
  <2> DEFINE h == [m \in 0..0 |-> v]
  <2>1. h[0] = v
    OBVIOUS
  <2> HIDE DEF h
  <2> QED
    BY <1>1, <1>3, <2>1 DEF Takes
<1> QED
  BY <1>2, <1>3

LEMMA TakesOne ==
  ASSUME NEW list \in Seq(Commands), Len(list) = 1, NEW f, NEW v
  PROVE  Takes(list, f, v, AfterOne(list[1], f, v))
<1> DEFINE x == AfterOne(list[1], f, v)
           h == [m \in 0..1 |-> IF m = 0 THEN v ELSE x]
<1>1. h[0] = v /\ h[1] = x
  OBVIOUS
<1> HIDE DEF h
<1>2. \A m \in 1..1 : m = 1 /\ m - 1 = 0
  OBVIOUS
<1>3. \A m \in 1..1 : h[m] = AfterOne(list[m], f, h[m - 1])
  BY <1>1, <1>2
<1> QED
  BY <1>1, <1>3 DEF Takes

LEMMA TakesBoth ==
  ASSUME NEW A \in Seq(Commands), NEW B \in Seq(Commands), NEW f, NEW v, NEW w, NEW x,
         Takes(A, f, v, w), Takes(B, f, w, x)
  PROVE  Takes(A \o B, f, v, x)
<1> DEFINE a == Len(A)
           b == Len(B)
<1>1. /\ a \in Nat /\ b \in Nat /\ Len(A \o B) = a + b
      /\ \A i \in 1..a : (A \o B)[i] = A[i]
      /\ \A i \in 1..b : (A \o B)[a + i] = B[i]
  BY TwoLists
<1>2. PICK g : g[0] = v /\ g[a] = w /\ \A m \in 1..a : g[m] = AfterOne(A[m], f, g[m - 1])
  BY DEF Takes
<1>3. PICK k : k[0] = w /\ k[b] = x /\ \A m \in 1..b : k[m] = AfterOne(B[m], f, k[m - 1])
  BY DEF Takes
<1> HIDE DEF a, b
<1> DEFINE h == [m \in 0..(a + b) |-> IF m <= a THEN g[m] ELSE k[m - a]]
<1>4. \A m \in 0..a : h[m] = g[m]
  BY <1>1
<1>5. \A m \in 1..b : h[a + m] = k[m]
  <2> SUFFICES ASSUME NEW m \in 1..b PROVE h[a + m] = k[m]
    OBVIOUS
  <2>1. a + m \in 0..(a + b) /\ ~(a + m <= a) /\ (a + m) - a = m
    BY <1>1
  <2> QED
    BY <2>1
<1> HIDE DEF h
<1>6. h[0] = v /\ h[a] = w
  BY <1>1, <1>2, <1>4
<1>7. h[a + b] = x
  <2>1. CASE b = 0
    <3>1. a + b = a
      BY <1>1, <2>1
    <3> QED
      BY <1>3, <1>6, <2>1, <3>1
  <2>2. CASE b # 0
    BY <1>1, <1>3, <1>5, <2>2
  <2> QED
    BY <2>1, <2>2
<1>8. ASSUME NEW m \in 1..(a + b) PROVE h[m] = AfterOne((A \o B)[m], f, h[m - 1])
  <2>1. CASE m <= a
    <3>1. m \in 1..a /\ m \in 0..a /\ m - 1 \in 0..a
      BY <1>1, <2>1
    <3> QED
      BY <1>1, <1>2, <1>4, <3>1
  <2>2. CASE ~(m <= a)
    <3> DEFINE n == m - a
    <3>1. n \in 1..b /\ m = a + n
      BY <1>1, <2>2
    <3>2. h[m] = AfterOne((A \o B)[m], f, k[n - 1])
      <4>1. h[a + n] = k[n] /\ k[n] = AfterOne(B[n], f, k[n - 1]) /\ (A \o B)[a + n] = B[n]
        BY <1>1, <1>3, <1>5, <3>1
      <4> QED
        BY <3>1, <4>1
    <3>3. h[m - 1] = k[n - 1]
      <4>1. CASE n = 1
        <5>1. m - 1 = a /\ n - 1 = 0
          BY <1>1, <3>1, <4>1
        <5> QED
          BY <1>3, <1>6, <5>1
      <4>2. CASE n # 1
        <5>1. n - 1 \in 1..b /\ m - 1 = a + (n - 1)
          BY <1>1, <3>1, <4>2
        <5>2. h[a + (n - 1)] = k[n - 1]
          BY <1>5, <5>1
        <5> QED
          BY <5>1, <5>2
      <4> QED
        BY <4>1, <4>2
    <3> QED
      BY <3>2, <3>3
  <2> QED
    BY <2>1, <2>2
<1> QED
  BY <1>1, <1>6, <1>7, <1>8 DEF Takes

LEMMA TakesRest ==
  ASSUME NEW list \in Seq(Commands), list # <<>>, NEW f, NEW v, NEW x, Takes(list, f, v, x)
  PROVE  Takes(Tail(list), f, AfterOne(Head(list), f, v), x)
<1> DEFINE n == Len(list)
           rest == Tail(list)
<1>1. /\ n \in Nat \ {0} /\ Len(rest) = n - 1 /\ Head(list) = list[1]
      /\ \A m \in 1..(n - 1) : rest[m] = list[m + 1]
  OBVIOUS
<1>2. PICK h : h[0] = v /\ h[n] = x /\ \A m \in 1..n : h[m] = AfterOne(list[m], f, h[m - 1])
  BY DEF Takes
<1> HIDE DEF n, rest
<1> DEFINE k == [m \in 0..(n - 1) |-> h[m + 1]]
<1>3. k[0] = h[1] /\ k[n - 1] = h[n] /\ \A m \in 1..(n - 1) : k[m] = h[m + 1] /\ k[m - 1] = h[m]
  <2>1. 0 \in 0..(n - 1) /\ n - 1 \in 0..(n - 1) /\ 0 + 1 = 1 /\ (n - 1) + 1 = n
    BY <1>1
  <2>2. ASSUME NEW m \in 1..(n - 1)
        PROVE  m \in 0..(n - 1) /\ m - 1 \in 0..(n - 1) /\ (m - 1) + 1 = m
    BY <1>1
  <2> QED
    BY <2>1, <2>2
<1> HIDE DEF k
<1>4. h[1] = AfterOne(list[1], f, h[0])
  <2>1. 1 \in 1..n /\ 1 - 1 = 0
    BY <1>1
  <2> QED
    BY <1>2, <2>1
<1>5. ASSUME NEW m \in 1..(n - 1) PROVE k[m] = AfterOne(rest[m], f, k[m - 1])
  <2>1. m + 1 \in 1..n /\ (m + 1) - 1 = m
    BY <1>1
  <2>2. h[m + 1] = AfterOne(list[m + 1], f, h[m])
    BY <1>2, <2>1
  <2> QED
    BY <1>1, <1>3, <2>2
<1>6. k[0] = AfterOne(Head(list), f, v) /\ k[Len(rest)] = x
  BY <1>1, <1>2, <1>3, <1>4
<1>7. \A m \in 1..Len(rest) : k[m] = AfterOne(rest[m], f, k[m - 1])
  BY <1>1, <1>5
<1> QED
  BY <1>6, <1>7 DEF Takes, rest

\* What set_dns() makes of one word, the first of its family or not.
DnsWord(word, first) ==
  (IF first THEN Cmd("dns", [family |-> FamilyOf(word), to |-> <<>>], "negative") ELSE <<>>)
  \o Cmd("adddns", word, "negative")

AfterWord(word, first, f, v) ==
  IF FamilyOf(word) # f THEN v
  ELSE LET left == IF first THEN <<>> ELSE v
       IN  IF word \in Server THEN Append(IF left = <<DHCP>> THEN <<>> ELSE left, word) ELSE left

LEMMA DnsWordTakes ==
  ASSUME NEW word \in Word, NEW first \in BOOLEAN, NEW f \in Family, NEW v
  PROVE  /\ DnsWord(word, first) \in Seq(Commands)
         /\ Takes(DnsWord(word, first), f, v, AfterWord(word, first, f, v))
<1> DEFINE g == FamilyOf(word)
           a == [op |-> "dns", arg |-> [family |-> g, to |-> <<>>], onError |-> "negative"]
           b == [op |-> "adddns", arg |-> word, onError |-> "negative"]
           A == Cmd("dns", [family |-> g, to |-> <<>>], "negative")
           B == Cmd("adddns", word, "negative")
<1>1. /\ A \in Seq(Commands) /\ A = <<a>> /\ a.op = "dns" /\ a.arg.family = g /\ a.arg.to = <<>>
      /\ B \in Seq(Commands) /\ B = <<b>> /\ b.op = "adddns" /\ b.arg = word
  <2>1. g \in Family
    BY DEF FamilyOf, Family
  <2>2. A \in Seq(Plain) /\ B \in Seq(Plain)
    BY <2>1, PlainCommands DEF OnError
  <2> QED
    BY <2>2, PlainIsNameFree DEF Cmd
<1> HIDE DEF a, b, A, B, g
<1>2. ASSUME NEW c, NEW list, list = <<c>> PROVE Len(list) = 1 /\ list[1] = c
  BY <1>2
<1>3. Len(A) = 1 /\ A[1] = a /\ Len(B) = 1 /\ B[1] = b
  BY <1>1, <1>2
<1>4. \A u : AfterOne(a, f, u) = IF g = f THEN <<>> ELSE u
  BY <1>1 DEF AfterOne, ServersSet, ServerAdded
<1>5. \A u : AfterOne(b, f, u) = IF g = f /\ word \in Server
                                   THEN Append(IF u = <<DHCP>> THEN <<>> ELSE u, word) ELSE u
  BY <1>1 DEF AfterOne, ServersSet, ServerAdded, g
<1>6. /\ Takes(A, f, v, AfterOne(a, f, v))
      /\ \A u : Takes(B, f, u, AfterOne(b, f, u))
  BY <1>1, <1>3, TakesOne
<1>7. DnsWord(word, first) = (IF first THEN A ELSE <<>>) \o B
  BY DEF DnsWord, A, B, g
<1>8. CASE first
  <2>1. DnsWord(word, first) = A \o B
    BY <1>7, <1>8
  <2>2. A \o B \in Seq(Commands)
    BY <1>1, TwoLists
  <2>3. Takes(A \o B, f, v, AfterOne(b, f, AfterOne(a, f, v)))
    BY <1>1, <1>6, TakesBoth
  <2>4. AfterOne(b, f, AfterOne(a, f, v)) = AfterWord(word, first, f, v)
    <3>1. CASE g = f
      <4>1. AfterOne(a, f, v) = <<>>
        BY <1>4, <3>1
      <4> QED
        BY <1>5, <1>8, <3>1, <4>1 DEF AfterWord, g
    <3>2. CASE g # f
      BY <1>4, <1>5, <3>2 DEF AfterWord, g
    <3> QED
      BY <3>1, <3>2
  <2> QED
    BY <2>1, <2>2, <2>3, <2>4
<1>9. CASE ~first
  <2>1. DnsWord(word, first) = <<>> \o B /\ <<>> \o B = B
    BY <1>1, <1>7, <1>9, EmptyConcat
  <2>2. Takes(B, f, v, AfterOne(b, f, v))
    BY <1>6
  <2>3. AfterOne(b, f, v) = AfterWord(word, first, f, v)
    BY <1>5, <1>9 DEF AfterWord, g
  <2> QED
    BY <1>1, <2>1, <2>2, <2>3
<1> QED
  BY <1>8, <1>9

AskedServers(f) == {s \in Value("dns") : FamilyOf(s) = f}
Chosen(f)       == Selected(Words("dns"), AskedServers(f) \cap Server)

LEMMA DnsTakes ==
  ASSUME TypeOK, NEW f \in Family, NEW v
  PROVE  Takes(set_dns, f, v, IF AskedServers(f) # {} THEN Chosen(f) ELSE v)
<1> DEFINE words == Words("dns")
           len == Len(words)
           chosen == AskedServers(f) \cap Server
           first(k) == \A n \in 1..(k - 1) : FamilyOf(words[n]) # FamilyOf(words[k])
           cmds == [k \in DOMAIN words |-> DnsWord(words[k], first(k))]
           sel == [k \in DOMAIN words |-> IF words[k] \in chosen THEN <<words[k]>> ELSE <<>>]
<1>1. set_dns = FlattenSeq(cmds)
  BY DEF set_dns, ForEach, DnsWord
<1>2. Chosen(f) = FlattenSeq(sel)
  BY DEF Chosen, Selected, ForEach
<1>3. /\ words \in Seq(Word) /\ DOMAIN words = 1..len /\ len \in Nat
      /\ \A k \in 1..len : words[k] \in Word
  BY WordsType, KindType
<1>4. Value("dns") = {words[k] : k \in 1..len}
  BY <1>3 DEF Value, ToSet
<1>5. \A s : s \in AskedServers(f) <=> s \in Value("dns") /\ FamilyOf(s) = f
  BY DEF AskedServers
<1>6. \A k \in 1..len : words[k] \in chosen <=> FamilyOf(words[k]) = f /\ words[k] \in Server
  <2> SUFFICES ASSUME NEW k \in 1..len
               PROVE  words[k] \in chosen <=> FamilyOf(words[k]) = f /\ words[k] \in Server
    OBVIOUS
  <2>1. words[k] \in Value("dns")
    BY <1>4
  <2> QED
    BY <1>5, <2>1
<1>7. cmds \in Seq(Seq(Commands)) /\ Len(cmds) = len
  <2>1. \A k \in 1..len : DnsWord(words[k], first(k)) \in Seq(Commands)
    <3> SUFFICES ASSUME NEW k \in 1..len PROVE DnsWord(words[k], first(k)) \in Seq(Commands)
      OBVIOUS
    <3>1. words[k] \in Word /\ first(k) \in BOOLEAN
      BY <1>3
    <3> HIDE DEF first, words
    <3> QED
      BY <3>1, DnsWordTakes
  <2> HIDE DEF words, len, first
  <2> QED
    BY <1>3, <2>1
<1>8. sel \in Seq(Seq(Server)) /\ Len(sel) = len
  <2>1. ASSUME NEW k \in 1..len
        PROVE  (IF words[k] \in chosen THEN <<words[k]>> ELSE <<>>) \in Seq(Server)
    <3>1. CASE words[k] \in chosen
      <4>1. words[k] \in Server
        BY <3>1
      <4> HIDE DEF words, chosen
      <4> QED
        BY <3>1, <4>1
    <3>2. CASE words[k] \notin chosen
      BY <3>2
    <3> QED
      BY <3>1, <3>2
  <2> HIDE DEF words, len, chosen
  <2> QED
    BY <1>3, <2>1
<1>9. PICK g : /\ g[0] = <<>> /\ FlattenSeq(cmds) = g[len]
               /\ \A i \in 1..len : g[i] = g[i - 1] \o cmds[i]
               /\ \A i \in 0..len : g[i] \in Seq(Commands)
  <2> HIDE DEF cmds, len
  <2> QED
    BY <1>7, FlattenSteps
<1>10. PICK t : /\ t[0] = <<>> /\ FlattenSeq(sel) = t[len]
                /\ \A i \in 1..len : t[i] = t[i - 1] \o sel[i]
                /\ \A i \in 0..len : t[i] \in Seq(Server)
  <2> HIDE DEF sel, len
  <2> QED
    BY <1>8, FlattenSteps
<1>11. \A k \in 1..len : /\ cmds[k] = DnsWord(words[k], first(k))
                         /\ sel[k] = IF words[k] \in chosen THEN <<words[k]>> ELSE <<>>
  BY <1>3
<1>12. \A k \in 1..len : first(k) \in BOOLEAN
  OBVIOUS
<1> DEFINE Some(n) == \E m \in 1..n : FamilyOf(words[m]) = f
           Now(n) == IF Some(n) THEN t[n] ELSE v
           Good == {n \in Nat : n \in 0..len =>
                      Takes(g[n], f, v, Now(n)) /\ (Some(n) \/ t[n] = <<>>)}
<1> HIDE DEF cmds, sel, len, words, chosen
<1>13. 0 \in Good
  <2>1. ~Some(0)
    OBVIOUS
  <2>2. \A list : list = <<>> => Takes(list, f, v, v)
    BY TakesNone
  <2> QED
    BY <1>9, <1>10, <2>1, <2>2
<1>14. ASSUME NEW n \in Nat, n \in Good PROVE n + 1 \in Good
  <2> SUFFICES ASSUME n + 1 \in 0..len
               PROVE  Takes(g[n + 1], f, v, Now(n + 1)) /\ (Some(n + 1) \/ t[n + 1] = <<>>)
    OBVIOUS
  <2> DEFINE w == words[n + 1]
             fst == first(n + 1)
  <2>1. n + 1 \in 1..len /\ n \in 0..len /\ (n + 1) - 1 = n
    BY <1>3
  <2>2. Takes(g[n], f, v, Now(n)) /\ (Some(n) \/ t[n] = <<>>)
    BY <1>14, <2>1
  <2>3. /\ g[n + 1] = g[n] \o DnsWord(w, fst) /\ g[n] \in Seq(Commands)
        /\ w \in Word /\ fst \in BOOLEAN
    <3> HIDE DEF first
    <3> QED
      BY <1>3, <1>9, <1>11, <1>12, <2>1
  <2>4. /\ t[n + 1] = t[n] \o (IF w \in chosen THEN <<w>> ELSE <<>>)
        /\ t[n] \in Seq(Server)
        /\ w \in chosen <=> FamilyOf(w) = f /\ w \in Server
    <3> HIDE DEF first
    <3> QED
      BY <1>6, <1>10, <1>11, <2>1
  <2>5. Some(n + 1) <=> Some(n) \/ FamilyOf(w) = f
    <3>1. 1..(n + 1) = 1..n \cup {n + 1}
      OBVIOUS
    <3> QED
      BY <3>1
  <2>6. fst <=> \A m \in 1..n : FamilyOf(words[m]) # FamilyOf(w)
    BY <2>1
  <2>7. FamilyOf(w) = f => (fst <=> ~Some(n))
    BY <2>6
  <2> DEFINE now == Now(n)
  <2>8. now = IF Some(n) THEN t[n] ELSE v
    OBVIOUS
  <2> HIDE DEF w, first, Some, now
  <2>9. Takes(g[n + 1], f, v, AfterWord(w, fst, f, now))
    <3>1. DnsWord(w, fst) \in Seq(Commands) /\ Takes(DnsWord(w, fst), f, now, AfterWord(w, fst, f, now))
      BY <2>3, DnsWordTakes
    <3>2. Takes(g[n], f, v, now)
      BY <2>2 DEF now
    <3>3. Takes(g[n] \o DnsWord(w, fst), f, v, AfterWord(w, fst, f, now))
      BY <2>3, <3>1, <3>2, TakesBoth
    <3> QED
      BY <2>3, <3>3
  <2>10. w \notin chosen => t[n + 1] = t[n]
    <3>1. t[n] \o <<>> = t[n]
      BY <2>4, EmptyConcat
    <3> QED
      BY <2>4, <3>1
  <2>11. w \in chosen => t[n + 1] = Append(t[n], w)
    <3>1. \A list \in Seq(Server) : w \in Server => list \o <<w>> = Append(list, w)
      OBVIOUS
    <3> QED
      BY <2>4, <3>1
  <2>12. CASE FamilyOf(w) # f
    <3>1. AfterWord(w, fst, f, now) = now
      BY <2>12 DEF AfterWord
    <3>2. t[n + 1] = t[n] /\ (Some(n + 1) <=> Some(n))
      BY <2>4, <2>5, <2>10, <2>12
    <3>3. Now(n + 1) = now
      BY <2>8, <3>2
    <3> QED
      BY <2>2, <2>9, <3>1, <3>2, <3>3
  <2>13. CASE FamilyOf(w) = f
    <3> DEFINE left == IF fst THEN <<>> ELSE now
    <3>1. left = t[n]
      BY <2>2, <2>7, <2>8, <2>13
    <3>2. left # <<DHCP>>
      <4>1. DHCP \notin Server
        BY AddressesAssumption DEF Server
      <4>2. \A list \in Seq(Server) : list # <<DHCP>>
        <5> SUFFICES ASSUME NEW list \in Seq(Server), list = <<DHCP>> PROVE FALSE
          OBVIOUS
        <5>1. Len(list) = 1 /\ list[1] = DHCP
          OBVIOUS
        <5>2. list[1] \in Server
          BY <5>1
        <5> QED
          BY <4>1, <5>1, <5>2
      <4> QED
        BY <2>4, <3>1, <4>2
    <3>3. AfterWord(w, fst, f, now) =
            IF w \in Server THEN Append(IF left = <<DHCP>> THEN <<>> ELSE left, w) ELSE left
      BY <2>13 DEF AfterWord
    <3> HIDE DEF left
    <3>4. AfterWord(w, fst, f, now) = t[n + 1]
      <4>1. CASE w \in Server
        <5>1. AfterWord(w, fst, f, now) = Append(left, w)
          BY <3>2, <3>3, <4>1
        <5> QED
          BY <2>4, <2>11, <2>13, <3>1, <4>1, <5>1
      <4>2. CASE w \notin Server
        BY <2>4, <2>10, <3>1, <3>3, <4>2
      <4> QED
        BY <4>1, <4>2
    <3>5. Some(n + 1) /\ Now(n + 1) = t[n + 1]
      BY <2>5, <2>13
    <3> QED
      BY <2>9, <3>4, <3>5
  <2> QED
    BY <2>12, <2>13
<1>15. Nat \subseteq Good
  <2> HIDE DEF Good
  <2> QED
    BY <1>13, <1>14, Induction
<1>16. Takes(g[len], f, v, Now(len))
  <2>1. len \in Good /\ len \in 0..len
    BY <1>3, <1>15
  <2> QED
    BY <2>1
<1>17. Some(len) <=> AskedServers(f) # {}
  BY <1>4, <1>5
<1>18. Now(len) = IF AskedServers(f) # {} THEN Chosen(f) ELSE v
  BY <1>2, <1>10, <1>17
<1> QED
  BY <1>1, <1>9, <1>16, <1>18

LEMMA ServerEffect ==
  ASSUME NEW w \in System, NEW c \in Commands, ~Refused(w, c), NEW f \in Family
  PROVE  Effect(w, c).dns[f] = AfterOne(c, f, w.dns[f])
<1>0. w.dns \in [Family -> Seq(Dns4 \cup Dns6 \cup {DHCP})] /\ w = [w EXCEPT !.dns = w.dns]
  BY DEF System
<1>1. CASE c.op = "dns"
  <2>1. Effect(w, c) = [w EXCEPT !.dns[c.arg.family] = c.arg.to]
    BY <1>1 DEF Effect
  <2>2. Effect(w, c).dns = [w.dns EXCEPT ![c.arg.family] = c.arg.to]
    BY <2>1 DEF System
  <2> QED
    BY <1>0, <1>1, <2>2 DEF AfterOne, ServersSet, ServerAdded
<1>2. CASE c.op = "adddns"
  <2> DEFINE g == FamilyOf(c.arg)
  <2>1. c.arg \in Server /\ g \in Family
    BY <1>2 DEF Refused, Server, FamilyOf, Family
  <2>2. Effect(w, c) = [w EXCEPT !.dns[g] = Append(IF @ = <<DHCP>> THEN <<>> ELSE @, c.arg)]
    BY <1>2 DEF Effect
  <2>3. Effect(w, c).dns = [w.dns EXCEPT ![g] = Append(IF w.dns[g] = <<DHCP>> THEN <<>> ELSE w.dns[g], c.arg)]
    BY <2>2 DEF System
  <2>4. AfterOne(c, f, w.dns[f]) =
          IF g = f THEN Append(IF w.dns[f] = <<DHCP>> THEN <<>> ELSE w.dns[f], c.arg) ELSE w.dns[f]
    BY <1>2, <2>1 DEF AfterOne, ServersSet, ServerAdded
  <2> HIDE DEF g
  <2> QED
    BY <1>0, <2>1, <2>3, <2>4
<1>3. CASE c.op \notin {"dns", "adddns"}
  <2>1. Effect(w, c).dns = w.dns
    BY <1>3 DEF Effect, System
  <2> QED
    BY <1>3, <2>1 DEF AfterOne, ServersSet, ServerAdded
<1> QED
  BY <1>1, <1>2, <1>3

LEMMA ServerRefused ==
  ASSUME NEW w, NEW c, Refused(w, c), NEW f, NEW v
  PROVE  AfterOne(c, f, v) = v
<1>1. c.op # "dns" /\ (c.op = "adddns" => c.arg \notin Server)
  BY DEF Refused, Server
<1> QED
  BY <1>1 DEF AfterOne, ServersSet, ServerAdded

Untouched(f) == {found.dns[f], <<DHCP>>}
Meant(f) == IF AskedServers(f) # {} THEN {Chosen(f)} ELSE Untouched(f)

LEMMA ServersAre ==
  ServersAsAsked <=> (Smooth /\ differs => \A f \in Family : win.dns[f] \in Meant(f))
BY DEF ServersAsAsked, Meant, Chosen, AskedServers, Untouched, Server

ServerInv ==
  failures = {} /\ differs =>
    \A f \in Family :
      /\ phase \in 1..5 => win.dns[f] \in Untouched(f)
      /\ phase = 6 => \E x \in Meant(f) : Takes(todo, f, win.dns[f], x)
      /\ phase \notin 1..6 => win.dns[f] \in Meant(f)

LEMMA NowServers ==
  ASSUME opts' = opts, found' = found,
         ASSUME failures' = {}, differs', NEW f \in Family
         PROVE  /\ phase' \in 1..5 => win'.dns[f] \in Untouched(f)
                /\ phase' = 6 => \E x \in Meant(f) : Takes(todo', f, win'.dns[f], x)
                /\ phase' \notin 1..6 => win'.dns[f] \in Meant(f)
  PROVE  ServerInv'
<1>1. ASSUME NEW f PROVE Untouched(f)' = Untouched(f) /\ Meant(f)' = Meant(f)
  <2>1. Words("dns")' = Words("dns")
    BY DEF Words, Given
  <2>2. AskedServers(f)' = AskedServers(f)
    BY <2>1 DEF AskedServers, Value, ToSet, FamilyOf, IsV6
  <2>3. Chosen(f)' = Chosen(f)
    BY <2>1, <2>2 DEF Chosen, Selected, ForEach, Server
  <2>4. Untouched(f)' = Untouched(f)
    BY DEF Untouched
  <2> QED
    BY <2>2, <2>3, <2>4 DEF Meant
<1>2. ASSUME NEW f, NEW v, NEW x, Takes(todo', f, v, x) PROVE Takes(todo, f, v, x)'
  BY <1>2 DEF Takes, AfterOne, ServersSet, ServerAdded, FamilyOf, IsV6, Server
<1>3. ASSUME failures' = {}, differs', NEW f \in Family
      PROVE  /\ phase' \in 1..5 => win'.dns[f] \in Untouched(f)'
             /\ phase' = 6 => \E x \in Meant(f)' : Takes(todo', f, win'.dns[f], x)
             /\ phase' \notin 1..6 => win'.dns[f] \in Meant(f)'
  BY <1>1, <1>3
<1> QED
  BY <1>2, <1>3 DEF ServerInv, Family

\* Before set_dns() nobody but DHCP is given a say.
LEMMA UntouchedStep ==
  ASSUME TypeOK, KindInv, todo # <<>>, phase \in 2..5, ~Refused(win, Head(todo)),
         NEW f \in Family, win.dns[f] \in Untouched(f)
  PROVE  Effect(win, Head(todo)).dns[f] \in Untouched(f)
<1> DEFINE c == Head(todo)
<1>1. c \in Commands /\ c \in ToSet(todo) /\ win \in System
  BY KindAtWork
<1> HIDE DEF c
<1>2. c.op # "adddns" /\ (c.op = "dns" => c.arg.to = <<DHCP>>)
  <2>1. CASE phase \in 2..3
    <3>1. /\ FromDhcp(c)
          /\ c.op \in {"dns", "dhcp4", "del6", "unchanged", "set4", "add4", "put6", "wrong"}
      BY <1>1, <2>1, KindHere
    <3> QED
      BY <3>1 DEF FromDhcp
  <2>2. CASE phase \in 4..5
    <3>1. phase # 4 => c.op = "search"
      BY <1>1, <2>2, KindHere
    <3>2. phase = 4 => OfKind(c, "gateway")
      BY <1>1, KindHere, Places
    <3>3. phase = 4 => c.op \in {"delgw", "addgw"}
      BY <3>2 DEF OfKind
    <3> QED
      BY <2>2, <3>1, <3>3
  <2> QED
    BY <2>1, <2>2
<1>3. Effect(win, c).dns[f] = AfterOne(c, f, win.dns[f])
  BY <1>1, ServerEffect DEF c
<1>4. AfterOne(c, f, win.dns[f]) \in {win.dns[f], <<DHCP>>}
  BY <1>2 DEF AfterOne, ServersSet, ServerAdded
<1> QED
  BY <1>3, <1>4 DEF Untouched, c

\* After it nobody touches them.
LEMMA LaterStep ==
  ASSUME TypeOK, KindInv, todo # <<>>, phase \notin 1..6, ~Refused(win, Head(todo)),
         NEW f \in Family
  PROVE  Effect(win, Head(todo)).dns[f] = win.dns[f]
<1>1. /\ Head(todo) \in Commands /\ Head(todo) \in ToSet(todo) /\ win \in System
      /\ phase \in 7..8
  BY KindAtWork
<1>2. Head(todo).op \notin {"dns", "adddns"}
  BY <1>1, KindHere
<1>3. Effect(win, Head(todo)).dns[f] = AfterOne(Head(todo), f, win.dns[f])
  BY <1>1, ServerEffect
<1> QED
  BY <1>2, <1>3 DEF AfterOne, ServersSet, ServerAdded

LEMMA CallServers ==
  ASSUME TypeOK, ServerInv, CallHandler
  PROVE  ServerInv'
<1>1. PICK n \in 1..7 :
        /\ phase = n /\ todo = <<>> /\ todo' = Handler(all_flags[n]) /\ phase' = n + 1
        /\ opts' = opts /\ found' = found /\ win' = win /\ failures' = failures
        /\ differs' = differs
  BY LenFlags DEF CallHandler
<1>2. ASSUME failures = {}, differs, NEW f \in Family
      PROVE  /\ n + 1 \in 1..5 => win.dns[f] \in Untouched(f)
             /\ n + 1 = 6 => \E x \in Meant(f) : Takes(todo', f, win.dns[f], x)
             /\ n + 1 \notin 1..6 => win.dns[f] \in Meant(f)
  <2>1. CASE n \in 1..4
    BY <1>1, <1>2, <2>1 DEF ServerInv
  <2>2. CASE n = 5
    <3>1. win.dns[f] \in Untouched(f)
      BY <1>1, <1>2, <2>2 DEF ServerInv
    <3>2. CASE Given("dns")
      <4>1. todo' = set_dns
        BY <1>1, <1>2, <2>2, <3>2, Places DEF Handler, HandlerOf
      <4>2. Takes(set_dns, f, win.dns[f], IF AskedServers(f) # {} THEN Chosen(f) ELSE win.dns[f])
        BY DnsTakes
      <4>3. (IF AskedServers(f) # {} THEN Chosen(f) ELSE win.dns[f]) \in Meant(f)
        BY <3>1 DEF Meant
      <4> QED
        BY <2>2, <4>1, <4>2, <4>3
    <3>3. CASE ~Given("dns")
      <4>1. todo' = <<>> /\ Words("dns") = <<>>
        BY <1>1, <2>2, <3>3, Places DEF Handler, Words
      <4>2. AskedServers(f) = {}
        BY <4>1 DEF AskedServers, Value, ToSet
      <4>3. win.dns[f] \in Meant(f)
        BY <3>1, <4>2 DEF Meant
      <4>4. Takes(todo', f, win.dns[f], win.dns[f])
        BY <4>1, TakesNone
      <4> QED
        BY <2>2, <4>3, <4>4
    <3> QED
      BY <3>2, <3>3
  <2>3. CASE n = 6
    <3>1. PICK x \in Meant(f) : Takes(todo, f, win.dns[f], x)
      BY <1>1, <1>2, <2>3 DEF ServerInv
    <3>2. x = win.dns[f]
      BY <1>1, <3>1, TakesNone
    <3> QED
      BY <2>3, <3>1, <3>2
  <2>4. CASE n = 7
    BY <1>1, <1>2, <2>4 DEF ServerInv
  <2> QED
    BY <2>1, <2>2, <2>3, <2>4
<1>3. ASSUME failures' = {}, differs', NEW f \in Family
      PROVE  /\ phase' \in 1..5 => win'.dns[f] \in Untouched(f)
             /\ phase' = 6 => \E x \in Meant(f) : Takes(todo', f, win'.dns[f], x)
             /\ phase' \notin 1..6 => win'.dns[f] \in Meant(f)
  <2>1. failures = {} /\ differs
    BY <1>1, <1>3
  <2> QED
    BY <1>1, <1>2, <2>1
<1> QED
  BY <1>1, <1>3, NowServers

\* A command that is carried out, or refused.
LEMMA StepServers ==
  ASSUME TypeOK, KindInv, ServerInv, todo # <<>>,
         phase = 6 => todo' = Tail(todo),
         phase' = phase, opts' = opts, found' = found, failures' = failures, differs' = differs,
         \/ ~Refused(win, Head(todo)) /\ win' = Effect(win, Head(todo))
         \/ Refused(win, Head(todo)) /\ win' = win
  PROVE  ServerInv'
<1>1. phase \in 2..8 /\ todo \in Seq(Commands) /\ Head(todo) \in Commands /\ win \in System
  BY KindAtWork
<1>2. ASSUME failures' = {}, differs', NEW f \in Family
      PROVE  /\ phase' \in 1..5 => win'.dns[f] \in Untouched(f)
             /\ phase' = 6 => \E x \in Meant(f) : Takes(todo', f, win'.dns[f], x)
             /\ phase' \notin 1..6 => win'.dns[f] \in Meant(f)
  <2>1. /\ phase \in 1..5 => win.dns[f] \in Untouched(f)
        /\ phase = 6 => \E x \in Meant(f) : Takes(todo, f, win.dns[f], x)
        /\ phase \notin 1..6 => win.dns[f] \in Meant(f)
    BY <1>2 DEF ServerInv
  <2>2. ASSUME phase \in 1..5 PROVE win'.dns[f] \in Untouched(f)
    <3>1. phase \in 2..5 /\ win.dns[f] \in Untouched(f)
      BY <1>1, <2>1, <2>2
    <3> QED
      BY <3>1, UntouchedStep
  <2>3. ASSUME phase = 6 PROVE \E x \in Meant(f) : Takes(todo', f, win'.dns[f], x)
    <3>1. PICK x \in Meant(f) : Takes(todo, f, win.dns[f], x)
      BY <2>1, <2>3
    <3>2. Takes(Tail(todo), f, AfterOne(Head(todo), f, win.dns[f]), x)
      BY <1>1, <3>1, TakesRest
    <3>3. win'.dns[f] = AfterOne(Head(todo), f, win.dns[f])
      BY <1>1, ServerEffect, ServerRefused
    <3>4. todo' = Tail(todo)
      BY <2>3
    <3> QED
      BY <3>1, <3>2, <3>3, <3>4
  <2>4. ASSUME phase \notin 1..6 PROVE win'.dns[f] \in Meant(f)
    BY <2>1, <2>4, LaterStep
  <2> QED
    BY <2>2, <2>3, <2>4
<1> QED
  BY <1>2, NowServers

LEMMA ServerNext ==
  ASSUME TypeOK, KindInv, ServerInv, [Next]_vars
  PROVE  ServerInv'
<1>1. CASE Start
  <2>1. phase' = 1 /\ found' = win /\ win' = win
    BY <1>1 DEF Start
  <2>2. \A f \in Family : win'.dns[f] = found'.dns[f]
    BY <2>1
  <2> QED
    BY <2>1, <2>2 DEF ServerInv, Untouched
<1>2. CASE CallHandler
  BY <1>2, CallServers
<1>3. CASE Command
  BY <1>3, StepServers DEF Command
<1>4. CASE Refusal
  <2>1. /\ todo # <<>> /\ Refused(win, Head(todo)) /\ CommandFails(FALSE)
        /\ win' = win /\ failures' = failures
    BY <1>4 DEF Refusal
  <2>2. phase' = phase /\ opts' = opts /\ found' = found /\ differs' = differs
    BY <2>1 DEF CommandFails
  <2>3. ASSUME phase = 6 PROVE todo' = Tail(todo)
    <3>1. Head(todo).onError = "negative"
      BY <2>1, <2>3, KindAtWork, KindHere
    <3> QED
      BY <2>1, <3>1 DEF CommandFails, Rest
  <2> QED
    BY <2>1, <2>2, <2>3, StepServers
<1>5. ASSUME NEW kind \in {"exit", "crash"}, Failure(kind) PROVE ServerInv'
  BY <1>5 DEF Failure, Fault, ServerInv
<1>6. CASE Finish
  <2>1. /\ phase = 8 /\ phase' = 0 /\ win' = win /\ differs' = differs
        /\ opts' = opts /\ found' = found /\ failures' = failures
    BY <1>6, LenFlags DEF Finish
  <2>2. failures = {} /\ differs => \A f \in Family : win.dns[f] \in Meant(f)
    BY <2>1 DEF ServerInv
  <2>3. ASSUME failures' = {}, differs', NEW f \in Family
        PROVE  /\ phase' \in 1..5 => win'.dns[f] \in Untouched(f)
               /\ phase' = 6 => \E x \in Meant(f) : Takes(todo', f, win'.dns[f], x)
               /\ phase' \notin 1..6 => win'.dns[f] \in Meant(f)
    BY <2>1, <2>2, <2>3
  <2> QED
    BY <2>1, <2>3, NowServers
<1>7. CASE Kill
  BY <1>7 DEF Kill, Fault, ServerInv
<1>8. CASE UNCHANGED vars
  <2>1. /\ phase' = phase /\ todo' = todo /\ differs' = differs
        /\ opts' = opts /\ found' = found /\ failures' = failures /\ win' = win
    BY <1>8 DEF vars
  <2>2. ASSUME failures' = {}, differs', NEW f \in Family
        PROVE  /\ phase' \in 1..5 => win'.dns[f] \in Untouched(f)
               /\ phase' = 6 => \E x \in Meant(f) : Takes(todo', f, win'.dns[f], x)
               /\ phase' \notin 1..6 => win'.dns[f] \in Meant(f)
    BY <2>1, <2>2 DEF ServerInv
  <2> QED
    BY <2>1, <2>2, NowServers
<1> QED
  BY <1>1, <1>2, <1>3, <1>4, <1>5, <1>6, <1>7, <1>8 DEF Next

LEMMA ServerInit ==
  ASSUME Init
  PROVE  ServerInv
BY DEF Init, ServerInv

\* A smooth run leaves each family the servers of --dns, in its order and without the
\* words that are none, whatever set_dhcp() and set_ip() did to them before: set_dns(),
\* which takes away the servers of a family with the first word of that family.
THEOREM ServersAsAskedHolds == Spec => []ServersAsAsked
<1>1. Init => ServerInv
  BY ServerInit
<1>2. TypeOK /\ KindInv /\ ServerInv /\ [Next]_vars => ServerInv'
  BY ServerNext
<1>3. ServerInv => ServersAsAsked
  <2> SUFFICES ASSUME ServerInv, Smooth, differs, NEW f \in Family
               PROVE  win.dns[f] \in Meant(f)
    BY ServersAre
  <2>1. phase = 0 /\ failures = {}
    BY DEF Smooth, Ended
  <2> QED
    BY <2>1 DEF ServerInv
<1> QED
  BY <1>1, <1>2, <1>3, TypeCorrect, KindInvHolds, PTL DEF Spec

-----------------------------------------------------------------------------
(* What Windows refuses: no command whose failure ends a handler, in a run *)
(* that meets no fault and has no reason to be refused.                    *)

\* Who finds what another has put there.
AddedTo(c, d) ==
  \/ c.op \in {"set4", "add4"} /\ d.op = "add4"
  \/ c.op = "put6" /\ d.op = "put6"

\* An address that is set or added is not added once more.
NotTwice == {p \in Commands \X Commands : AddedTo(p[1], p[2]) => p[1].arg # p[2].arg}

LEMMA DistinctIs ==
  ASSUME NEW c \in Commands, NEW d \in Commands
  PROVE  <<c, d>> \in NotTwice <=> (AddedTo(c, d) => c.arg # d.arg)
BY DEF NotTwice

\* Lists all of whose pairs are in the relation.
LEMMA AllPairs ==
  ASSUME NEW T, NEW list \in Seq(T), NEW R, \A c, d \in ToSet(list) : <<c, d>> \in R
  PROVE  InOrder(list, R)
<1>1. \A i \in DOMAIN list : list[i] \in ToSet(list)
  BY Members
<1> QED
  BY <1>1 DEF InOrder

LEMMA OneInOrder ==
  ASSUME NEW c, NEW list, list = <<c>>, NEW R
  PROVE  InOrder(list, R)
<1>1. DOMAIN list = {1}
  OBVIOUS
<1> QED
  BY <1>1 DEF InOrder

Repeated(words) == \E m, n \in DOMAIN words :
                         m < n /\ words[m] = words[n] /\ words[n] \in Addr4 \cup Addr6

LEMMA IpWordsDistinct ==
  ASSUME TypeOK, NEW words \in Seq(Word), ~Repeated(words)
  PROVE  InOrder(FlattenSeq([k \in DOMAIN words |-> SetIpWord(words, k)]), NotTwice)
<1> DEFINE seqs == [k \in DOMAIN words |-> SetIpWord(words, k)]
<1>1. ASSUME NEW k \in DOMAIN words
      PROVE  /\ SetIpWord(words, k) \in Seq(Plain)
             /\ \A c \in ToSet(SetIpWord(words, k)) : FromWord(c, words, k)
  BY IpWordCommands
<1>2. ASSUME NEW k \in DOMAIN words, NEW c \in ToSet(SetIpWord(words, k)) PROVE c \in Commands
  <2>1. SetIpWord(words, k) \in Seq(Plain)
    BY <1>1
  <2>2. c \in Plain
    BY <2>1, Members
  <2> QED
    BY <2>2 DEF Plain
<1>3. ASSUME NEW k \in DOMAIN words PROVE InOrder(SetIpWord(words, k), NotTwice)
  <2>1. CASE words[k] \in Addr4
    <3> DEFINE op == IF First(words, k) THEN "set4" ELSE "add4"
               c  == [op |-> op, arg |-> words[k], onError |-> "return"]
    <3>1. words[k] # RemoveV4
      BY <2>1, Families
    <3>2. SetIpWord(words, k) = <<c>>
      BY <2>1, <3>1 DEF SetIpWord, Cmd
    <3> HIDE DEF c
    <3> QED
      BY <3>2, OneInOrder
  <2>2. CASE words[k] \in Addr6
    <3> DEFINE dels == IF First(words, k) THEN remove_ipv6_ips("return") ELSE <<>>
               put  == Cmd("put6", words[k], "return")
    <3>1. words[k] # RemoveV4 /\ words[k] \notin Addr4
      BY <2>2, Families
    <3>2. SetIpWord(words, k) = dels \o put
      BY <2>2, <3>1 DEF SetIpWord
    <3>3. put \in Seq(Plain) /\ InOrder(put, NotTwice)
      <4> DEFINE c == [op |-> "put6", arg |-> words[k], onError |-> "return"]
      <4>1. put \in Seq(Plain)
        BY <2>2, PlainCommands DEF OnError
      <4>2. put = <<c>>
        BY DEF Cmd
      <4> HIDE DEF put, c
      <4> QED
        BY <4>1, <4>2, OneInOrder
    <3>4. dels \in Seq(Plain) /\ \A c \in ToSet(dels) : c.op = "del6"
      <4>1. CASE First(words, k)
        <5>1. Deletes(remove_ipv6_ips("return"), "return")
          BY Deletions DEF OnError
        <5> QED
          BY <4>1, <5>1 DEF Deletes, IsDeletion
      <4>2. CASE ~First(words, k)
        <5>1. dels = <<>>
          BY <4>2
        <5> HIDE DEF dels
        <5> QED
          BY <5>1, EmptyOrder
      <4> QED
        BY <4>1, <4>2
    <3> HIDE DEF dels, put
    <3>5. ToSet(dels) \subseteq Commands /\ ToSet(put) \subseteq Commands
      BY <3>3, <3>4, Members DEF Plain
    <3>6. \A c \in ToSet(dels) : \A d \in ToSet(dels) \cup ToSet(put) : <<c, d>> \in NotTwice
      BY <3>4, <3>5, DistinctIs DEF AddedTo
    <3>7. InOrder(dels, NotTwice)
      BY <3>4, <3>6, AllPairs
    <3>8. InOrder(dels \o put, NotTwice)
      BY <3>3, <3>4, <3>6, <3>7, Concat
    <3> QED
      BY <3>2, <3>8
  <2>3. CASE words[k] \notin Addr4 \cup Addr6
    <3>1. ASSUME NEW c \in ToSet(SetIpWord(words, k)), NEW d \in ToSet(SetIpWord(words, k))
          PROVE  <<c, d>> \in NotTwice
      <4>1. c.op \notin {"set4", "add4", "put6"}
        BY <1>1, <2>3 DEF FromWord
      <4> QED
        BY <1>2, <4>1, DistinctIs DEF AddedTo
    <3>2. SetIpWord(words, k) \in Seq(Plain)
      BY <1>1
    <3> QED
      BY <3>1, <3>2, AllPairs
  <2> QED
    BY <2>1, <2>2, <2>3
<1>4. ASSUME NEW k \in DOMAIN words, NEW l \in DOMAIN words, k < l,
             NEW c \in ToSet(SetIpWord(words, k)), NEW d \in ToSet(SetIpWord(words, l))
      PROVE  <<c, d>> \in NotTwice
  <2>1. c \in Commands /\ d \in Commands
    BY <1>2
  <2>2. FromWord(c, words, k) /\ FromWord(d, words, l)
    BY <1>1
  <2>3. ASSUME AddedTo(c, d) PROVE c.arg # d.arg
    <3>1. c.arg = words[k] /\ d.arg = words[l] /\ words[l] \in Addr4 \cup Addr6
      BY <2>2, <2>3 DEF FromWord, AddedTo
    <3>2. ~(words[k] = words[l] /\ words[l] \in Addr4 \cup Addr6)
      BY <1>4 DEF Repeated
    <3> QED
      BY <3>1, <3>2
  <2> QED
    BY <2>1, <2>3, DistinctIs
<1>5. DOMAIN words = 1..Len(words) /\ Len(words) \in Nat
  OBVIOUS
<1>6. seqs \in Seq(Seq(Plain)) /\ DOMAIN seqs = DOMAIN words
  <2>1. \A k \in 1..Len(words) : SetIpWord(words, k) \in Seq(Plain)
    BY <1>1, <1>5
  <2> QED
    BY <1>5, <2>1
<1>7. \A k \in DOMAIN seqs : seqs[k] = SetIpWord(words, k)
  OBVIOUS
<1> HIDE DEF seqs
<1>8. \A k \in DOMAIN seqs : InOrder(seqs[k], NotTwice)
  BY <1>3, <1>6, <1>7
<1>9. \A k, l \in DOMAIN seqs : k < l =>
        \A c \in ToSet(seqs[k]), d \in ToSet(seqs[l]) : <<c, d>> \in NotTwice
  BY <1>4, <1>6, <1>7
<1>10. Joined(FlattenSeq(seqs), seqs, Len(seqs), NotTwice)
  BY <1>6, <1>8, <1>9, FlattenOrder
<1> QED
  BY <1>10 DEF Joined, seqs

LEMMA SetIpDistinct ==
  ASSUME TypeOK, ~Repeated(Words("ip"))
  PROVE  InOrder(set_ip, NotTwice)
<1> DEFINE words == Words("ip")
           A == FlattenSeq([k \in DOMAIN words |-> SetIpWord(words, k)])
           six == DnsFromDhcp(6, "ignore") \o remove_ipv6_ips("stop")
           four == Cmd("dhcp4", None, "ignore")
           B == IF SixNone THEN six ELSE <<>>
           C == IF ToDhcp THEN four ELSE <<>>
<1>1. set_ip = A \o B \o C
  BY DEF set_ip, ForEach, SixNone, ToDhcp
<1>2. words \in Seq(Word)
  BY WordsType, KindType
<1>3. IpList(A, words) /\ InOrder(A, NotTwice)
  <2> HIDE DEF words
  <2> QED
    BY <1>2, IpWords, IpWordsDistinct DEF words
<1>4. SixPart(six, "ignore", "stop")
  BY SixIs DEF OnError
<1>5. four \in Seq(Plain) /\ \A c \in ToSet(four) : c.op = "dhcp4"
  <2> DEFINE d == [op |-> "dhcp4", arg |-> None, onError |-> "ignore"]
  <2>1. four \in Seq(Plain)
    BY PlainCommands DEF OnError
  <2>2. four = <<d>> /\ d.op = "dhcp4"
    BY DEF Cmd
  <2> HIDE DEF d
  <2> QED
    BY <2>1, <2>2, SingleOrder
<1> HIDE DEF A, six, four
<1>6. A \in Seq(Plain) /\ InOrder(A, NotTwice)
  BY <1>3 DEF IpList
<1>7. B \in Seq(Plain) /\ \A c \in ToSet(B) : c.op \in {"dns", "del6"}
  <2>1. CASE SixNone
    BY <1>4, <2>1 DEF SixPart, IsDeletion
  <2>2. CASE ~SixNone
    <3>1. B = <<>>
      BY <2>2
    <3> HIDE DEF B
    <3> QED
      BY <3>1, EmptyOrder
  <2> QED
    BY <2>1, <2>2
<1>8. C \in Seq(Plain) /\ \A c \in ToSet(C) : c.op = "dhcp4"
  <2>1. CASE ToDhcp
    BY <1>5, <2>1
  <2>2. CASE ~ToDhcp
    <3>1. C = <<>>
      BY <2>2
    <3> HIDE DEF C
    <3> QED
      BY <3>1, EmptyOrder
  <2> QED
    BY <2>1, <2>2
<1> HIDE DEF B, C
<1>9. ASSUME NEW P \in Seq(Plain), NEW Q \in Seq(Plain), InOrder(P, NotTwice),
             \A c \in ToSet(Q) : c.op \notin {"add4", "set4", "put6"}
      PROVE  P \o Q \in Seq(Plain) /\ InOrder(P \o Q, NotTwice)
  <2>1. ToSet(P) \subseteq Commands /\ ToSet(Q) \subseteq Commands
    BY Members DEF Plain
  <2>2. \A c \in ToSet(Q) : \A d \in ToSet(P) \cup ToSet(Q) : <<d, c>> \in NotTwice
    BY <1>9, <2>1, DistinctIs DEF AddedTo
  <2>3. InOrder(Q, NotTwice)
    BY <2>2, AllPairs
  <2>4. \A c \in ToSet(P), d \in ToSet(Q) : <<c, d>> \in NotTwice
    BY <2>2
  <2> QED
    BY <1>9, <2>3, <2>4, Concat
<1>10. A \o B \in Seq(Plain) /\ InOrder(A \o B, NotTwice)
  BY <1>6, <1>7, <1>9
<1>11. InOrder((A \o B) \o C, NotTwice)
  BY <1>8, <1>9, <1>10
<1> QED
  BY <1>1, <1>11

\* What the options or the adapter give a smooth run to stumble over.
Reason ==
  \/ Value("ip") \ (Addr4 \cup Addr6 \cup {RemoveV4}) # {}
  \/ Given("hostname") /\ BadName
  \/ Repeated(Words("ip"))
  \/ 6 \in Value("dhcp") /\ Asked(6) # {} /\ found.ip6 # {}

LEMMA ReasonIs == RefusedForAReason <=> (Smooth /\ rc2 # 0 => Reason)
BY DEF RefusedForAReason, Reason, BadName, Repeated

\* In set_dhcp(): the switch to DHCP and the deletions find what they are for.
FineDhcp(list, w) ==
  /\ Has(list, {"dhcp4"}) => ~w.dhcp4
  /\ \A c \in ToSet(list) : c.op = "del6" => c.arg \in w.ip6
  /\ w.ip6 \subseteq found.ip6
  /\ ~Dhcp6Asked => w.ip6 = found.ip6 /\ ~Has(list, {"del6"})

\* In set_ip(): so do the deletions whose failure ends it; the addresses to add are not
\* there, or are still to go: for the first one of IPv4, by a deletion for IPv6.
FineIp(list, w) ==
  /\ ~Has(list, {"wrong"})
  /\ \A c \in ToSet(list) :
       /\ c.op = "del6" /\ c.onError = "return" => c.arg \in w.ip6
       /\ c.op = "dhcp4" => c.onError = "ignore"
  /\ Has(list, {"set4"}) \/ \A c \in ToSet(list) : c.op = "add4" => c.arg \notin w.ip4
  /\ \A c \in ToSet(list) :
       c.op = "put6" /\ c.arg \in w.ip6 => \E d \in ToSet(list) : d.op = "del6" /\ d.arg = c.arg
  /\ InOrder(list, NotTwice)

FineInv ==
  failures = {} /\ ~Reason =>
    /\ rc2 = 0
    /\ phase = 2 => FineDhcp(todo, win)
    /\ phase = 3 => FineIp(todo, win)

\* A command is carried out.
LEMMA DhcpStaysFine ==
  ASSUME NEW list, NEW c, NEW rest, FirstOf(list, c, rest), \A d \in ToSet(rest) : Before(c, d),
         NEW w, NEW w2, AddressEffect(w, c, w2),
         c.op \in {"dns", "dhcp4", "del6", "unchanged"}, FineDhcp(list, w)
  PROVE  FineDhcp(rest, w2)
<1>1. ToSet(list) = {c} \cup ToSet(rest)
  BY DEF FirstOf
<1>2. /\ c.op = "dhcp4" \/ w2.dhcp4 = w.dhcp4
      /\ w2.ip6 = IF c.op = "del6" THEN w.ip6 \ {c.arg} ELSE w.ip6
  <2>1. c.op \notin {"set4", "put6"}
    OBVIOUS
  <2> QED
    BY <2>1 DEF AddressEffect
<1>3. ASSUME NEW d \in ToSet(rest), d.op = "dhcp4" PROVE ~w2.dhcp4
  <2>1. c.op # "dhcp4"
    BY <1>3 DEF Before
  <2>2. Has(list, {"dhcp4"})
    BY <1>1, <1>3 DEF Has
  <2> QED
    BY <1>2, <2>1, <2>2 DEF FineDhcp
<1>4. ASSUME NEW d \in ToSet(rest), d.op = "del6" PROVE d.arg \in w2.ip6
  <2>1. d.arg \in w.ip6
    BY <1>1, <1>4 DEF FineDhcp
  <2>2. c.op = "del6" => c.arg # d.arg
    BY <1>4 DEF Before
  <2> QED
    BY <1>2, <2>1, <2>2
<1>5. ASSUME ~Dhcp6Asked PROVE w2.ip6 = found.ip6 /\ ~Has(rest, {"del6"})
  <2>1. w.ip6 = found.ip6 /\ ~Has(list, {"del6"})
    BY <1>5 DEF FineDhcp
  <2>2. c.op # "del6" /\ ~Has(rest, {"del6"})
    BY <1>1, <2>1 DEF Has
  <2> QED
    BY <1>2, <2>1, <2>2
<1>6. Has(rest, {"dhcp4"}) => ~w2.dhcp4
  BY <1>3 DEF Has
<1>7. w2.ip6 \subseteq found.ip6
  <2>1. w.ip6 \subseteq found.ip6
    BY DEF FineDhcp
  <2> QED
    BY <1>2, <2>1
<1> QED
  BY <1>4, <1>5, <1>6, <1>7 DEF FineDhcp

LEMMA IpStaysFine ==
  ASSUME NEW list \in Seq(Commands), list # <<>>, \A d \in ToSet(Tail(list)) : Before(Head(list), d),
         NEW w, NEW w2, AddressEffect(w, Head(list), w2), FineIp(list, w)
  PROVE  FineIp(Tail(list), w2)
<1> DEFINE c == Head(list)
           rest == Tail(list)
<1>1. FirstOf(list, c, rest)
  BY SplitList
<1>2. /\ InOrder(rest, NotTwice)
      /\ \A d \in ToSet(rest) : <<c, d>> \in NotTwice
  BY SplitOrder DEF FineIp
<1>3. \A d \in ToSet(rest) : Before(c, d)
  OBVIOUS
<1>4. AddressEffect(w, c, w2)
  OBVIOUS
<1> HIDE DEF c, rest
<1>5. c \in Commands /\ ToSet(rest) \subseteq Commands /\ ToSet(list) = {c} \cup ToSet(rest)
  <2>1. rest \in Seq(Commands)
    BY <1>1 DEF FirstOf
  <2> QED
    BY <1>1, <2>1, Members DEF FirstOf
<1>6. ASSUME NEW d \in ToSet(rest), AddedTo(c, d) PROVE c.arg # d.arg
  BY <1>2, <1>5, <1>6, DistinctIs
<1>7. w2.ip4 = CASE c.op = "set4" -> {c.arg} [] c.op = "add4" -> w.ip4 \cup {c.arg}
                 [] c.op = "dhcp4" -> {} [] OTHER -> w.ip4
  BY <1>4 DEF AddressEffect
<1>8. w2.ip6 = CASE c.op = "del6" -> w.ip6 \ {c.arg} [] c.op = "put6" -> w.ip6 \cup {c.arg}
                 [] OTHER -> w.ip6
  BY <1>4 DEF AddressEffect
<1>9. ~Has(rest, {"wrong"})
  BY <1>5 DEF FineIp, Has
<1>10. ASSUME NEW d \in ToSet(rest)
       PROVE  /\ d.op = "del6" /\ d.onError = "return" => d.arg \in w2.ip6
              /\ d.op = "dhcp4" => d.onError = "ignore"
  <2>1. /\ d.op = "del6" /\ d.onError = "return" => d.arg \in w.ip6
        /\ d.op = "dhcp4" => d.onError = "ignore"
    BY <1>5 DEF FineIp
  <2>2. d.op = "del6" /\ c.op = "del6" => c.arg # d.arg
    BY <1>3 DEF Before
  <2>3. d.op = "del6" => (d.arg \in w.ip6 => d.arg \in w2.ip6)
    BY <1>8, <2>2
  <2> QED
    BY <2>1, <2>3
<1>11. Has(rest, {"set4"}) \/ \A d \in ToSet(rest) : d.op = "add4" => d.arg \notin w2.ip4
  <2>1. CASE c.op = "set4"
    <3>1. w2.ip4 = {c.arg}
      BY <1>7, <2>1
    <3> QED
      BY <1>6, <2>1, <3>1 DEF AddedTo
  <2>2. CASE c.op = "add4"
    <3>1. w2.ip4 = w.ip4 \cup {c.arg}
      BY <1>7, <2>2
    <3>2. ~Has(list, {"set4"})
      BY <1>3, <1>5, <2>2 DEF Before, Has
    <3>3. \A d \in ToSet(rest) : d.op = "add4" => d.arg \notin w.ip4
      BY <1>5, <3>2 DEF FineIp
    <3> QED
      BY <1>6, <2>2, <3>1, <3>3 DEF AddedTo
  <2>3. CASE c.op \notin {"set4", "add4"}
    <3>1. w2.ip4 \subseteq w.ip4
      BY <1>7, <2>3
    <3>2. CASE Has(list, {"set4"})
      BY <1>5, <2>3, <3>2 DEF Has
    <3>3. CASE \A d \in ToSet(list) : d.op = "add4" => d.arg \notin w.ip4
      BY <1>5, <3>1, <3>3
    <3> QED
      BY <3>2, <3>3 DEF FineIp
  <2> QED
    BY <2>1, <2>2, <2>3
<1>12. ASSUME NEW d \in ToSet(rest), d.op = "put6", d.arg \in w2.ip6
       PROVE  \E e \in ToSet(rest) : e.op = "del6" /\ e.arg = d.arg
  <2>1. c.op = "put6" => c.arg # d.arg
    BY <1>6, <1>12 DEF AddedTo
  <2>2. d.arg \in w.ip6 /\ (c.op = "del6" => c.arg # d.arg)
    BY <1>8, <1>12, <2>1
  <2>3. PICK e \in ToSet(list) : e.op = "del6" /\ e.arg = d.arg
    BY <1>5, <1>12, <2>2 DEF FineIp
  <2>4. e \in ToSet(rest)
    BY <1>5, <2>2, <2>3
  <2> QED
    BY <2>3, <2>4
<1> QED
  BY <1>2, <1>9, <1>10, <1>11, <1>12 DEF FineIp, rest

\* A command is refused, and the next one is run.
LEMMA IpIgnoredFine ==
  ASSUME NEW list \in Seq(Commands), list # <<>>, Head(list).op # "set4", NEW w, FineIp(list, w),
         Head(list).op = "del6" => Head(list).arg \notin w.ip6
  PROVE  FineIp(Tail(list), w)
<1> DEFINE c == Head(list)
           rest == Tail(list)
<1>1. FirstOf(list, c, rest)
  BY SplitList
<1>2. InOrder(rest, NotTwice)
  BY SplitOrder DEF FineIp
<1>3. c.op # "set4" /\ (c.op = "del6" => c.arg \notin w.ip6)
  OBVIOUS
<1> HIDE DEF c, rest
<1>4. ToSet(list) = {c} \cup ToSet(rest)
  BY <1>1 DEF FirstOf
<1>5. ~Has(rest, {"wrong"})
  BY <1>4 DEF FineIp, Has
<1>6. \A d \in ToSet(rest) :
        /\ d.op = "del6" /\ d.onError = "return" => d.arg \in w.ip6
        /\ d.op = "dhcp4" => d.onError = "ignore"
  BY <1>4 DEF FineIp
<1>7. Has(rest, {"set4"}) \/ \A d \in ToSet(rest) : d.op = "add4" => d.arg \notin w.ip4
  <2>1. CASE Has(list, {"set4"})
    BY <1>3, <1>4, <2>1 DEF Has
  <2>2. CASE \A d \in ToSet(list) : d.op = "add4" => d.arg \notin w.ip4
    BY <1>4, <2>2
  <2> QED
    BY <2>1, <2>2 DEF FineIp
<1>8. ASSUME NEW d \in ToSet(rest), d.op = "put6", d.arg \in w.ip6
      PROVE  \E e \in ToSet(rest) : e.op = "del6" /\ e.arg = d.arg
  <2>1. PICK e \in ToSet(list) : e.op = "del6" /\ e.arg = d.arg
    BY <1>4, <1>8 DEF FineIp
  <2>2. e # c
    BY <1>3, <1>8, <2>1
  <2> QED
    BY <1>4, <2>1, <2>2
<1> QED
  BY <1>2, <1>5, <1>6, <1>7, <1>8 DEF FineIp, rest

\* A deletion is refused, and what is behind the last one is run.
LEMMA IpStoppedFine ==
  ASSUME NEW list, NEW rest \in Seq(Commands), ToSet(rest) \subseteq ToSet(list),
         ~Has(rest, {"del6"}), ~Has(list, {"set4", "add4", "put6", "wrong"}),
         NEW w, FineIp(list, w)
  PROVE  FineIp(rest, w)
<1>1. \A d \in ToSet(rest) : d.op \notin {"set4", "add4", "put6", "wrong", "del6"}
  BY DEF Has
<1>2. \A d \in ToSet(rest) : d.op = "dhcp4" => d.onError = "ignore"
  BY DEF FineIp
<1>3. ToSet(rest) \subseteq Commands
  BY Members
<1>4. \A c, d \in ToSet(rest) : <<c, d>> \in NotTwice
  BY <1>1, <1>3, DistinctIs DEF AddedTo
<1>5. InOrder(rest, NotTwice)
  BY <1>4, AllPairs
<1>6. ~Has(rest, {"wrong"})
  BY <1>1 DEF Has
<1> QED
  BY <1>1, <1>2, <1>5, <1>6 DEF FineIp

LEMMA EmptyIsFine ==
  ASSUME NEW list, list = <<>>, NEW w
  PROVE  FineIp(list, w) /\ (w.ip6 = found.ip6 => FineDhcp(list, w))
<1>1. /\ ~Has(list, {"wrong"}) /\ ~Has(list, {"dhcp4"}) /\ ~Has(list, {"del6"})
      /\ ToSet(list) = {}
  BY NothingLeft
<1>2. InOrder(list, NotTwice)
  <2>1. DOMAIN list = {}
    OBVIOUS
  <2> QED
    BY <2>1 DEF InOrder
<1> QED
  BY <1>1, <1>2 DEF FineIp, FineDhcp

LEMMA NowFine ==
  ASSUME opts' = opts, found' = found,
         failures' = {} /\ ~Reason =>
           /\ rc2' = 0
           /\ phase' = 2 => FineDhcp(todo', win')
           /\ phase' = 3 => FineIp(todo', win')
  PROVE  FineInv'
<1>1. Words("ip")' = Words("ip") /\ Words("hostname")' = Words("hostname")
      /\ Words("dhcp")' = Words("dhcp") /\ Given("hostname")' = Given("hostname")
  BY DEF Words, Given
<1>2. Value("ip")' = Value("ip") /\ Value("dhcp")' = Value("dhcp")
  BY <1>1 DEF Value, ToSet
<1>3. Asked(6)' = Asked(6) /\ (Dhcp6Asked' <=> Dhcp6Asked)
  BY SameOptions
<1>4. Reason' <=> Reason
  <2>1. BadName' <=> BadName
    BY <1>1 DEF BadName
  <2>2. Repeated(Words("ip"))' <=> Repeated(Words("ip"))
    BY <1>1 DEF Repeated
  <2>3. (6 \in Value("dhcp") /\ Asked(6) # {} /\ found.ip6 # {})'
        <=> 6 \in Value("dhcp") /\ Asked(6) # {} /\ found.ip6 # {}
    BY <1>2, <1>3
  <2>4. (Value("ip") \ (Addr4 \cup Addr6 \cup {RemoveV4}) # {})'
        <=> Value("ip") \ (Addr4 \cup Addr6 \cup {RemoveV4}) # {}
    BY <1>2
  <2>5. (Given("hostname") /\ BadName)' <=> Given("hostname") /\ BadName
    BY <1>1, <2>1
  <2> QED
    BY <2>2, <2>3, <2>4, <2>5 DEF Reason
<1>5. ASSUME FineDhcp(todo', win') PROVE FineDhcp(todo, win)'
  BY <1>3, <1>5 DEF FineDhcp, Has, ToSet
<1>6. ASSUME FineIp(todo', win') PROVE FineIp(todo, win)'
  BY <1>6 DEF FineIp, Has, ToSet, InOrder, NotTwice, AddedTo
<1> QED
  BY <1>4, <1>5, <1>6 DEF FineInv

\* set_dhcp() is called.
LEMMA CallDhcpFine ==
  ASSUME TypeOK, win = found
  PROVE  FineDhcp(Handler("dhcp"), win)
<1> DEFINE list == Handler("dhcp")
<1>1. CASE Given("dhcp") /\ differs
  <2>1. list = set_dhcp
    BY <1>1 DEF Handler, HandlerOf
  <2>2. DhcpPlan(list)
    BY <1>1, <2>1, SetDhcpPlan
  <2> HIDE DEF list
  <2>3. Has(list, {"dhcp4"}) => ~win.dhcp4
    BY <2>2 DEF DhcpPlan, Dhcp4Asked
  <2>4. \A c \in ToSet(list) : c.op = "del6" => c.arg \in win.ip6
    BY <2>2 DEF DhcpPlan
  <2>5. ~Dhcp6Asked => win.ip6 = found.ip6 /\ ~Has(list, {"del6"})
    BY <2>2 DEF DhcpPlan
  <2> QED
    BY <2>3, <2>4, <2>5 DEF FineDhcp, list
<1>2. CASE ~(Given("dhcp") /\ differs)
  <2>1. list = <<>>
    BY <1>2 DEF Handler
  <2> HIDE DEF list
  <2> QED
    BY <2>1, EmptyIsFine DEF list
<1> QED
  BY <1>1, <1>2

\* set_ip() is called.
LEMMA CallIpFine ==
  ASSUME TypeOK, ~Reason, NEW done, FineDhcp(done, win)
  PROVE  FineIp(Handler("ip"), win)
<1> DEFINE list == Handler("ip")
           words == Words("ip")
<1>1. CASE Given("ip") /\ differs
  <2>1. list = set_ip
    BY <1>1 DEF Handler, HandlerOf
  <2>2. IpPlan(set_ip)
    BY SetIpPlan
  <2>3. \A c \in ToSet(set_ip) : \/ \E k \in DOMAIN words : FromWord(c, words, k)
                                 \/ AtEndSix(c) \/ AtEndFour(c)
    BY IpCommands
  <2>4. InOrder(set_ip, NotTwice)
    BY SetIpDistinct DEF Reason
  <2>5. /\ \A x : x \in Value("ip") <=> \E k \in DOMAIN words : words[k] = x
        /\ \A x : x \in Asked(6) <=> x \in Addr6 /\ x \in Value("ip")
    BY AskedIs
  <2>6. ~Has(set_ip, {"wrong"})
    <3> SUFFICES ASSUME NEW c \in ToSet(set_ip), c.op = "wrong" PROVE FALSE
      BY DEF Has
    <3>1. ~AtEndSix(c) /\ ~AtEndFour(c)
      BY DEF AtEndSix, AtEndFour, IsDeletion
    <3>2. PICK k \in DOMAIN words : FromWord(c, words, k)
      BY <2>3, <3>1
    <3>3. words[k] \notin Addr4 \cup Addr6 \cup {RemoveV4}
      BY <3>2 DEF FromWord
    <3>4. words[k] \in Value("ip")
      BY <2>5
    <3> QED
      BY <3>3, <3>4 DEF Reason
  <2>7. ASSUME NEW c \in ToSet(set_ip), c.op = "del6", c.onError = "return"
        PROVE  c.arg \in win.ip6
    <3>1. ~AtEndSix(c) /\ ~AtEndFour(c)
      BY <2>7 DEF AtEndSix, AtEndFour, IsDeletion
    <3>2. PICK k \in DOMAIN words : FromWord(c, words, k)
      BY <2>3, <3>1
    <3>3. words[k] \in Addr6 /\ c.arg \in found.ip6
      BY <2>7, <3>2 DEF FromWord
    <3>4. words[k] \in Asked(6)
      BY <2>5, <3>3
    <3>5. 6 \notin Value("dhcp")
      BY <3>3, <3>4 DEF Reason
    <3>6. ~Dhcp6Asked
      BY <1>1, <3>5 DEF Dhcp6Asked
    <3> QED
      BY <3>3, <3>6 DEF FineDhcp
  <2>8. ASSUME NEW c \in ToSet(set_ip), c.op = "dhcp4" PROVE c.onError = "ignore"
    <3>1. \A k \in DOMAIN words : ~FromWord(c, words, k)
      BY <2>8 DEF FromWord
    <3>2. ~AtEndSix(c)
      BY <2>8 DEF AtEndSix, IsDeletion
    <3> QED
      BY <2>3, <3>1, <3>2 DEF AtEndFour
  <2>9. Has(set_ip, {"set4"}) \/ \A c \in ToSet(set_ip) : c.op = "add4" => c.arg \notin win.ip4
    <3>1. Args(set_ip, {"set4", "add4"}) = Asked(4) /\ (Asked(4) # {} => Has(set_ip, {"set4"}))
      BY <2>2, <2>6 DEF IpPlan
    <3>2. ASSUME NEW c \in ToSet(set_ip), c.op = "add4" PROVE Has(set_ip, {"set4"})
      <4>1. c.arg \in Args(set_ip, {"set4", "add4"})
        BY <3>2, ArgsIs
      <4> QED
        BY <3>1, <4>1
    <3> QED
      BY <3>2
  <2>10. ASSUME NEW c \in ToSet(set_ip), c.op = "put6", c.arg \in win.ip6
         PROVE  \E d \in ToSet(set_ip) : d.op = "del6" /\ d.arg = c.arg
    <3>1. c.arg \in found.ip6
      BY <2>10 DEF FineDhcp
    <3>2. Args(set_ip, {"del6"}) = found.ip6
      BY <2>2, <2>6 DEF IpPlan
    <3> QED
      BY <3>1, <3>2, ArgsIs
  <2> QED
    BY <2>1, <2>4, <2>6, <2>7, <2>8, <2>9, <2>10 DEF FineIp
<1>2. CASE ~(Given("ip") /\ differs)
  <2>1. list = <<>>
    BY <1>2 DEF Handler
  <2> HIDE DEF list
  <2> QED
    BY <2>1, EmptyIsFine DEF list
<1> QED
  BY <1>1, <1>2

\* What is refused does not end the handler.
LEMMA RefusedIsFine ==
  ASSUME TypeOK, KindInv, AddressInv, FineInv, failures = {}, ~Reason,
         todo # <<>>, Refused(win, Head(todo))
  PROVE  /\ Head(todo).onError # "return" /\ phase # 2 /\ Head(todo).op # "set4"
         /\ Head(todo).op = "del6" => Head(todo).arg \notin win.ip6
<1> DEFINE c == Head(todo)
<1>1. c \in ToSet(todo) /\ c \in Commands /\ phase \in 2..8 /\ todo \in Seq(Commands)
  BY KindAtWork
<1>2. \A d \in ToSet(Tail(todo)) : Before(c, d)
  BY <1>1, SplitList DEF AddressInv, ListInv
<1>3. ToSet(todo) = {c} \cup ToSet(Tail(todo))
  BY <1>1, SplitList DEF FirstOf
<1>4. Refused(win, c)
  OBVIOUS
<1> HIDE DEF c
<1>5. /\ c.op \in {"dhcp4", "add4", "del6", "put6", "adddns", "delgw", "addroute", "wrong"}
      /\ c.op = "dhcp4" => win.dhcp4
      /\ c.op = "add4" => c.arg \in win.ip4
      /\ c.op = "del6" => c.arg \notin win.ip6
      /\ c.op = "put6" => c.arg \in win.ip6
  BY <1>4 DEF Refused
<1>6. CASE phase = 2
  <2>1. c.op \in {"dns", "dhcp4", "del6", "unchanged"} /\ FineDhcp(todo, win)
    BY <1>1, <1>6, KindHere DEF FineInv
  <2>2. Has(todo, {"dhcp4"}) => ~win.dhcp4
    BY <2>1 DEF FineDhcp
  <2>3. c.op = "del6" => c.arg \in win.ip6
    BY <1>1, <2>1 DEF FineDhcp
  <2>4. c.op = "dhcp4" => Has(todo, {"dhcp4"})
    BY <1>1 DEF Has
  <2> QED
    BY <1>5, <2>1, <2>2, <2>3, <2>4
<1>7. CASE phase = 3
  <2>1. FineIp(todo, win)
    BY <1>7 DEF FineInv
  <2>2. c.op # "wrong"
    BY <1>1, <2>1 DEF FineIp, Has
  <2>3. /\ c.op = "del6" /\ c.onError = "return" => c.arg \in win.ip6
        /\ c.op = "dhcp4" => c.onError = "ignore"
    BY <1>1, <2>1 DEF FineIp
  <2>4. c.op # "add4"
    <3> SUFFICES ASSUME c.op = "add4" PROVE FALSE
      OBVIOUS
    <3>1. Has(todo, {"set4"})
      BY <1>1, <1>5, <2>1 DEF FineIp
    <3> QED
      BY <1>2, <1>3, <3>1 DEF Before, Has
  <2>5. c.op # "put6"
    <3> SUFFICES ASSUME c.op = "put6" PROVE FALSE
      OBVIOUS
    <3>1. PICK d \in ToSet(todo) : d.op = "del6" /\ d.arg = c.arg
      BY <1>1, <1>5, <2>1 DEF FineIp
    <3> QED
      BY <1>2, <1>3, <3>1 DEF Before
  <2>6. c.op \in {"set4", "add4", "del6", "put6", "wrong", "dns", "dhcp4"}
    BY <1>1, <1>7, KindHere
  <2> QED
    BY <1>5, <1>7, <2>2, <2>3, <2>4, <2>5, <2>6 DEF c
<1>8. CASE phase \in 4..8
  <2>1. c.onError # "return"
    <3>1. CASE phase \in {4, 7}
      BY <1>1, <3>1, KindHere
    <3>2. CASE phase = 6
      BY <1>1, <3>2, KindHere
    <3>3. CASE phase = 5
      BY <1>1, <1>5, <3>3, KindHere
    <3>4. CASE phase = 8
      <4>1. c.op \in {"host", "wrong", "domain", "convert", "computer"}
            /\ (c.op = "wrong" => BadName) /\ Given("hostname")
        BY <1>1, <3>4, KindHere
      <4>2. c.op = "wrong"
        BY <1>5, <4>1
      <4> QED
        BY <4>1, <4>2 DEF Reason
    <3> QED
      BY <1>8, <3>1, <3>2, <3>3, <3>4
  <2> QED
    BY <1>5, <1>8, <2>1 DEF c
<1> QED
  BY <1>1, <1>5, <1>6, <1>7, <1>8 DEF c

LEMMA CallFine ==
  ASSUME TypeOK, AddressInv, FineInv, CallHandler
  PROVE  FineInv'
<1>1. PICK n \in 1..7 :
        /\ phase = n /\ todo = <<>> /\ todo' = Handler(all_flags[n]) /\ phase' = n + 1
        /\ opts' = opts /\ found' = found /\ win' = win /\ failures' = failures /\ rc2' = rc2
  BY LenFlags DEF CallHandler
<1>2. ASSUME failures = {}, ~Reason
      PROVE  /\ rc2 = 0
             /\ n + 1 = 2 => FineDhcp(todo', win)
             /\ n + 1 = 3 => FineIp(todo', win)
  <2>1. rc2 = 0
    BY <1>2 DEF FineInv
  <2>2. ASSUME n = 1 PROVE FineDhcp(todo', win)
    <3>1. win = found
      BY <1>1, <2>2 DEF AddressInv
    <3>2. todo' = Handler("dhcp")
      BY <1>1, <2>2, Places
    <3> QED
      BY <3>1, <3>2, CallDhcpFine
  <2>3. ASSUME n = 2 PROVE FineIp(todo', win)
    <3>1. FineDhcp(todo, win)
      BY <1>1, <1>2, <2>3 DEF FineInv
    <3>2. todo' = Handler("ip")
      BY <1>1, <2>3, Places
    <3> QED
      BY <1>2, <3>1, <3>2, CallIpFine
  <2> QED
    BY <2>1, <2>2, <2>3
<1> QED
  BY <1>1, <1>2, NowFine

LEMMA CommandFine ==
  ASSUME TypeOK, KindInv, AddressInv, FineInv, Command
  PROVE  FineInv'
<1>1. /\ todo # <<>> /\ todo' = Tail(todo) /\ win' = Effect(win, Head(todo))
      /\ phase' = phase /\ opts' = opts /\ found' = found /\ failures' = failures /\ rc2' = rc2
  BY Zenon DEF Command
<1>2. /\ todo \in Seq(Commands) /\ Head(todo) \in Commands /\ win \in System
      /\ Head(todo) \in ToSet(todo)
  BY <1>1, KindAtWork
<1>3. AddressEffect(win, Head(todo), win')
  BY <1>1, <1>2, EffectIs
<1>4. \A d \in ToSet(Tail(todo)) : Before(Head(todo), d)
  BY <1>1, <1>2, SplitList DEF AddressInv, ListInv
<1>5. ASSUME failures = {}, ~Reason, phase = 2 PROVE FineDhcp(todo', win')
  <2>1. FineDhcp(todo, win) /\ Head(todo).op \in {"dns", "dhcp4", "del6", "unchanged"}
    BY <1>2, <1>5, KindHere DEF FineInv
  <2>2. FirstOf(todo, Head(todo), Tail(todo))
    BY <1>1, <1>2, SplitList
  <2> QED
    BY <1>1, <1>3, <1>4, <2>1, <2>2, DhcpStaysFine
<1>6. ASSUME failures = {}, ~Reason, phase = 3 PROVE FineIp(todo', win')
  <2>1. FineIp(todo, win)
    BY <1>6 DEF FineInv
  <2> QED
    BY <1>1, <1>2, <1>3, <1>4, <2>1, IpStaysFine
<1>7. failures = {} /\ ~Reason => rc2 = 0
  BY DEF FineInv
<1> QED
  BY <1>1, <1>5, <1>6, <1>7, NowFine

LEMMA RefusalFine ==
  ASSUME TypeOK, KindInv, AddressInv, FineInv, Refusal
  PROVE  FineInv'
<1> DEFINE ends == Head(todo).onError = "return" \/ (Head(todo).onError = "negative" /\ FALSE)
<1>1. /\ todo # <<>> /\ Refused(win, Head(todo)) /\ CommandFails(FALSE)
      /\ win' = win /\ failures' = failures
  BY DEF Refusal
<1>2. /\ todo' \in Rest(ends) /\ rc2' = IF ends THEN 1 ELSE rc2
      /\ phase' = phase /\ opts' = opts /\ found' = found
  BY <1>1 DEF CommandFails
<1>3. todo \in Seq(Commands) /\ phase \in 2..8
  BY <1>1, KindAtWork
<1>4. ASSUME failures = {}, ~Reason
      PROVE  /\ ~ends /\ rc2 = 0 /\ phase # 2 /\ Head(todo).op # "set4"
             /\ Head(todo).op = "del6" => Head(todo).arg \notin win.ip6
  BY <1>1, <1>4, RefusedIsFine DEF FineInv
<1> HIDE DEF ends
<1>5. ASSUME failures = {}, ~Reason, phase = 3 PROVE FineIp(todo', win)
  <2>1. ~ends /\ Head(todo).op # "set4" /\ FineIp(todo, win)
    BY <1>4, <1>5 DEF FineInv
  <2>2. CASE Head(todo).onError = "stop"
    <3>1. InOrder(todo, Order) /\ Errors(todo)
      BY <1>3, <1>5 DEF AddressInv, ListInv
    <3>2. Head(todo).op = "del6"
      <4>1. Head(todo) \in ToSet(todo)
        BY <1>1, KindAtWork
      <4> QED
        BY <2>2, <3>1, <4>1 DEF Errors
    <3>3. Behind(todo, todo')
      <4>1. PICK n \in DOMAIN todo : LastDeletion(n) /\ todo' = SubSeq(todo, n + 1, Len(todo))
        BY <1>2, <2>1, <2>2 DEF Rest
      <4>2. IsLastDeletion(todo, n)
        BY <4>1 DEF LastDeletion, IsLastDeletion
      <4> QED
        BY <4>1, <4>2 DEF Behind
    <3>4. /\ todo' \in Seq(Commands) /\ ToSet(todo') \subseteq ToSet(todo)
          /\ ~Has(todo', {"del6"}) /\ ~Has(todo, {"set4", "add4", "put6", "wrong"})
      BY <1>1, <1>3, <2>2, <3>1, <3>2, <3>3, StoppedList
    <3> QED
      BY <2>1, <3>4, IpStoppedFine
  <2>3. CASE Head(todo).onError # "stop"
    <3>1. todo' = Tail(todo)
      BY <1>2, <2>1, <2>3 DEF Rest
    <3> QED
      BY <1>1, <1>3, <1>4, <1>5, <2>1, <3>1, IpIgnoredFine
  <2> QED
    BY <2>2, <2>3
<1>6. failures' = {} /\ ~Reason =>
        /\ rc2' = 0
        /\ phase' = 2 => FineDhcp(todo', win')
        /\ phase' = 3 => FineIp(todo', win')
  BY <1>1, <1>2, <1>4, <1>5
<1> QED
  BY <1>2, <1>6, NowFine

LEMMA FineNext ==
  ASSUME TypeOK, KindInv, AddressInv, FineInv, [Next]_vars
  PROVE  FineInv'
<1>1. CASE Start
  <2>1. phase' = 1 /\ rc2' = 0
    BY <1>1 DEF Start
  <2> QED
    BY <2>1 DEF FineInv
<1>2. CASE CallHandler
  BY <1>2, CallFine
<1>3. CASE Command
  BY <1>3, CommandFine
<1>4. CASE Refusal
  BY <1>4, RefusalFine
<1>5. ASSUME NEW kind \in {"exit", "crash"}, Failure(kind) PROVE FineInv'
  BY <1>5 DEF Failure, Fault, FineInv
<1>6. CASE Finish
  <2>1. /\ phase' = 0 /\ opts' = opts /\ found' = found /\ failures' = failures /\ rc2' = rc2
    BY <1>6 DEF Finish
  <2>2. failures = {} /\ ~Reason => rc2 = 0
    BY DEF FineInv
  <2> QED
    BY <2>1, <2>2, NowFine
<1>7. CASE Kill
  BY <1>7 DEF Kill, Fault, FineInv
<1>8. CASE UNCHANGED vars
  <2>1. /\ phase' = phase /\ todo' = todo /\ rc2' = rc2
        /\ opts' = opts /\ found' = found /\ failures' = failures /\ win' = win
    BY <1>8 DEF vars
  <2>2. failures' = {} /\ ~Reason =>
          /\ rc2' = 0
          /\ phase' = 2 => FineDhcp(todo', win')
          /\ phase' = 3 => FineIp(todo', win')
    BY <2>1 DEF FineInv
  <2> QED
    BY <2>1, <2>2, NowFine
<1> QED
  BY <1>1, <1>2, <1>3, <1>4, <1>5, <1>6, <1>7, <1>8 DEF Next

\* In a run that meets no fault no handler ends early but for a value that is none or is
\* given twice, and where set_ip() deletes again what set_dhcp() has deleted: whatever the
\* adapter was like, each command of set_dhcp(), set_ip() and set_hostname() whose failure
\* would count finds what it needs.
THEOREM RefusedForAReasonHolds == Spec => []RefusedForAReason
<1>1. Init => FineInv
  BY DEF Init, FineInv
<1>2. TypeOK /\ KindInv /\ AddressInv /\ FineInv /\ [Next]_vars => FineInv'
  BY FineNext
<1>3. FineInv => RefusedForAReason
  <2> SUFFICES ASSUME FineInv, Smooth, rc2 # 0 PROVE Reason
    BY ReasonIs
  <2>1. failures = {}
    BY DEF Smooth
  <2> QED
    BY <2>1 DEF FineInv
<1> QED
  BY <1>1, <1>2, <1>3, TypeCorrect, KindInvHolds, AddressInvHolds, PTL DEF Spec
=============================================================================
