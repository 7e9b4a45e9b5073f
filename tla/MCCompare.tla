------------------------------ MODULE MCCompare ------------------------------
(***************************************************************************)
(* Compare with an adapter, a VLAN and a bridge that share one hardware    *)
(* address, and a second adapter that may be absent; 10.0.0.1 is a part of *)
(* 10.0.0.10.                                                              *)
(***************************************************************************)
EXTENDS Compare

CONSTANTS e1, e2, vlan, br, m1, m2, a, a10, a6, g, h, s, domain, remove

MCLinks == <<e1, vlan, br, e2>>
MCMacOf == [l \in {e1, vlan, br, e2} |-> IF l = e2 THEN <<m2>> ELSE <<m1>>]
MCPart  == {<<a, a10>>}

Opt(word, args) == [word |-> word, args |-> args]

SetOptions ==
  {Opt("--ip", <<<<m1>>, <<a10>>>>), Opt("--ip", <<<<m1>>, <<a6, a10>>>>),
   Opt("--dhcp", <<<<m1>>>>), Opt("--dhcpv6", <<<<m1>>>>), Opt("--dhcp", <<<<m2>>>>),
   Opt("--gateway", <<<<m2>>, <<g>>>>), Opt("--gateway", <<<<m1>>, <<remove, h>>>>),
   Opt("--dns", <<<<m1>>, <<s>>>>), Opt("--hostname", <<<<domain>>>>), Opt("--compare", <<>>)}
Slips ==
  {Opt("--ip", <<>>), Opt("--ip", <<<<m1>>>>), Opt("--all", <<>>), Opt("--help", <<>>),
   Opt("stray", <<>>)}
GetOptions ==
  {Opt("--ip", <<>>), Opt("--ip", <<<<m1>>>>), Opt("--dhcp", <<<<m2>>>>), Opt("--dhcp", <<>>),
   Opt("--default-route", <<<<m1>>>>), Opt("--dns", <<>>), Opt("--dhcpv6", <<>>), Opt("--all", <<>>),
   Opt("--search-domain", <<>>)}

Command(word, options) == [action |-> word, options |-> options]

UpTo2(S) == {<<>>} \cup {<<o>> : o \in S} \cup (S \X S)

MCCommands ==
  {Command("set", o) : o \in UpTo2(SetOptions)}
  \cup {Command("set", <<p>> \o o) : o \in (SetOptions \X SetOptions),
          p \in {Opt("--compare", <<>>), Opt("--dhcp", <<<<m1>>>>)}}
  \cup {Command("set", o) : o \in UpTo2(Slips \cup {Opt("--dhcp", <<<<m1>>>>)})}
  \cup {Command("get", o) : o \in UpTo2(GetOptions)}
  \cup {Command(w, <<Opt("--ip", <<>>)>>) : w \in {"clean", "restart", "show"}}

Ips(one, two) == [l \in {e1, vlan, br, e2} |-> IF l = e1 THEN one ELSE IF l = e2 THEN two ELSE <<>>]

MCKernels ==
  {[links |-> {e1, vlan, br, e2}, ip |-> Ips(<<a, a10>>, <<>>), gateway |-> <<g>>],
   [links |-> {e1, br}, ip |-> Ips(<<a10, a6>>, <<>>), gateway |-> <<h>>]}

MCGuests ==
  {[dns |-> <<s>>, dhcp |-> [l \in {e1, vlan, br, e2} |-> {4}]],
   [dns |-> <<>>, dhcp |-> [l \in {e1, vlan, br, e2} |-> IF l = e1 THEN {4, 6} ELSE {}]]}
=============================================================================
