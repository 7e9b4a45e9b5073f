-------------------------- MODULE MCApplyParameters --------------------------
(***************************************************************************)
(* Command lines and stored configurations for the runs of                 *)
(* ApplyParameters: two adapters, one MAC address that is not there.       *)
(***************************************************************************)
EXTENDS ApplyParameters, FiniteSets, FiniteSetsExt, SequencesExt

CONSTANTS eth1, eth10, gone, a, b, a6, p6, g, h, g6, r

\* a6 continues p6, as 1::2:3 continues 1::2.
PartOfLonger == {<<p6, a6>>}

MCDevices == <<eth1, eth10>>
NameOfOther == {<<eth1, eth10>>}
NoName == {}

Opt(type, mac, value) == [type |-> type, mac |-> mac, value |-> value]

\* Options for one adapter, one or two of each kind, and for the other ones.
Pool == {
  Opt("dhcp", eth1, <<"4">>), Opt("dhcp", eth1, <<"6", "4">>),
  Opt("ip", eth1, <<a>>), Opt("ip", eth1, <<a6, a, p6, b>>), Opt("ip", eth1, <<"remove">>),
  Opt("ip", eth1, <<>>),
  Opt("gateway", eth1, <<g>>), Opt("gateway", eth1, <<"remove">>),
  Opt("gateway", eth1, <<"remove", g6>>), Opt("gateway", eth10, <<"removev6">>),
  Opt("gateway", eth10, <<h>>), Opt("gateway", gone, <<g>>),
  Opt("ip", eth10, <<p6, a6>>), Opt("dhcp", eth10, <<"6">>),
  Opt("route", eth1, <<r>>),
  Opt("dns", eth1, <<a>>), Opt("search", None, <<"remove">>), Opt("hostname", None, <<b>>)}

\* The parser keeps one --dhcp record for an adapter.
Parsed(S) == \A o, p \in S : o.type = "dhcp" /\ p.type = "dhcp" /\ o.mac = p.mac => o = p

UpTo(n) == {S \in UNION {kSubset(k, Pool) : k \in 1..n} : Parsed(S)}

\* Every set of up to three options, in one order; of two, in every order.
Lines3 == {SetToSeq(S) : S \in UpTo(3)}
Lines2 == UNION {SetToSeqs(S) : S \in UpTo(2)}

Static == [Absent EXCEPT !.exists = TRUE, !.ips = {a}, !.alias = {b}, !.gw4 = h]
Dhcp   == [Absent EXCEPT !.exists = TRUE, !.dhcp4 = TRUE, !.dhcp6 = TRUE]

Found == {[d \in Dev |-> IF d = eth1 THEN c ELSE Static] : c \in {Absent, Static, Dhcp}}
==============================================================================
