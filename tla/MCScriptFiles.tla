---------------------------- MODULE MCScriptFiles ----------------------------
(***************************************************************************)
(* ScriptFiles with three addresses of IPv4 and three of IPv6, of which    *)
(* one is a part of the next (1::2, 1::2:3, 1::2:3:4), scripts of every    *)
(* kind one after the other, and an adapter that is configured already,    *)
(* uses DHCP, or has no file.                                              *)
(***************************************************************************)
EXTENDS ScriptFiles

CONSTANTS d, a, b, c, a6, p6, q6, g

PartOfNext == {<<q6, p6>>, <<p6, a6>>, <<q6, a6>>}

Req(op, value, protos) == [op |-> op, value |-> value, protos |-> protos]

MCRequests ==
  {Req("ip", v, {}) : v \in {<<>>, <<a>>, <<a, a6, b>>, <<b, a, c>>, <<"remove">>, <<a6>>,
                       <<a6, p6, b, q6>>, <<q6, a6, p6>>}}
  \cup {Req("ip", <<a6>>, {"4"}), Req("ip", <<c>>, {"6"})}
  \cup {Req("dhcp", <<>>, p) : p \in {{"4"}, {"6"}, {"4", "6"}}}

MCFiles ==
  {Absent,
   [Absent EXCEPT !.exists = TRUE, !.dhcp4 = TRUE],
   [Absent EXCEPT !.exists = TRUE, !.ips = {c, a6}, !.alias = {a, b}, !.gw4 = g]}
=============================================================================
