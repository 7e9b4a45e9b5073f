---------------------------- MODULE MCBsdSettings ----------------------------
(***************************************************************************)
(* BsdSettings with one adapter, three routes of which two fit, an         *)
(* rc.prl_nettool that is missing, new, in use or cut short, and a         *)
(* resolv.conf with a final newline or without.                            *)
(***************************************************************************)
EXTENDS BsdSettings

CONSTANTS em0, addr, addr2, gw4, gw6, r1, r2, r3, host, s1, s2, domain, domain2

Req(kind, dev, values) == {[kind |-> kind, dev |-> dev, value |-> v] : v \in values}

MCRequests ==
  Req("dhcp", em0, {<<4>>, <<6>>, <<4, 6>>})
  \cup Req("ip", em0, {<<addr>>, <<addr, addr2>>})
  \cup Req("gateway", em0, {<<gw4>>, <<gw6, gw4>>, <<RemoveV4>>, <<gw4, RemoveV4>>,
                            <<RemoveV6, gw6>>})
  \cup Req("route", em0, {<<r1>>, <<r2>>, <<r3, r1>>})
  \cup Req("hostname", None, {<<host>>})
  \cup Req("dns", em0, {<<s1>>, <<s2>>, <<s1, s2>>})
  \cup Req("search", None, {<<domain2, domain>>})

\* Nothing yet; routes, a gateway and DHCP; routes whose items a cut has taken.
MCRcFiles ==
  {NoFile,
   <<>>,
   <<Item(IfconfigKey(em0, 4), DHCP), Item(RouterKey(4), gw4), Item(ListKey, <<0, 1>>),
     Item(RouteKey(0), <<r1, em0>>), Item(RouteKey(1), <<r2, em0>>)>>,
   <<Item(ListKey, <<0, 1>>), Item(RouteKey(0), <<r1, em0>>)>>}

MCOverlong == {<<addr, addr2>>}

\* s1 is a beginning of s2; and each is of what it becomes when its line runs on.
MCBegins == {<<s1, s2>>, <<s1, Garbled>>, <<s2, Garbled>>}

MCResolvFiles ==
  {[lines |-> <<Line("search", <<domain>>), Line("nameserver", <<s1>>)>>, ended |-> finished] :
     finished \in BOOLEAN}
=============================================================================
