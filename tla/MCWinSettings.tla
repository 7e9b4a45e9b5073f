---------------------------- MODULE MCWinSettings ----------------------------
(***************************************************************************)
(* WinSettings with two addresses of each family, two gateways of IPv4, an *)
(* adapter that has addresses of its own or none, and the options that     *)
(* look at each other in all combinations.                                 *)
(***************************************************************************)
EXTENDS WinSettings

CONSTANTS a1, b1, x, y, s, s2, t, g, h, k, r, r2, here, other, NAME, corp

MCNetbiosOf == [n \in Host |-> NAME]

NoOptions == [kind \in {"dhcp", "ip", "gateway", "search", "dns", "route", "hostname"} |-> <<>>]

\* None or one option with one of the values.
Maybe(values) == {<<>>} \cup {<<v>> : v \in values}

AddressLines ==
  {[NoOptions EXCEPT !["dhcp"] = d, !["ip"] = i, !["dns"] = n] :
     d \in Maybe({<<4>>, <<6>>, <<4, 6>>}),
     i \in Maybe({<<b1>>, <<b1, b1>>, <<a1, y, b1>>, <<x>>, <<x, y, x>>,
                 <<RemoveV4>>, <<RemoveV4, a1>>, <<a1, Invalid>>}),
     n \in Maybe({<<s, t, s2>>})}
  \cup {[NoOptions EXCEPT !["dns"] = <<<<RemoveV4>>>>]}

GatewayLines ==
  {[NoOptions EXCEPT !["gateway"] = gw, !["route"] = <<<<r2, RemoveV4, r>>>>] :
     gw \in {<<<<g>>>>, <<<<h>>, <<g, k>>>>, <<<<RemoveV4>>, <<h>>>>, <<<<RemoveV6>>, <<g, h>>>>,
             <<<<RemoveV4>>, <<k>>>>}}

NameLines ==
  {[NoOptions EXCEPT !["hostname"] = <<<<n, d>>>>, !["search"] = se] :
     n \in {here, other}, d \in {None, Empty, Invalid, corp},
     se \in Maybe({<<corp>>, <<RemoveV4>>})}

MCLines == AddressLines \cup GatewayLines \cup NameLines

OnDhcp ==
  [dhcp4 |-> TRUE, ip4 |-> {}, ip6 |-> {},
   dns |-> [f \in {4, 6} |-> <<DHCP>>], gw |-> [f \in {4, 6} |-> {}], routes |-> {},
   reg |-> [n \in HostKeys |-> None], domain |-> [n \in DomainKeys |-> None],
   computer |-> [n \in ComputerKeys |-> None], search |-> <<>>]

ByHand ==
  [OnDhcp EXCEPT !.dhcp4 = FALSE, !.ip4 = {a1}, !.ip6 = {x, y},
                 !.gw = [f \in {4, 6} |-> IF f = 4 THEN {g} ELSE {k}],
                 !.dns = [f \in {4, 6} |-> IF f = 4 THEN <<s2>> ELSE <<t>>], !.routes = {r}]

MCSystems == {OnDhcp, ByHand}
=============================================================================
