-------------------------------- MODULE Ifcfg --------------------------------
(***************************************************************************)
(* What the redhat-*.sh scripts leave in the configuration of an adapter:  *)
(* its ifcfg file, the ifcfg-<name>:<n> alias files of its further IPv4    *)
(* addresses and its route file, on a guest where NetworkManager is not    *)
(* running.  A configuration is a record; a script is an operator from the *)
(* configuration it finds to the one it leaves.                            *)
(***************************************************************************)
EXTENDS Sequences, Integers

CONSTANTS
  Dev,            \* the guest's adapters, by MAC address
  Addr4, Addr6,   \* addresses given to --ip: words without a colon, and with one
  PartOf,         \* <<x, y>>: the address of x (without its prefix length) is in y's text,
                  \* as a word to grep -w
  Gw4, Gw6,       \* gateways given to --gateway
  Route,          \* routes given to --route
  None            \* no value

ASSUME NoneAssumption == None \notin Dev \cup Gw4 \cup Gw6
ASSUME FamiliesAssumption ==
  Gw4 \cap Gw6 = {} /\ {"remove", "removev6"} \cap (Addr4 \cup Addr6 \cup Gw4 \cup Gw6) = {}

\* The address is colons and digits, so a part of a part is a part.
ASSUME PartOfAssumption ==
  /\ PartOf \subseteq Addr6 \X Addr6
  /\ \A x, y, z \in Addr6 : <<x, y>> \in PartOf /\ <<y, z>> \in PartOf => <<x, z>> \in PartOf

Config == [exists: BOOLEAN,                     \* ifcfg-<name> is there
           dhcp4: BOOLEAN, dhcp6: BOOLEAN,      \* BOOTPROTO=dhcp, DHCPV6C=yes
           ips: SUBSET (Addr4 \cup Addr6),      \* IPADDR, IPV6ADDR and its secondaries
           alias: SUBSET Addr4,                 \* IPADDR of the alias files
           gw4: Gw4 \cup {None},                \* GATEWAY
           gw6: Gw6 \cup {None}]                \* IPV6_DEFAULTGW

Absent == [exists |-> FALSE, dhcp4 |-> FALSE, dhcp6 |-> FALSE,
           ips |-> {}, alias |-> {}, gw4 |-> None, gw6 |-> None]

\* What a route file may hold: the routes of --route, the gateways of --gateway.
RouteFile == SUBSET (Route \cup Gw4)

Tokens(value) == {value[n] : n \in DOMAIN value}

Removes(value) == "remove" \in Tokens(value)

IPv4Of(value) == Tokens(value) \cap Addr4
IPv6Of(value) == Tokens(value) \cap Addr6

\* The address create_config() puts into ifcfg-<name> itself: the first IPv4 one.
FirstIPv4(value) ==
  {value[n] : n \in {m \in DOMAIN value :
                       value[m] \in Addr4 /\ \A k \in 1..(m - 1) : value[k] \notin Addr4}}

\* The words add_ip6() writes: it passes over an address that grep -qw finds in the file,
\* be it the same with another prefix length or a part of a longer one, and reports nothing.
WrittenIPv6(value) ==
  {value[n] : n \in {m \in DOMAIN value :
                       /\ value[m] \in Addr6
                       /\ \A k \in 1..(m - 1) : <<value[m], value[k]>> \notin PartOf}}

\* redhat-set_dhcp.sh writes ifcfg-<name> anew; the alias files go when IPv4 is dynamic.
DhcpConfig(c, protos) ==
  [Absent EXCEPT !.exists = TRUE,
                 !.dhcp4  = "4" \in protos,
                 !.dhcp6  = "6" \in protos,
                 !.alias  = IF "4" \in protos THEN {} ELSE c.alias]

\* redhat-set_ip.sh, a list of addresses: everything is written anew.  "protos" is the
\* --dhcp of the same command line; DHCP stays for a family without a static address.
\* Of an empty list nothing is written, and the old file is removed all the same.
StaticConfig(value, protos) ==
  IF Tokens(value) = {} THEN Absent ELSE
  [Absent EXCEPT !.exists = TRUE,
                 !.dhcp4  = IPv4Of(value) = {} /\ "4" \in protos,
                 !.dhcp6  = IPv6Of(value) = {} /\ "6" \in protos,
                 !.ips    = FirstIPv4(value) \cup WrittenIPv6(value),
                 !.alias  = IPv4Of(value) \ FirstIPv4(value)]

\* redhat-set_ip.sh, "remove": the file without its addresses, if there is one.
NoAddressConfig(c) ==
  IF c.exists THEN [c EXCEPT !.ips = {}, !.alias = {}] ELSE Absent

IpConfig(c, value, protos) ==
  IF Removes(value) THEN NoAddressConfig(c) ELSE StaticConfig(value, protos)

\* redhat-set_gateway.sh: what one word of its list does to the ifcfg file ...
GatewayConfig(c, word) ==
  CASE word = "remove"   -> [c EXCEPT !.gw4 = None]
    [] word = "removev6" -> [c EXCEPT !.gw6 = None]
    [] word \in Gw4      -> [c EXCEPT !.gw4 = word]
    [] word \in Gw6      -> [c EXCEPT !.gw6 = word]

\* ... to the route file ...
GatewayRoutes(file, word) == IF word \in Gw4 THEN file \cup {word} ELSE file

\* ... and to IPV6_DEFAULTDEV, which all adapters share.
GatewayDev(dev6, word, d) ==
  CASE word = "removev6" -> None
    [] word \in Gw6      -> d
    [] OTHER             -> dev6

\* redhat-set_route.sh moves the old route file aside and writes the routes asked for.
RoutesOf(value) == Tokens(value) \cap Route
==============================================================================
