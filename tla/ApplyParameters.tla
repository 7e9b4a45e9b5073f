--------------------------- MODULE ApplyParameters ---------------------------
(***************************************************************************)
(* "prl_nettool set" on a Red Hat guest: apply_parameters() (nettool.c),   *)
(* the handlers it calls (Linux/setnet.c) and what their scripts leave     *)
(* behind (Ifcfg).  The options are a list with the newest first; they are *)
(* worked off by kind, in the order of Phases, and within a kind adapter   *)
(* by adapter, but for the gateways, which are worked off record by        *)
(* record.  A script may fail before or after it changed its files.        *)
(*                                                                         *)
(* Only the stored configuration is modelled: the addresses and routes in  *)
(* the kernel follow it when the scripts restart the adapter.              *)
(***************************************************************************)
EXTENDS Ifcfg

CONSTANTS
  Missing,        \* MAC addresses no adapter has
  Devices,        \* the adapters in the order of the netinfo list
  CommandLines,   \* command lines considered: sequences of options
  Configurations, \* stored configurations a run may find, functions on Dev
  LongerName,        \* pairs <<d, e>>: the name of e is that of d and more (eth1, eth10)
  CompareModes,   \* values of net_opts.compare
  Failures        \* scripts may fail

\* MUTANT of Phases: addresses before DHCP.
PhasesIpFirst == <<"ip", "dhcp", "gateway", "search", "dns", "route", "hostname">>

\* MUTANT of Phases: gateways before addresses.
PhasesIpLast == <<"dhcp", "search", "gateway", "ip", "dns", "route", "hostname">>

\* MUTANT of Phases: routes before gateways.
PhasesRouteFirst == <<"dhcp", "route", "gateway", "search", "dns", "ip", "hostname">>

\* all_flags, in its order.
Phases == <<"dhcp", "ip", "gateway", "search", "dns", "route", "hostname">>

\* One record of net_opts.macs; a value is the list of its words.
Word == {"4", "6", "remove", "removev6", None}
          \cup Addr4 \cup Addr6 \cup Gw4 \cup Gw6 \cup Route
GatewayWord == {"remove", "removev6"} \cup Gw4 \cup Gw6
IpWord == {"remove"} \cup Addr4 \cup Addr6
Option == [type  : {Phases[n] : n \in DOMAIN Phases} \cup {"none"},
           mac   : Dev \cup Missing \cup {None},
           value : Seq(Word)]
IsOptions(list) ==
  /\ list \in Seq(Option)
  /\ \A k \in DOMAIN list :
       /\ list[k].type = "gateway" => /\ list[k].mac # None
                                      /\ list[k].value \in Seq(GatewayWord)
       /\ list[k].type = "ip" => list[k].value \in Seq(IpWord)

ASSUME DevicesAssumption == /\ Devices \in Seq(Dev)
                            /\ \A d \in Dev : \E k \in DOMAIN Devices : Devices[k] = d
ASSUME ConfigurationsAssumption == Configurations \subseteq [Dev -> Config]
ASSUME CommandLinesAssumption == \A line \in CommandLines : IsOptions(line)
ASSUME LongerNameAssumption == LongerName \subseteq Dev \X Dev
ASSUME ModesAssumption == CompareModes \subseteq BOOLEAN /\ Failures \in BOOLEAN

VARIABLES
  opts,     \* net_opts.macs
  changed,  \* adapters with netinfo.changed
  dhcp4,    \* adapters with netinfo.configured_with_dhcp
  dhcp6,    \* adapters with netinfo.configured_with_dhcpv6
  cfg,      \* the adapters' ifcfg files
  routes,   \* their route files
  dev6,     \* IPV6_DEFAULTDEV in /etc/sysconfig/network
  dns,      \* what set_dns.sh last stored: name servers, search domain, host name
  phase,    \* index into Phases; 0: not begun
  at,       \* which loop of the phase: "device", "remove", "set"; "script": redhat-set_gateway.sh
  i,        \* the loop's position, in Devices or in opts
  word,     \* the script's position in its list
  rc, rc2,  \* apply_parameters()'s rc and rc2
  failed,   \* history: adapters with a failed script, None for a script of no adapter
  skipped   \* history: adapters whose gateway or routes were not changed because of DHCP

netinfo == <<changed, dhcp4, dhcp6>>
stored  == <<cfg, routes, dev6, dns>>
result  == <<rc, rc2, failed>>
vars    == <<opts, netinfo, stored, phase, at, i, word, result, skipped>>

Kind == Phases[phase]
Done == phase > Len(Phases)

\* The option d's handler is given: get_opt_mac(), the newest of the kind.
HasOpt(d, kind) == \E k \in DOMAIN opts : opts[k].mac = d /\ opts[k].type = kind
OptOf(d, kind) ==
  opts[CHOOSE k \in DOMAIN opts :
         /\ opts[k].mac = d /\ opts[k].type = kind
         /\ \A n \in 1..(k - 1) : ~(opts[n].mac = d /\ opts[n].type = kind)].value

\* The --dhcp of d on this command line, as set_ip() passes it to its script.
ProtosOf(d) == IF HasOpt(d, "dhcp") THEN Tokens(OptOf(d, "dhcp")) ELSE {}

TypeOK ==
  /\ IsOptions(opts)
  /\ changed \subseteq Dev /\ dhcp4 \subseteq Dev /\ dhcp6 \subseteq Dev
  /\ cfg \in [Dev -> Config]
  /\ routes \in [Dev -> RouteFile]
  /\ dev6 \in Dev \cup {None}
  /\ phase \in 0..(Len(Phases) + 1)
  /\ at \in {"device", "remove", "set", "script"}
  /\ i \in Nat \ {0} /\ word \in Nat \ {0}
  /\ at # "device" => phase = 3
  /\ at = "script" => i \in DOMAIN opts /\ opts[i].type = "gateway"
  /\ phase # 0 => \A k \in DOMAIN opts : opts[k].type = "gateway" => opts[k].mac \in Dev
  /\ rc \in {0, 1} /\ rc2 \in {0, 1}
  /\ failed \subseteq Dev \cup {None} /\ skipped \subseteq Dev

Init ==
  /\ \E line \in CommandLines : opts = [k \in DOMAIN line |-> line[Len(line) + 1 - k]]
  /\ changed = {} /\ dhcp4 = {} /\ dhcp6 = {}
  /\ cfg \in Configurations
  /\ routes \in [Dev -> {{}, Route}]
  /\ dev6 \in {None} \cup {d \in Dev : cfg[d].gw6 # None}
  /\ dns = [server |-> None, search |-> None, hostname |-> None]
  /\ phase = 0 /\ at = "device" /\ i = 1 /\ word = 1
  /\ rc = 0 /\ rc2 = 0
  /\ failed = {} /\ skipped = {}

(***************************************************************************)
(* Before the loops: the adapters are listed with the DHCP state that      *)
(* redhat-get_dhcp.sh reads from their files, options for adapters that    *)
(* are not there are dropped, and the adapters to change are determined.   *)
(***************************************************************************)
IsKnown(mac) == mac \in Dev \cup {None}

\* is_equal_dhcp(), with the flags just read.
DhcpDiffers(d) ==
  /\ HasOpt(d, "dhcp")
  /\ \/ cfg[d].dhcp4 # ("4" \in ProtosOf(d))
     \/ cfg[d].dhcp6 # ("6" \in ProtosOf(d))

Prepare ==
  /\ phase = 0
  /\ dhcp4' = {d \in Dev : cfg[d].dhcp4}
  /\ dhcp6' = {d \in Dev : cfg[d].dhcp6}
  /\ opts' = [k \in DOMAIN opts |->
                IF IsKnown(opts[k].mac) THEN opts[k] ELSE [opts[k] EXCEPT !.type = "none"]]
  /\ \E compare \in CompareModes : \E differs \in SUBSET Dev :
       \* differs: adapters whose addresses, gateways or DNS servers, as the kernel
       \* reports them, are not those asked for
       changed' = {d \in Dev :
                     IF compare
                     THEN \/ DhcpDiffers(d)
                          \/ d \in differs /\ \E kind \in {"ip", "gateway", "dns"} : HasOpt(d, kind)
                     ELSE \E k \in DOMAIN opts : opts[k].mac = d}
  /\ phase' = 1
  /\ UNCHANGED <<stored, at, i, word, result, skipped>>

(***************************************************************************)
(* The loop over the adapters.                                             *)
(***************************************************************************)

\* The handler of the phase is called for the adapter at position k.
Handled(k) == HasOpt(Devices[k], Kind) /\ Devices[k] \in changed

\* d is the next adapter of the loop.
At(d) ==
  /\ phase \in DOMAIN Phases
  /\ at = "device"
  /\ \E k \in DOMAIN Devices :
       /\ k >= i /\ Devices[k] = d /\ Handled(k)
       /\ \A n \in DOMAIN Devices : n >= i /\ Handled(n) => n >= k
       /\ i' = k + 1

\* MUTANT of Returns: the result of the last handler only.
ReturnsLast(d, r) ==
  /\ rc' = r
  /\ rc2' = r
  /\ failed' = IF r # 0 THEN failed \cup {d} ELSE failed

\* rc is the handler's result; rc2 keeps the last one that was not 0.
Returns(d, r) ==
  /\ rc' = r
  /\ rc2' = IF r # 0 THEN r ELSE rc2
  /\ failed' = IF r # 0 THEN failed \cup {d} ELSE failed

Outcome == IF Failures THEN {0, 1} ELSE {0}

\* set_dhcp(): the flags are set whatever the script returns, and never cleared.
Flags(d) ==
  /\ dhcp4' = IF "4" \in ProtosOf(d) THEN dhcp4 \cup {d} ELSE dhcp4
  /\ dhcp6' = IF "6" \in ProtosOf(d) THEN dhcp6 \cup {d} ELSE dhcp6

SetDhcp(d) ==
  /\ At(d)
  /\ Kind = "dhcp"
  /\ cfg' = [cfg EXCEPT ![d] = DhcpConfig(cfg[d], ProtosOf(d))]
  /\ Flags(d)
  /\ \E r \in Outcome : Returns(d, r)
  /\ UNCHANGED <<opts, changed, routes, dev6, dns, phase, at, word, skipped>>

SetDhcpFails(d) ==
  /\ At(d)
  /\ Kind = "dhcp"
  /\ Failures
  /\ Flags(d)
  /\ Returns(d, 1)
  /\ UNCHANGED <<opts, changed, stored, phase, at, word, skipped>>

\* redhat-set_ip.sh removes "ifcfg-<name>*" before it moves the new files in.
SetIp(d) ==
  /\ At(d)
  /\ Kind = "ip"
  /\ cfg' = [e \in Dev |->
               IF e = d THEN IpConfig(cfg[d], OptOf(d, "ip"), ProtosOf(d))
               ELSE IF <<d, e>> \in LongerName THEN Absent
               ELSE cfg[e]]
  /\ dhcp4' = dhcp4 \ {d}
  /\ \E r \in Outcome : Returns(d, r)
  /\ UNCHANGED <<opts, changed, dhcp6, routes, dev6, dns, phase, at, word, skipped>>

SetIpFails(d) ==
  /\ At(d)
  /\ Kind = "ip"
  /\ Failures
  /\ dhcp4' = dhcp4 \ {d}
  /\ Returns(d, 1)
  /\ UNCHANGED <<opts, changed, dhcp6, stored, phase, at, word, skipped>>

\* set_dns.sh; resolv.conf is one for all adapters.
SetDns(d) ==
  /\ At(d)
  /\ Kind = "dns"
  /\ dns' = [dns EXCEPT !.server = OptOf(d, "dns")]
  /\ Returns(d, 0)
  /\ UNCHANGED <<opts, netinfo, cfg, routes, dev6, phase, at, word, skipped>>

SetDnsFails(d) ==
  /\ At(d)
  /\ Kind = "dns"
  /\ Failures
  /\ Returns(d, 1)
  /\ UNCHANGED <<opts, netinfo, stored, phase, at, word, skipped>>

\* set_gateway() and set_route() leave an adapter alone that has both DHCP flags.
BothFlags(d) == d \in dhcp4 /\ d \in dhcp6

SetRoute(d) ==
  /\ At(d)
  /\ Kind = "route"
  /\ ~BothFlags(d)
  /\ routes' = [routes EXCEPT ![d] = RoutesOf(OptOf(d, "route"))]
  /\ \E r \in Outcome : Returns(d, r)
  /\ UNCHANGED <<opts, netinfo, cfg, dev6, dns, phase, at, word, skipped>>

SkipRoute(d) ==
  /\ At(d)
  /\ Kind = "route"
  /\ BothFlags(d)
  /\ skipped' = skipped \cup {d}
  /\ Returns(d, 0)
  /\ UNCHANGED <<opts, netinfo, stored, phase, at, word>>

\* In the gateway phase this loop calls nothing: it looks at the rc of an earlier call.
PassGateway(d) ==
  /\ At(d)
  /\ Kind = "gateway"
  /\ rc2' = IF rc # 0 THEN rc ELSE rc2
  /\ UNCHANGED <<opts, netinfo, stored, phase, at, word, rc, failed, skipped>>

\* An option of a kind that is not about an adapter.
GlobalOpt == Kind \in {"search", "hostname"} /\ \E k \in DOMAIN opts : opts[k].type = Kind

NoMoreDevices ==
  /\ phase \in DOMAIN Phases
  /\ at = "device"
  /\ \A k \in DOMAIN Devices : k >= i => ~Handled(k)

NextPhase ==
  /\ phase' = phase + 1
  /\ at' = "device"
  /\ i' = 1

EndDevices ==
  /\ NoMoreDevices
  /\ IF Kind = "gateway"
     THEN at' = "remove" /\ i' = 1 /\ UNCHANGED phase
     ELSE ~GlobalOpt /\ NextPhase
  /\ UNCHANGED <<opts, netinfo, stored, word, result, skipped>>

(***************************************************************************)
(* The options that are not about an adapter.  Their rc is another one     *)
(* than that of the loop; rc2 is the same.                                 *)
(***************************************************************************)
GlobalReturns(r) ==
  /\ rc2' = IF r # 0 THEN r ELSE rc2
  /\ failed' = IF r # 0 THEN failed \cup {None} ELSE failed

NewestOf(kind) ==
  opts[CHOOSE k \in DOMAIN opts :
         opts[k].type = kind /\ \A n \in 1..(k - 1) : opts[n].type # kind].value

\* set_dns.sh with a search domain; "remove" leaves none.
SetSearchDomain ==
  /\ NoMoreDevices /\ GlobalOpt
  /\ Kind = "search"
  /\ dns' = [dns EXCEPT !.search = IF NewestOf("search") = <<"remove">>
                                    THEN None ELSE NewestOf("search")]
  /\ GlobalReturns(0)
  /\ NextPhase
  /\ UNCHANGED <<opts, netinfo, cfg, routes, dev6, word, rc, skipped>>

SetHostname ==
  /\ NoMoreDevices /\ GlobalOpt
  /\ Kind = "hostname"
  /\ dns' = [dns EXCEPT !.hostname = NewestOf("hostname")]
  /\ GlobalReturns(0)
  /\ NextPhase
  /\ UNCHANGED <<opts, netinfo, cfg, routes, dev6, word, rc, skipped>>

SetGlobalFails ==
  /\ NoMoreDevices /\ GlobalOpt
  /\ Failures
  /\ GlobalReturns(1)
  /\ NextPhase
  /\ UNCHANGED <<opts, netinfo, stored, word, rc, skipped>>

(***************************************************************************)
(* The gateways: all records, adapters that need no change included; the   *)
(* records whose value is a part of "remove" first, then the others, each  *)
(* time the newest first.                                                  *)
(***************************************************************************)
IsSubstrOfRemove(value) == value \in {<<>>, <<"remove">>}

InPass(k) ==
  /\ opts[k].type = "gateway"
  /\ IF at = "remove" THEN IsSubstrOfRemove(opts[k].value) ELSE ~IsSubstrOfRemove(opts[k].value)

\* k is the next record of this pass.
AtRecord(k) ==
  /\ at \in {"remove", "set"}
  /\ k >= i /\ InPass(k)
  /\ \A n \in DOMAIN opts : n >= i /\ InPass(n) => n >= k

SkipGateway(k) ==
  /\ AtRecord(k)
  /\ BothFlags(opts[k].mac)
  /\ skipped' = skipped \cup {opts[k].mac}
  /\ rc' = 0
  /\ i' = k + 1
  /\ UNCHANGED <<opts, netinfo, stored, phase, at, word, rc2, failed>>

\* MUTANT of StartGateway: rm -f route-*, the route files of all adapters.
StartGatewayAll(k) ==
  /\ AtRecord(k)
  /\ ~BothFlags(opts[k].mac)
  /\ cfg[opts[k].mac].exists
  /\ routes' = [d \in Dev |-> {}]
  /\ at' = "script" /\ i' = k /\ word' = 1
  /\ UNCHANGED <<opts, netinfo, cfg, dev6, dns, phase, result, skipped>>

\* redhat-set_gateway.sh starts by removing the route file.
StartGateway(k) ==
  /\ AtRecord(k)
  /\ ~BothFlags(opts[k].mac)
  /\ cfg[opts[k].mac].exists
  /\ routes' = [routes EXCEPT ![opts[k].mac] = {}]
  /\ at' = "script" /\ i' = k /\ word' = 1
  /\ UNCHANGED <<opts, netinfo, cfg, dev6, dns, phase, result, skipped>>

\* No ifcfg file: error() is given no exit code and exits with that of its echo, 0.
GatewayNoFile(k) ==
  /\ AtRecord(k)
  /\ ~BothFlags(opts[k].mac)
  /\ ~cfg[opts[k].mac].exists
  /\ rc' = 0
  /\ i' = k + 1
  /\ UNCHANGED <<opts, netinfo, stored, phase, at, word, rc2, failed, skipped>>

\* One word of the script's list.
GatewayWordStep ==
  /\ at = "script"
  /\ word \in DOMAIN opts[i].value
  /\ LET d == opts[i].mac
         w == opts[i].value[word]
     IN /\ cfg' = [cfg EXCEPT ![d] = GatewayConfig(cfg[d], w)]
        /\ routes' = [routes EXCEPT ![d] = GatewayRoutes(routes[d], w)]
        /\ dev6' = GatewayDev(dev6, w, d)
  /\ word' = word + 1
  /\ UNCHANGED <<opts, netinfo, dns, phase, at, i, result, skipped>>

\* Back from the script, to the next record of the pass.
GatewayReturns(r) ==
  /\ Returns(opts[i].mac, r)
  /\ at' = IF IsSubstrOfRemove(opts[i].value) THEN "remove" ELSE "set"
  /\ i' = i + 1

\* A word cannot be written: the script exits there.  For IPv6 the ifcfg file may have
\* been written already.
GatewayWordFails ==
  /\ at = "script"
  /\ Failures
  /\ word \in DOMAIN opts[i].value
  /\ LET d == opts[i].mac
         w == opts[i].value[word]
     IN \/ UNCHANGED cfg
        \/ w \in {"removev6"} \cup Gw6 /\ cfg' = [cfg EXCEPT ![d] = GatewayConfig(cfg[d], w)]
  /\ GatewayReturns(1)
  /\ UNCHANGED <<opts, netinfo, routes, dev6, dns, phase, word, skipped>>

\* The adapter is restarted; the script's result is that of ifup.
EndGateway ==
  /\ at = "script"
  /\ word \notin DOMAIN opts[i].value
  /\ \E r \in Outcome : GatewayReturns(r)
  /\ UNCHANGED <<opts, netinfo, stored, phase, word, skipped>>

\* The end of a pass: from "remove first" to "then set", and from there to the next phase.
EndPass ==
  /\ at \in {"remove", "set"}
  /\ \A k \in DOMAIN opts : k >= i => ~InPass(k)
  /\ IF at = "remove" THEN at' = "set" /\ i' = 1 /\ UNCHANGED phase ELSE NextPhase
  /\ UNCHANGED <<opts, netinfo, stored, word, result, skipped>>

Next ==
  \/ Prepare
  \/ \E d \in Dev : \/ SetDhcp(d) \/ SetDhcpFails(d) \/ SetIp(d) \/ SetIpFails(d)
                     \/ SetDns(d) \/ SetDnsFails(d) \/ SetRoute(d) \/ SkipRoute(d)
                     \/ PassGateway(d)
  \/ EndDevices
  \/ SetSearchDomain \/ SetHostname \/ SetGlobalFails
  \/ \E k \in DOMAIN opts : SkipGateway(k) \/ StartGateway(k) \/ GatewayNoFile(k)
  \/ GatewayWordStep \/ GatewayWordFails \/ EndGateway \/ EndPass

Spec == Init /\ [][Next]_vars

(***************************************************************************)
(* What an operator who gave the command line would expect.                *)
(***************************************************************************)

\* Adapters whose name continues that of one --ip is given for: redhat-set_ip.sh for
\* eth1 removes the file of eth10.
Wiped == {d \in Dev : \E k \in DOMAIN opts :
                         opts[k].type = "ip" /\ <<opts[k].mac, d>> \in LongerName}

HasAddresses(c, words) ==
  /\ c.ips \cup c.alias \subseteq words
  /\ \A w \in words \ (c.ips \cup c.alias) : \E s \in c.ips : <<w, s>> \in PartOf

\* When the run ends without a failed script on d, an adapter that needed a change has
\* the addresses and the DHCP of the command line: static addresses where --ip gave
\* some, DHCP where --dhcp asked for it and --ip did not say otherwise.  set_dhcp() and
\* set_ip() each write the file anew, so this hangs on their order.  An address of IPv6
\* may be missing only if it is a part of one that is there (add_ip6).
AddressingAsAsked ==
  Done => \A d \in changed \ (failed \cup Wiped) :
    /\ HasOpt(d, "ip") /\ ~Removes(OptOf(d, "ip")) /\ Tokens(OptOf(d, "ip")) # {} =>
         /\ HasAddresses(cfg[d], Tokens(OptOf(d, "ip")))
         /\ cfg[d].dhcp4 <=> "4" \in ProtosOf(d) /\ IPv4Of(OptOf(d, "ip")) = {}
         /\ cfg[d].dhcp6 <=> "6" \in ProtosOf(d) /\ IPv6Of(OptOf(d, "ip")) = {}
    /\ HasOpt(d, "dhcp") /\ (HasOpt(d, "ip") => Removes(OptOf(d, "ip"))) =>
         /\ cfg[d].ips = {}
         /\ cfg[d].dhcp4 <=> "4" \in ProtosOf(d)
         /\ cfg[d].dhcp6 <=> "6" \in ProtosOf(d)

GatewayOpts(d) == {k \in DOMAIN opts : opts[k].type = "gateway" /\ opts[k].mac = d}

\* The last of the words in S that is in the list.
LastOf(value, S) ==
  value[CHOOSE n \in DOMAIN value :
          value[n] \in S /\ \A m \in DOMAIN value : m > n => value[m] \notin S]

\* ... and the gateways of the command line, if it has one --gateway for d: an earlier
\* phase would have them erased by a handler that writes the file anew.
GatewaysAsAsked ==
  Done => \A d \in Dev \ (failed \cup skipped) : \A k \in DOMAIN opts :
    GatewayOpts(d) = {k} /\ cfg[d].exists =>
      LET value == opts[k].value
          four  == {"remove"} \cup Gw4
          six   == {"removev6"} \cup Gw6
      IN /\ Tokens(value) \cap four # {} =>
              cfg[d].gw4 = IF LastOf(value, four) = "remove" THEN None ELSE LastOf(value, four)
         /\ Tokens(value) \cap six # {} =>
              cfg[d].gw6 = IF LastOf(value, six) = "removev6" THEN None ELSE LastOf(value, six)

\* ... and the routes of the command line: redhat-set_gateway.sh removes the route file,
\* so they must be written after the gateways.
RoutesAsAsked ==
  Done => \A d \in changed \ (failed \cup skipped) :
            HasOpt(d, "route") => routes[d] = RoutesOf(OptOf(d, "route"))

\* apply_parameters() returns an error if and only if one of the scripts did.
FailureReported == Done => (rc2 # 0 <=> failed # {})

\* No step of a run changes the files of an adapter that no option names.
OthersUntouched ==
  [][\A d \in Dev : (\A k \in DOMAIN opts : opts[k].mac # d) /\ d \notin Wiped =>
                      cfg'[d] = cfg[d] /\ routes'[d] = routes[d]]_vars

\* "remove gateway first", "then set": once the run is over, an IPv6 gateway it has set
\* is the default one, IPV6_DEFAULTDEV names an adapter that was given one.
SetAfterRemove ==
  Done /\ failed = {} =>
    LET given == {d \in Dev \ skipped : \E k \in GatewayOpts(d) :
                    cfg[d].gw6 # None /\ cfg[d].gw6 \in Tokens(opts[k].value)}
    IN given # {} => dev6 \in given
==============================================================================
