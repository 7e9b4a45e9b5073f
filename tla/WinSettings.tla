----------------------------- MODULE WinSettings -----------------------------
(***************************************************************************)
(* "prl_nettool set" on Windows, for one adapter: the handlers of setnet.c *)
(* in the order in which apply_parameters() calls them.  A handler is a    *)
(* list of netsh commands and registry writes; what becomes of the rest of *)
(* the list when one fails is a part of the command.  Any command may fail *)
(* or be refused, and the program may be killed between any two; a later   *)
(* invocation starts from what an earlier one has left.                    *)
(*                                                                         *)
(* This is the build for Windows Vista and later.  The flags               *)
(* configured_with_dhcp and ...v6 are read by set_dhcp() only, which comes *)
(* first: what the handlers assign to them later has no reader.            *)
(***************************************************************************)
EXTENDS SequencesExt

CONSTANTS
  Addr4, Addr6,         \* addresses with their masks
  Dns4, Dns6,           \* name servers
  Gateway4, Gateway6,   \* gateways
  Route,                \* routes
  RemoveV4, RemoveV6,   \* the words "remove" and "removev6"
  Host, Domain,         \* names DnsValidateName() accepts
  Invalid,              \* a word that is no name and no address
  Empty,                \* the empty name
  None,                 \* no value
  DHCP,                 \* in place of name servers: those of the DHCP server
  NetbiosOf,            \* DnsHostnameToComputerName()
  CommandLines,         \* command lines: for each kind of option its values, newest first
  Systems,              \* what the first invocation may find
  CompareModes,         \* values of net_opts.compare
  Faults,               \* of "exit": a command fails; "crash": with a negative code; "kill"
  MaxFaults, MaxRuns    \* bounds of the model

Family == {4, 6}

\* MUTANT of all_flags: the name servers before DHCP and the addresses.
FlagsDnsFirst == <<"dns", "dhcp", "ip", "gateway", "search", "route", "hostname">>

all_flags == <<"dhcp", "ip", "gateway", "search", "dns", "route", "hostname">>
Kind == ToSet(all_flags)

\* Values in the registry; two of them are called NV Hostname and NV Domain there.
HostKeys     == {"NV_Hostname", "Hostname"}
DomainKeys   == {"NV_Domain", "Domain"}
ComputerKeys == {"ActiveComputerName", "ComputerName"}

\* The adapter as Windows keeps it, and the registry.
System ==
  [dhcp4: BOOLEAN, ip4: SUBSET Addr4,
   ip6: SUBSET Addr6,              \* manual addresses only
   dns: [Family -> Seq(Dns4 \cup Dns6 \cup {DHCP})],
   gw: [Family -> SUBSET (Gateway4 \cup Gateway6)],
   routes: SUBSET Route,
   reg: [HostKeys -> Host \cup {None}],
   domain: [DomainKeys -> Domain \cup {Empty, None}],
   computer: [ComputerKeys -> {NetbiosOf[h] : h \in Host} \cup {None}],
   search: Seq(Domain \cup {RemoveV4})]

\* A command line: what there is of each kind of option, as far as it is looked at.
Word == Family \cup Addr4 \cup Addr6 \cup Dns4 \cup Dns6 \cup Gateway4 \cup Gateway6 \cup Route
          \cup Host \cup Domain \cup {RemoveV4, RemoveV6, Invalid, Empty, None}
IsLine(line) ==
  /\ line \in [Kind -> Seq(Seq(Word))]
  /\ \A n \in DOMAIN line["dhcp"] : line["dhcp"][n] \in Seq(Family)
  /\ \A n \in DOMAIN line["gateway"] :
       line["gateway"][n] \in Seq(Gateway4 \cup Gateway6 \cup {RemoveV4, RemoveV6})
  /\ \A n \in DOMAIN line["route"] : line["route"][n] \in Seq(Route \cup {RemoveV4, RemoveV6})
  /\ \A n \in DOMAIN line["search"] : line["search"][n] \in Seq(Domain \cup {RemoveV4})
  /\ \A n \in DOMAIN line["hostname"] :
       line["hostname"][n] \in (Host \cup {Invalid}) \X (Domain \cup {None, Empty, Invalid})

ASSUME LinesAssumption   == \A line \in CommandLines : IsLine(line)
ASSUME SystemsAssumption ==
  /\ Systems \subseteq System /\ IsFiniteSet(Addr6)
  /\ \A w \in Systems : w.dhcp4 => w.ip4 = {}
ASSUME NamesAssumption   ==
  Invalid \notin Host \cup {None} /\ {None, Empty, Invalid} \cap Domain = {}
ASSUME AddressesAssumption ==
  /\ Addr4 \cap (Addr6 \cup Dns6 \cup Gateway6) = {}
  /\ {RemoveV4, RemoveV6} \cap (Addr4 \cup Addr6 \cup Dns6 \cup Gateway6) = {}
  /\ RemoveV4 # RemoveV6 /\ DHCP \notin Dns4 \cup Dns6
ASSUME FaultsAssumption  == Faults \subseteq {"exit", "crash", "kill"} /\ CompareModes \subseteq BOOLEAN
ASSUME BoundsAssumption  == MaxFaults \in Nat /\ MaxRuns \in Nat

VARIABLES
  win,       \* the guest's settings
  opts,      \* this invocation's command line
  found,     \* the settings when it listed the adapters: netinfo
  differs,   \* netinfo.changed
  restart,   \* the families with netinfo.dhcp4_changed, dhcp6_changed
  phase,     \* place in all_flags; 0: no invocation
  todo,      \* commands the present handler has still to run
  rc2,       \* apply_parameters()'s rc2: 0 or 1
  restarted, \* the adapter has been turned off and on at the end
  failures,  \* history: faults met by this invocation
  faults, runs   \* counted against the bounds

vars == <<win, opts, found, differs, restart, phase, todo, rc2, restarted, failures, faults, runs>>

Given(kind) == opts[kind] # <<>>
\* The words of the option get_opt_mac() finds.
Words(kind) == IF Given(kind) THEN Head(opts[kind]) ELSE <<>>
Value(kind) == ToSet(Words(kind))

IsV6(word) == word \in Addr6 \cup Dns6 \cup Gateway6
FamilyOf(word) == IF IsV6(word) THEN 6 ELSE 4
IsRemove(word) == word \in {RemoveV4, RemoveV6}

-----------------------------------------------------------------------------
(* A command: what it does, to what, and what its failure does to the rest *)
(* of the handler: "return" ends it with an error, "negative" ends it so   *)
(* only for a negative code, "ignore" does nothing, "stop" drops the       *)
(* remaining deletions.                                                    *)

ForEach(list, Cmds(_)) == FlattenSeq([k \in DOMAIN list |-> Cmds(k)])

Cmd(op, arg, onError) == <<[op |-> op, arg |-> arg, onError |-> onError]>>

OnError == {"return", "negative", "ignore", "stop"}

\* The commands there are, with what they are about.
Commands ==
  [op: {"set4", "add4"}, arg: Addr4, onError: OnError]
  \cup [op: {"del6", "put6"}, arg: Addr6, onError: OnError]
  \cup [op: {"dhcp4", "delroute"}, arg: {None}, onError: OnError]
  \cup [op: {"unchanged", "delgw"}, arg: Family, onError: OnError]
  \cup [op: {"dns"}, arg: [family: Family, to: {<<>>, <<DHCP>>}], onError: OnError]
  \cup [op: {"adddns", "wrong", "convert"}, arg: Word, onError: OnError]
  \cup [op: {"addgw"}, arg: Gateway4 \cup Gateway6, onError: OnError]
  \cup [op: {"addroute"}, arg: Route, onError: OnError]
  \cup [op: {"host"}, arg: [key: HostKeys, to: Host], onError: OnError]
  \cup [op: {"domain"}, arg: [key: DomainKeys, to: Domain \cup {Empty}], onError: OnError]
  \cup [op: {"computer"}, arg: [key: ComputerKeys, to: {NetbiosOf[h] : h \in Host}],
         onError: OnError]
  \cup [op: {"search"}, arg: Seq(Domain \cup {RemoveV4}), onError: OnError]

\* What netsh and the registry make of a command.
Effect(w, c) ==
  CASE c.op = "set4"   -> [w EXCEPT !.dhcp4 = FALSE, !.ip4 = {c.arg}]
    [] c.op = "add4"   -> [w EXCEPT !.ip4 = @ \cup {c.arg}]
    [] c.op = "dhcp4"  -> [w EXCEPT !.dhcp4 = TRUE, !.ip4 = {}]
    [] c.op = "del6"   -> [w EXCEPT !.ip6 = @ \ {c.arg}]
    [] c.op = "put6"   -> [w EXCEPT !.ip6 = @ \cup {c.arg}]
    [] c.op = "dns"    -> [w EXCEPT !.dns[c.arg.family] = c.arg.to]
    [] c.op = "adddns" -> [w EXCEPT !.dns[FamilyOf(c.arg)] =
                               Append(IF @ = <<DHCP>> THEN <<>> ELSE @, c.arg)]
    [] c.op = "delgw"  -> [w EXCEPT !.gw[c.arg] = {}]
    [] c.op = "addgw"  -> [w EXCEPT !.gw[FamilyOf(c.arg)] = @ \cup {c.arg}]
    [] c.op = "delroute" -> [w EXCEPT !.routes = {}]
    [] c.op = "addroute" -> [w EXCEPT !.routes = @ \cup {c.arg}]
    [] c.op = "host"   -> [w EXCEPT !.reg[c.arg.key] = c.arg.to]
    [] c.op = "domain" -> [w EXCEPT !.domain[c.arg.key] = c.arg.to]
    [] c.op = "computer" -> [w EXCEPT !.computer[c.arg.key] = c.arg.to]
    [] c.op = "search" -> [w EXCEPT !.search = c.arg]
    [] OTHER           -> w

\* Commands Windows does not carry out: the thing is there already, is not there, or
\* is no address or name at all.
Refused(w, c) ==
  CASE c.op = "dhcp4"  -> w.dhcp4
    [] c.op = "add4"   -> c.arg \in w.ip4
    [] c.op = "del6"   -> c.arg \notin w.ip6
    [] c.op = "put6"   -> c.arg \in w.ip6
    [] c.op = "adddns" -> c.arg \notin Dns4 \cup Dns6
    [] c.op = "delgw"  -> w.gw[c.arg] = {}
    [] c.op = "addroute" -> c.arg \in w.routes
    [] c.op = "wrong"  -> TRUE
    [] OTHER           -> FALSE

-----------------------------------------------------------------------------
(* The handlers. *)

\* remove_ipv6_ips(): the manual addresses found at the start; the first error ends it.
remove_ipv6_ips(onError) ==
  LET list == SetToSeq(found.ip6)
  IN  ForEach(list, LAMBDA k : Cmd("del6", list[k], onError))

DnsFromDhcp(family, onError) == Cmd("dns", [family |-> family, to |-> <<DHCP>>], onError)

\* MUTANT of set_dhcp: no look at --ip; DHCPv6 only if it is asked for.
SetDhcpAsked ==
  (IF 4 \in Value("dhcp") /\ ~found.dhcp4
     THEN DnsFromDhcp(4, "return") \o Cmd("dhcp4", None, "return") ELSE <<>>)
  \o (IF 6 \in Value("dhcp")
        THEN DnsFromDhcp(6, "return") \o remove_ipv6_ips("return") ELSE <<>>)

\* No address of IPv6 by hand is what DHCPv6 is here, and what an adapter gets for
\* which no --ip is given.
set_dhcp ==
  (IF 4 \in Value("dhcp") /\ ~found.dhcp4
     THEN DnsFromDhcp(4, "return") \o Cmd("dhcp4", None, "return")
     ELSE Cmd("unchanged", 4, "ignore"))
  \o (IF (6 \in Value("dhcp") \/ ~Given("ip")) /\ found.ip6 # {}
        THEN DnsFromDhcp(6, "return") \o remove_ipv6_ips("return")
        ELSE Cmd("unchanged", 6, "ignore"))

First(words, k) == \A n \in 1..(k - 1) : IsRemove(words[n]) \/ FamilyOf(words[n]) # FamilyOf(words[k])

\* MUTANT of SetIpWord: the results for all addresses but the first are not looked at.
SetIpWordFirst(words, k) ==
  LET a == words[k]
  IN  IF a = RemoveV4 THEN <<>>
      ELSE IF a \in Addr4
             THEN IF First(words, k) THEN Cmd("set4", a, "return") ELSE Cmd("add4", a, "ignore")
      ELSE IF a \in Addr6 THEN remove_ipv6_ips("return") \o Cmd("put6", a, "return")
      ELSE Cmd("wrong", a, "return")

\* One word of set_ip()'s list; split_ip_mask() refuses what is no address.
SetIpWord(words, k) ==
  LET a == words[k]
  IN  IF a = RemoveV4 THEN <<>>
      ELSE IF a \in Addr4 THEN Cmd(IF First(words, k) THEN "set4" ELSE "add4", a, "return")
      ELSE IF a \in Addr6
             THEN (IF First(words, k) THEN remove_ipv6_ips("return") ELSE <<>>)
                  \o Cmd("put6", a, "return")
      ELSE Cmd("wrong", a, "return")

\* MUTANT of set_ip: the result of the switch to DHCP counts, too.
SetIpStrict ==
  LET words == Words("ip")
      of(f) == {a \in Value("ip") : ~IsRemove(a) /\ FamilyOf(a) = f}
  IN  ForEach(words, LAMBDA k : SetIpWord(words, k))
      \o (IF of(6) = {} THEN DnsFromDhcp(6, "ignore") \o remove_ipv6_ips("stop") ELSE <<>>)
      \o (IF RemoveV4 \in Value("ip") \/ (of(4) = {} /\ 4 \notin Value("dhcp"))
            THEN Cmd("dhcp4", None, "return") ELSE <<>>)

set_ip ==
  LET words == Words("ip")
      of(f) == {a \in Value("ip") : ~IsRemove(a) /\ FamilyOf(a) = f}
  IN  ForEach(words, LAMBDA k : SetIpWord(words, k))
      \o (IF of(6) = {} THEN DnsFromDhcp(6, "ignore") \o remove_ipv6_ips("stop") ELSE <<>>)
      \o (IF RemoveV4 \in Value("ip") \/ (of(4) = {} /\ 4 \notin Value("dhcp"))
            THEN Cmd("dhcp4", None, "ignore") ELSE <<>>)

\* exec_netsh() < 0 is all that set_dns() looks for.
set_dns ==
  LET words == Words("dns")
      firstOf(k) == \A n \in 1..(k - 1) : FamilyOf(words[n]) # FamilyOf(words[k])
  IN  ForEach(words, LAMBDA k :
        (IF firstOf(k) THEN Cmd("dns", [family |-> FamilyOf(words[k]), to |-> <<>>], "negative")
                       ELSE <<>>)
        \o Cmd("adddns", words[k], "negative"))

GatewayFamily(word) == IF IsV6(word) \/ word = RemoveV6 THEN 6 ELSE 4

set_gateway(words) ==
  ForEach(words, LAMBDA k :
    Cmd("delgw", GatewayFamily(words[k]), "ignore")
    \o (IF IsRemove(words[k]) THEN <<>> ELSE Cmd("addgw", words[k], "ignore")))

\* MUTANT of Gateways: one pass, oldest first.
GatewaysAsGiven ==
  LET records == Reverse(opts["gateway"])
  IN  ForEach(records, LAMBDA k : set_gateway(records[k]))

\* The records whose value is a part of "remove" first, then the others, newest first.
Gateways ==
  LET records == opts["gateway"]
      isPart(k) == records[k] = <<RemoveV4>>
  IN  ForEach(records, LAMBDA k : IF isPart(k) THEN set_gateway(records[k]) ELSE <<>>)
      \o ForEach(records, LAMBDA k : IF isPart(k) THEN <<>> ELSE set_gateway(records[k]))

set_route ==
  LET words == Words("route")
  IN  ForEach(words, LAMBDA k :
        IF IsRemove(words[k]) THEN Cmd("delroute", None, "ignore")
                              ELSE Cmd("addroute", words[k], "ignore"))

\* The list is params->value, "remove" included: the empty "value" has no use.
set_search_domain == Cmd("search", Words("search"), "return")

\* The same value under each of the names in turn.
SetReg(op, keys, to, onError) ==
  ForEach(keys, LAMBDA k : Cmd(op, [key |-> keys[k], to |-> to], onError))

\* MUTANT of set_hostname: the computer name before the domain.
SetHostnameComputerFirst ==
  LET host == Words("hostname")[1]
      domain == Words("hostname")[2]
  IN  SetReg("host", <<"NV_Hostname", "Hostname">>, host, "return")
      \o SetReg("computer", <<"ActiveComputerName", "ComputerName">>, NetbiosOf[host], "return")
      \o (IF domain \in Domain
            THEN SetReg("domain", <<"NV_Domain", "Domain">>, domain, "return") ELSE <<>>)

\* --hostname host.domain; the domain is checked after the host name is stored.
set_hostname ==
  LET host == Words("hostname")[1]
      domain == Words("hostname")[2]
      computer(h) == Cmd("convert", h, "return")
                     \o SetReg("computer", <<"ActiveComputerName", "ComputerName">>,
                             NetbiosOf[h], "return")
  IN  IF host \notin Host THEN Cmd("wrong", host, "return")
      ELSE SetReg("host", <<"NV_Hostname", "Hostname">>, host, "return")
           \o (CASE domain = None    -> <<>>
                 [] domain = Invalid -> Cmd("wrong", domain, "return")
                 [] OTHER -> SetReg("domain", <<"NV_Domain", "Domain">>, domain,
                                  IF domain = Empty THEN "ignore" ELSE "return"))
           \o computer(host)

HandlerOf(kind) ==
  CASE kind = "dhcp"  -> set_dhcp
    [] kind = "ip"    -> set_ip
    [] kind = "dns"   -> set_dns
    [] kind = "route" -> set_route
    [] OTHER          -> <<>>

\* What apply_parameters() runs for a kind of option: for the adapter, if it needs it;
\* for every gateway; and for the guest.
Handler(kind) ==
  IF ~Given(kind) THEN <<>>
  ELSE CASE kind = "gateway"  -> Gateways
         [] kind = "search"   -> set_search_domain
         [] kind = "hostname" -> set_hostname
         [] OTHER             -> IF differs THEN HandlerOf(kind) ELSE <<>>

-----------------------------------------------------------------------------
NoLine == [k \in Kind |-> <<>>]

TypeOK ==
  /\ win \in System /\ found \in System
  /\ IsLine(opts)
  /\ differs \in BOOLEAN /\ restarted \in BOOLEAN
  /\ restart \subseteq Family
  /\ phase \in 0..(Len(all_flags) + 1)
  /\ todo \in Seq(Commands) /\ (phase = 0 => todo = <<>>)
  /\ rc2 \in {0, 1}
  /\ failures \subseteq {"exit", "crash", "kill"}
  /\ faults \in 0..MaxFaults /\ runs \in 0..MaxRuns

Init ==
  /\ win \in Systems
  /\ opts = NoLine
  /\ found = win
  /\ differs = FALSE
  /\ restart = {}
  /\ phase = 0
  /\ todo = <<>>
  /\ rc2 = 0
  /\ restarted = FALSE
  /\ failures = {}
  /\ faults = 0 /\ runs = 0

Fault(kind) ==
  /\ kind \in Faults
  /\ faults < MaxFaults
  /\ faults' = faults + 1
  /\ failures' = failures \cup {kind}

\* Each family's DHCP is compared with what is asked for.
DhcpDifference(line) ==
  LET asked == ToSet(Head(line["dhcp"]))
      has   == (IF win.dhcp4 THEN {4} ELSE {}) \cup (IF win.ip6 = {} THEN {6} ELSE {})
  IN  (asked \ has) \cup (has \ asked)

\* MUTANT of dhcp_changed: is_equal_dhcp() is called in compare mode only, as in a build
\* without DEBUG_OPT_COMPARE.
ChangedIfCompared(line, compare) ==
  IF line["dhcp"] = <<>> \/ ~compare THEN {} ELSE DhcpDifference(line)

\* dhcp4_changed and dhcp6_changed as is_equal_dhcp() sets them.  Makefile.Windows defines
\* DEBUG_OPT_COMPARE, so it is called for the debug output without compare mode, too.
dhcp_changed(line, compare) ==
  IF line["dhcp"] = <<>> THEN {} ELSE IF ~compare THEN Family ELSE DhcpDifference(line)

\* The other comparisons, of what the options name, may come out either way.
Start ==
  /\ phase = 0 /\ runs < MaxRuns
  /\ \E line \in CommandLines, compare \in CompareModes :
       /\ opts' = line
       /\ restart' = dhcp_changed(line, compare)
       /\ differs' \in IF ~compare \/ restart' # {} THEN {TRUE}
                       ELSE IF \A kind \in {"dns", "ip", "gateway"} : line[kind] = <<>>
                              THEN {FALSE}
                       ELSE BOOLEAN
  /\ found' = win
  /\ phase' = 1
  /\ rc2' = 0
  /\ restarted' = FALSE
  /\ failures' = {}
  /\ runs' = runs + 1
  /\ UNCHANGED <<win, todo, faults>>

CallHandler ==
  /\ phase \in DOMAIN all_flags /\ todo = <<>>
  /\ todo' = Handler(all_flags[phase])
  /\ phase' = phase + 1
  /\ UNCHANGED <<win, opts, found, differs, restart, rc2, restarted, failures, faults, runs>>

Command ==
  /\ todo # <<>>
  /\ LET c == Head(todo)
     IN  /\ ~Refused(win, c)
         /\ win' = Effect(win, c)
         /\ restart' = IF c.op = "unchanged" THEN restart \ {c.arg} ELSE restart
  /\ todo' = Tail(todo)
  /\ UNCHANGED <<opts, found, differs, phase, rc2, restarted, failures, faults, runs>>

\* The last deletion of an address in the list.
LastDeletion(n) ==
  todo[n].op = "del6" /\ \A m \in DOMAIN todo : m > n => todo[m].op # "del6"

\* What is left of the handler after its first command has failed.
Rest(ends) ==
  IF ends THEN {<<>>}
  ELSE IF Head(todo).onError = "stop"
         THEN {SubSeq(todo, n + 1, Len(todo)) : n \in {m \in DOMAIN todo : LastDeletion(m)}}
  ELSE {Tail(todo)}

CommandFails(negative) ==
  LET onError == Head(todo).onError
      ends    == onError = "return" \/ (onError = "negative" /\ negative)
  IN  /\ todo' \in Rest(ends)
      /\ rc2' = IF ends THEN 1 ELSE rc2
      /\ UNCHANGED <<opts, found, differs, restart, phase, restarted, runs>>

\* Windows refuses, with a positive code.
Refusal ==
  /\ todo # <<>>
  /\ Refused(win, Head(todo))
  /\ CommandFails(FALSE)
  /\ UNCHANGED <<win, failures, faults>>

\* "unchanged" is no command; some of the routes may be gone when their removal fails.
Failure(kind) ==
  /\ todo # <<>> /\ Head(todo).op # "unchanged"
  /\ kind \in {"exit", "crash"} /\ Fault(kind)
  /\ CommandFails(kind = "crash")
  /\ win' \in IF Head(todo).op = "delroute"
                THEN {[win EXCEPT !.routes = left] : left \in SUBSET win.routes} ELSE {win}

\* The end of apply_parameters(), which turns an adapter off and on again
\* (AdapterState) whose DHCP settings have changed.
Finish ==
  /\ phase = Len(all_flags) + 1 /\ todo = <<>>
  /\ restarted' = (restart # {} /\ Given("dhcp"))
  /\ phase' = 0
  /\ UNCHANGED <<win, opts, found, differs, restart, todo, rc2, failures, faults, runs>>

Kill ==
  /\ phase # 0
  /\ Fault("kill")
  /\ phase' = 0
  /\ todo' = <<>>
  /\ opts' = NoLine /\ found' = win /\ differs' = FALSE /\ restart' = {} /\ rc2' = 0
  /\ UNCHANGED <<win, restarted, runs>>

Next ==
  \/ Start \/ CallHandler \/ Command \/ Refusal \/ Finish \/ Kill
  \/ \E kind \in {"exit", "crash"} : Failure(kind)

Spec == Init /\ [][Next]_vars

-----------------------------------------------------------------------------
\* An invocation has come to its end.
Ended  == phase = 0 /\ runs > 0 /\ "kill" \notin failures
Smooth == Ended /\ failures = {}

\* What the options for the addresses mean, whatever the adapter was like: the
\* addresses given, DHCP where there are none of the family.
Asked(f) == {a \in Value("ip") \cap (Addr4 \cup Addr6) : FamilyOf(a) = f}
ToDhcp4 ==
  IF Given("ip") THEN RemoveV4 \in Value("ip") \/ Asked(4) = {} ELSE 4 \in Value("dhcp")

AddressesAre(four, dhcp4, six) == win.ip4 = four /\ win.dhcp4 = dhcp4 /\ win.ip6 = six

\* Whatever earlier invocations have left, killed or not, one that succeeds and meets no
\* fault leaves the addresses that its own options mean: set_dhcp() and set_ip() each do
\* a part of it, and look at the option of the other.
AddressesAsAsked ==
  Smooth /\ rc2 = 0 /\ differs =>
    AddressesAre(
      IF ToDhcp4 THEN {} ELSE IF Given("ip") THEN Asked(4) ELSE found.ip4,
      IF ToDhcp4 THEN TRUE ELSE IF Given("ip") THEN FALSE ELSE found.dhcp4,
      IF Given("ip") THEN Asked(6) ELSE IF Given("dhcp") THEN {} ELSE found.ip6)

\* Whatever fails, no address that was asked for is missing without an error, and no
\* address of IPv6 that was asked for takes the place of one that is still there.
NoAddressSilentlyMissing ==
  Ended /\ rc2 = 0 /\ differs /\ Given("ip") =>
    /\ RemoveV4 \notin Value("ip") /\ Asked(4) # {} => win.ip4 = Asked(4)
    /\ Asked(6) # {} => win.ip6 = Asked(6)

\* A smooth run is refused only for a value that is none or is given twice, or where the
\* code is known to stumble: set_ip() deletes again the addresses that set_dhcp() has
\* deleted.
RefusedForAReason ==
  Smooth /\ rc2 # 0 =>
    \/ Value("ip") \ (Addr4 \cup Addr6 \cup {RemoveV4}) # {}
    \/ Given("hostname") /\ Words("hostname")[1] \notin Host
    \/ Given("hostname") /\ Words("hostname")[2] = Invalid
    \/ \E m, n \in DOMAIN Words("ip") :
         /\ m < n /\ Words("ip")[m] = Words("ip")[n]
         /\ Words("ip")[n] \in Addr4 \cup Addr6
    \/ 6 \in Value("dhcp") /\ Asked(6) # {} /\ found.ip6 # {}

\* The words of a list that are in S, in their order.
Selected(words, S) ==
  ForEach(words, LAMBDA k : IF words[k] \in S THEN <<words[k]>> ELSE <<>>)

\* The servers of a family are those of the option, in its order, for all that
\* set_dhcp() and set_ip() have done to them before; without a server of the family
\* nobody sets them by hand.
ServersAsAsked ==
  Smooth /\ differs =>
    \A f \in Family :
      LET asked == {s \in Value("dns") : FamilyOf(s) = f}
      IN  IF asked # {} THEN win.dns[f] = Selected(Words("dns"), asked \cap (Dns4 \cup Dns6))
                        ELSE win.dns[f] \in {found.dns[f], <<DHCP>>}

\* One gateway of each family is left: the last one of the --gateway that was given
\* first; an option that only says "remove" counts for nothing beside it.
GatewaysAsAsked ==
  Smooth =>
    \A f \in Family :
      LET records == opts["gateway"]
          about(words) == {n \in DOMAIN words : GatewayFamily(words[n]) = f}
          telling == {k \in DOMAIN records : records[k] # <<RemoveV4>> /\ about(records[k]) # {}}
          words   == records[Max(telling)]
      IN  win.gw[f] = IF telling # {} THEN {words[Max(about(words))]} \ {RemoveV4, RemoveV6}
                      ELSE IF f = 4 /\ <<RemoveV4>> \in ToSet(records) THEN {}
                      ELSE found.gw[f]

\* TCP/IP's names are complete before the computer's name is touched: a run that dies or
\* fails in between never leaves a new computer name with an old host name.
ComputerNameLast ==
  [][win'.computer # win.computer =>
       /\ Given("hostname")
       /\ \A key \in HostKeys : win.reg[key] = Words("hostname")[1]
       /\ Words("hostname")[2] \in Domain =>
            \A key \in DomainKeys : win.domain[key] = Words("hostname")[2]]_vars

\* "the adapter restart is required to apply dhcp settings on longhorn windows and newer"
\* (nettool.c): --dhcp that has changed a family from static to dynamic addresses has
\* restarted the adapter, although the flags for this are set where options are compared
\* and taken back where nothing is left to do.
DhcpIsRestarted ==
  Smooth /\ rc2 = 0 /\ differs =>
    /\ 4 \in Value("dhcp") /\ ~found.dhcp4 => restarted
    /\ 6 \in Value("dhcp") /\ found.ip6 # {} => restarted

\* "empty search domain list" (setnet.c), the comment on what "remove" stands for.
RemoveEmptiesSearch ==
  Smooth /\ Words("search") = <<RemoveV4>> => win.search = <<>>
=============================================================================
