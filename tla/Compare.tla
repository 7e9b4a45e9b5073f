------------------------------- MODULE Compare -------------------------------
(***************************************************************************)
(* What an invocation is about, from its command line to the adapters it   *)
(* reports or is going to change: Options, then LinuxDevices, then the     *)
(* first half of apply_parameters(), or print_parameters() (nettool.c).    *)
(* What is done to the adapters is ApplyParameters.                        *)
(***************************************************************************)
EXTENDS Options, LinuxDevices

VARIABLES
  changed,  \* places in netinfo with the flag "changed"
  printed   \* what "get" has printed: kinds, with places in netinfo

vars == <<optVars, devVars, changed, printed>>

Init ==
  /\ OptInit /\ DevInit
  /\ changed = {} /\ printed = {}

ParseOptions == OptNext /\ UNCHANGED <<devVars, changed, printed>>

\* Nothing to report, nothing to set: the adapters are not even listed.
NothingToDo ==
  CASE action = "get" -> flags = {} /\ count_opt_mac(GETBYMAC) = 0
    [] action = "set" -> count_opt_mac(ALL) = 0
    [] OTHER          -> TRUE

Begin ==
  /\ pc = "ready"
  /\ pc' = IF NothingToDo THEN "done" ELSE "list"
  /\ UNCHANGED <<command, argv, argn, netOpts, devVars, changed, printed>>

ListDevices ==
  /\ pc = "list"
  /\ DevNext
  /\ pc' = IF step' = 7 THEN (IF action = "get" THEN "print" ELSE "check") ELSE pc
  /\ UNCHANGED <<command, argv, argn, netOpts, changed, printed>>

-----------------------------------------------------------------------------
(* print_parameters() *)

HasData(n, kind) ==
  CASE kind = "gateway" -> netinfo[n].gateway # <<>>
    [] kind = "dns"     -> netinfo[n].dns # <<>>
    [] kind = "ip"      -> netinfo[n].ip # <<>>
    [] OTHER            -> TRUE

\* MUTANT of Shown: an adapter that is named hides the others.
ShownNamedFirst(n, kind) ==
  IF count_opt_mac({kind}) # 0 THEN HasOpt(netinfo[n].mac, kind) ELSE kind \in flags

\* All adapters if the kind has been asked for without one, else those named.
Shown(n, kind) == kind \in flags \/ HasOpt(netinfo[n].mac, kind)

PrintParameters ==
  /\ pc = "print"
  /\ printed' = {<<kind, n>> \in {"gateway", "dns", "ip", "dhcp"} \X DOMAIN netinfo :
                   Shown(n, kind) /\ HasData(n, kind)}
                \cup {<<kind, 1>> : kind \in {"search"} \cap flags}
  /\ pc' = "done"
  /\ UNCHANGED <<command, argv, argn, netOpts, devVars, changed>>

-----------------------------------------------------------------------------
(* apply_parameters(), up to the handlers *)

IsListed(mac) == \E n \in DOMAIN netinfo : netinfo[n].mac = mac

\* "MAC address was not found in system": its options are of no kind any more.
DropUnknown ==
  /\ pc = "check"
  /\ macs' = [n \in DOMAIN macs |->
                IF macs[n].mac = NULL \/ IsListed(macs[n].mac) THEN macs[n]
                ELSE [macs[n] EXCEPT !.types = {}]]
  /\ pc' = "compare"
  /\ UNCHANGED <<command, argv, argn, action, flags, compare, devVars, changed, printed>>

ValueFor(n, kind) == macs[get_opt_mac(netinfo[n].mac, kind)].value

\* is_equal_dhcp(), is_equal_ip(), is_equal_gateway() and is_equal_dns(); Linux fills in
\* no ip_link, so that no address is left out of the comparison.  There is none of
\* routes and names.
IsEqual(n, kind) ==
  CASE kind = "dhcp"    -> netinfo[n].dhcp = ToSet(ValueFor(n, kind))
    [] kind = "ip"      -> /\ netinfo[n].ip # <<>>
                           /\ namelist_compare(netinfo[n].ip, ValueFor(n, kind))
    [] kind = "gateway" -> namelist_compare(netinfo[n].gateway, ValueFor(n, kind))
    [] kind = "dns"     -> namelist_compare(netinfo[n].dns, ValueFor(n, kind))
    [] OTHER            -> TRUE

\* MUTANT of CompareOptions: each option's adapter is searched for, and the first one taken.
CompareFirst ==
  /\ pc = "compare"
  /\ changed' = {n \in DOMAIN netinfo :
                   /\ \A k \in 1..(n - 1) : netinfo[k].mac # netinfo[n].mac
                   /\ \E kind \in ALL : /\ HasOpt(netinfo[n].mac, kind)
                                        /\ ~compare \/ ~IsEqual(n, kind)}
  /\ pc' = "done"
  /\ UNCHANGED <<command, argv, argn, netOpts, devVars, printed>>

\* One kind that differs is enough, and all of the adapter's options are worked off.
CompareOptions ==
  /\ pc = "compare"
  /\ changed' = {n \in DOMAIN netinfo :
                   \E kind \in ALL : /\ HasOpt(netinfo[n].mac, kind)
                                     /\ ~compare \/ ~IsEqual(n, kind)}
  /\ pc' = "done"
  /\ UNCHANGED <<command, argv, argn, netOpts, devVars, printed>>

Next == ParseOptions \/ Begin \/ ListDevices \/ PrintParameters \/ DropUnknown \/ CompareOptions

Spec == Init /\ [][Next]_vars

-----------------------------------------------------------------------------
(* The command line as it was meant. *)

Kinds(option) == {kind \in ALL : option.word \in OptionWord[kind]}
KindOf(option) == CHOOSE kind \in ALL : option.word \in OptionWord[kind]

\* The options of a kind for an adapter, or for any.
Asking(kind) == {n \in DOMAIN command.options : kind \in Kinds(command.options[n])}
AskingFor(kind, mac) ==
  {n \in Asking(kind) : command.options[n].args # <<>> /\ command.options[n].args[1] = mac}

Macs ==
  {o.args[1] : o \in {p \in ToSet(command.options) : p.args # <<>> /\ Kinds(p) \cap GETBYMAC # {}}}

\* Each option of "set" has what it takes, and no adapter is asked to use DHCP twice.
Arity(kind) == IF kind \in {"dhcp", "dhcpv6"} \cup GETNOTMAC THEN 1 ELSE 2
Complete ==
  /\ command.action = "set"
  /\ \A o \in ToSet(command.options) :
       /\ Is(<<o.word>>, {"--compare"}) \/ Kinds(o) # {}
       /\ Kinds(o) # {} => Len(o.args) = Arity(KindOf(o))
  /\ \A kind \in {"dhcp", "dhcpv6"}, mac \in Macs : Cardinality(AskingFor(kind, mac)) <= 1

\* The value that counts is the one given last.
Wanted(kind, mac) ==
  IF kind = "dhcp" THEN {f \in {4, 6} : AskingFor(IF f = 4 THEN "dhcp" ELSE "dhcpv6", mac) # {}}
  ELSE IF kind \in GETBYMAC THEN ToSet(command.options[Max(AskingFor(kind, mac))].args[2])
  ELSE ToSet(command.options[Max(Asking(kind))].args[1])

IsAsked(kind, mac) ==
  IF kind = "dhcp" THEN Wanted("dhcp", mac) # {} ELSE AskingFor(kind, mac) # {}

Parsed == pc \notin {"parse", "exit"}

-----------------------------------------------------------------------------

\* A complete command line is never refused, and what the handlers will be given for an
\* adapter is what was asked for last; nothing gets a value nobody has given it.
OptionsAsGiven ==
  Complete /\ pc # "parse" =>
    /\ command.options # <<>> => pc # "exit" \/ \A o \in ToSet(command.options) : Kinds(o) = {}
    /\ pc \in {"ready", "list", "check"} =>
         \A kind \in GETBYMAC \ {"dhcpv6"}, mac \in Macs :
           /\ HasOpt(mac, kind) <=> IsAsked(kind, mac)
           /\ IsAsked(kind, mac) => ToSet(macs[get_opt_mac(mac, kind)].value) = Wanted(kind, mac)

Ended == pc = "done" /\ step = 7

\* An adapter named on a complete command line that was there when the links were dumped
\* is changed, unless the lists could not be read or a comparison has spared it.
NamedIsHandled ==
  Ended /\ Complete /\ "dump" \notin failed =>
    \A l \in dump.links \ Bridges, kind \in GETBYMAC \ {"dhcpv6"} :
      IsAsked(kind, MacOf[l]) =>
        \E n \in DOMAIN netinfo : /\ netinfo[n].name = l
                                  /\ HasOpt(netinfo[n].mac, kind)
                                  /\ compare \/ n \in changed

\* An adapter that comparison spares is as it was asked to be, if nobody has changed it
\* meanwhile: its addresses and its DHCP are those asked for, the gateways and servers
\* those of the guest; up to names that are a part of one another.
SparedIsAsAsked ==
  Ended /\ Complete /\ changes = 0 /\ failed = {} =>
    \A n \in DOMAIN netinfo \ changed, kind \in {"ip", "gateway", "dns", "dhcp"} :
      IsAsked(kind, netinfo[n].mac) =>
        LET l == netinfo[n].name
            real == CASE kind = "ip"      -> ToSet(kernel.ip[l])
                      [] kind = "gateway" -> ToSet(kernel.gateway)
                      [] kind = "dns"     -> ToSet(guest.dns)
                      [] kind = "dhcp"    -> guest.dhcp[l]
            wanted == Wanted(kind, netinfo[n].mac)
        IN  /\ wanted \ Removing \subseteq real
            /\ \A a \in real : a \in wanted \/ \E w \in wanted : <<a, w>> \in Part

\* "get" prints what was asked for: a kind for all adapters if it was asked for without
\* one, for those named otherwise, and all of it if nothing was asked for.
PrintedIsAsked ==
  Ended /\ command.action = "get" /\ "dump" \notin failed =>
    \A l \in dump.links \ Bridges, kind \in {"gateway", "dns", "ip", "dhcp"} :
      \E n \in DOMAIN netinfo :
        /\ netinfo[n].name = l
        /\ <<kind, n>> \in printed <=>
             /\ \/ command.options = <<>>
                \/ \E k \in DOMAIN command.options : command.options[k].word = "--all"
                \/ \E k \in Asking(kind) : command.options[k].args = <<>>
                \/ AskingFor(kind, MacOf[l]) # {}
             /\ kind = "ip" => dump.ip[l] # <<>>
             /\ kind = "gateway" => dump.gateway # <<>>
             /\ kind = "dns" => guest.dns # <<>>
=============================================================================
