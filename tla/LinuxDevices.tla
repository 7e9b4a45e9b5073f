---------------------------- MODULE LinuxDevices ----------------------------
(***************************************************************************)
(* get_device_list() on Linux (Linux/netinfo.c): five netlink dumps, one   *)
(* after the other, are made into a list of adapters.  Between two of them *)
(* links and addresses come and go.  A dump that fails leaves the list     *)
(* without adapters, and the caller is told nothing.                       *)
(***************************************************************************)
EXTENDS NameList

CONSTANTS
  Links,            \* the network devices, in the order of their indices
  MacOf,            \* their hardware addresses; two may have the same (VLANs, bonds)
  Bridges,          \* those that are bridges
  NoMac,            \* the MAC of the entry netinfo_get_first() makes up
  Kernels,          \* what the kernel may report at first: links, ip, gateway
  Guests,           \* the files: name servers, and DHCP for each device
  Ip6,              \* the addresses and gateways that are of IPv6
  Failures,         \* of "dump", "script"
  MaxChanges        \* bound: changes of the kernel's state

ASSUME FailuresAssumption == Failures \subseteq {"dump", "script"} /\ MaxChanges \in Nat

VARIABLES
  kernel,    \* present links, the addresses of each, default gateways
  guest,     \* resolv.conf's servers, the families each device has DHCP for in its file
  dump,      \* what the dumps have returned so far
  step,      \* the next dump; 6: all done; 7: the list is made
  netinfo,   \* the list
  changes,   \* changes of the kernel's state so far
  failed     \* history: failures met

devVars == <<kernel, guest, dump, step, netinfo, changes, failed>>

Link == ToSet(Links)
Of(ips, v6) == SelectSeq(ips, LAMBDA a : (a \in Ip6) = v6)

DevInit ==
  /\ kernel \in Kernels
  /\ guest \in Guests
  /\ dump = [links |-> {}, ip |-> [l \in Link |-> <<>>], gateway |-> <<>>]
  /\ step = 1
  /\ netinfo = <<>>
  /\ changes = 0
  /\ failed = {}

(***************************************************************************)
(* The kernel's state changes by itself: a device is hot-plugged or goes,  *)
(* an address is given by DHCP or autoconfiguration, or expires.           *)
(***************************************************************************)
KernelChanges ==
  /\ changes < MaxChanges /\ step \in 1..5
  /\ changes' = changes + 1
  /\ \E k \in Kernels :
       \E l \in Link :
         kernel' \in {[kernel EXCEPT !.links = IF l \in @ THEN @ \ {l} ELSE @ \cup {l}],
                      [kernel EXCEPT !.ip[l] = k.ip[l]], [kernel EXCEPT !.gateway = k.gateway]}
  /\ kernel' # kernel
  /\ UNCHANGED <<guest, dump, step, netinfo, failed>>

Addresses(l, v6) == IF l \in kernel.links THEN Of(kernel.ip[l], v6) ELSE <<>>

\* The dumps: links, IPv4 addresses and routes, IPv6 addresses and routes.
Dump ==
  /\ step \in 1..5
  /\ step' = step + 1
  /\ dump' =
       CASE step = 1 -> [dump EXCEPT !.links = kernel.links]
         [] step \in {2, 4} ->
              [dump EXCEPT !.ip = [l \in Link |-> @[l] \o Addresses(l, step = 4)]]
         [] step \in {3, 5} -> [dump EXCEPT !.gateway = @ \o Of(kernel.gateway, step = 5)]
  /\ UNCHANGED <<kernel, guest, netinfo, changes, failed>>

\* The list is left without adapters; get_device_list() returns 0 all the same.
DumpFails ==
  /\ step \in 1..5 /\ "dump" \in Failures
  /\ step' = 6
  /\ dump' = [dump EXCEPT !.links = {}, !.gateway = <<>>]
  /\ failed' = failed \cup {"dump"}
  /\ UNCHANGED <<kernel, guest, netinfo, changes>>

\* put_linkinfo(): a bridge is no adapter.
Listed == SelectSeq(Links, LAMBDA l : l \in dump.links /\ l \notin Bridges)

Entry(l, dhcp) ==
  [mac |-> MacOf[l], name |-> l, ip |-> dump.ip[l], gateway |-> dump.gateway,
   dns |-> guest.dns, dhcp |-> dhcp]

\* netinfo_get_first() puts an entry into an empty list, for the gateways and servers.
EmptyEntry ==
  [mac |-> NoMac, name |-> NoMac, ip |-> <<>>, gateway |-> dump.gateway, dns |-> guest.dns,
   dhcp |-> {}]

\* put_linkinfo() puts an adapter before those found earlier, put_gateway() and read_dns()
\* give each of them every gateway and every server, and read_dhcp() asks a script
\* for its file; if the script fails, the flag stays what it was: not set.
MakeList ==
  /\ step = 6
  /\ step' = 7
  /\ \E bad \in IF "script" \in Failures THEN SUBSET Link ELSE {{}} :
       /\ netinfo' = IF Listed = <<>> THEN <<EmptyEntry>>
                     ELSE [n \in DOMAIN Listed |->
                             LET l == Reverse(Listed)[n]
                             IN  Entry(l, IF l \in bad THEN {} ELSE guest.dhcp[l])]
       /\ failed' = failed \cup (IF bad = {} THEN {} ELSE {"script"})
  /\ UNCHANGED <<kernel, guest, dump, changes>>

DevNext == KernelChanges \/ Dump \/ DumpFails \/ MakeList
=============================================================================
