------------------------------- MODULE Options -------------------------------
(***************************************************************************)
(* parse_options() (options.c): from the words of the command line to      *)
(* net_opts.  A turn of its loop takes an option word and what belongs to  *)
(* it.  A text is the sequence of its blank-separated words, so "--ip" is  *)
(* <<"--ip">>, and a value may have several words.                         *)
(*                                                                         *)
(* The build is one for a system with IPv6; --verbose and --debug are left *)
(* out, as they change nothing but messages.                               *)
(***************************************************************************)
EXTENDS SequencesExt

CONSTANTS
  Commands,    \* what is called for: an action word and options, each with its texts
  NULL,        \* the MAC of an option that is about no adapter
  EnvCompare   \* whether PRL_NETTOOLS_OPT says "--compare": values considered

GETBYMAC  == {"gateway", "dns", "dhcp", "dhcpv6", "ip", "route"}
GETNOTMAC == {"search", "hostname"}
ALL       == GETBYMAC \cup GETNOTMAC

OptionWord ==
  [gateway |-> {"--gateway", "--default-route"}, dns |-> {"--dns"}, search |-> {"--search-domain"},
   dhcp |-> {"--dhcp"}, dhcpv6 |-> {"--dhcpv6"}, ip |-> {"--ip"}, route |-> {"--route"},
   hostname |-> {"--hostname"}]
ActionWords == {"get", "set", "clean", "restart"}
Switches    == {"--compare", "--all", "--version", "--help"}

VARIABLES
  command,   \* history: what is called for
  argv,      \* the texts not yet looked at
  argn,      \* 1: none has been looked at
  action,    \* net_opts.action
  flags,     \* net_opts.command_flags
  macs,      \* net_opts.macs, the newest first
  compare,   \* net_opts.compare
  pc         \* "parse"; "ready": parse_options() has returned; "exit"

netOpts == <<action, flags, macs, compare>>
optVars == <<command, argv, argn, netOpts, pc>>

\* The texts of the command line.
Texts(cmd) ==
  <<<<cmd.action>>>> \o FlattenSeq([n \in DOMAIN cmd.options |->
                          <<<<cmd.options[n].word>>>> \o cmd.options[n].args])

IsOption(text, kind) == \E word \in OptionWord[kind] : text = <<word>>
Is(text, words)      == \E word \in words : text = <<word>>
BeginsWithDash(text) == Is(text, Switches) \/ \E kind \in ALL : IsOption(text, kind)

OptInit ==
  /\ command \in Commands
  /\ argv = Texts(command)
  /\ argn = 1
  /\ action = "get"
  /\ flags = {}
  /\ macs = <<>>
  /\ compare = FALSE
  /\ pc = "parse"

Here == Head(argv)
Parsing == pc = "parse" /\ argv # <<>>

\* n texts are done with.
Consume(n) ==
  /\ argv' = SubSeq(argv, n + 1, Len(argv))
  /\ argn' = argn + n

Return(status) == pc' = status /\ UNCHANGED <<command, argv, argn>>

-----------------------------------------------------------------------------
(* The lists of options. *)

Record(kind, mac, value) == [types |-> {kind}, mac |-> mac, value |-> value]

Matches(r, mac, kind) == kind \in r.types /\ (mac = NULL \/ r.mac = mac)

count_opt_mac(kinds) == Cardinality({n \in DOMAIN macs : macs[n].types \cap kinds # {}})
HasOpt(mac, kind) == \E n \in DOMAIN macs : Matches(macs[n], mac, kind)

\* The place of the newest record of a kind for an adapter, or for any with NULL.
get_opt_mac(mac, kind) == Min({n \in DOMAIN macs : Matches(macs[n], mac, kind)})

\* add_opt_mac(): for "get" the records have several kinds and no values.
add_opt_mac(kind, mac) ==
  IF \E n \in DOMAIN macs : macs[n].mac = mac
    THEN [macs EXCEPT ![Min({n \in DOMAIN macs : macs[n].mac = mac})].types = @ \cup {kind}]
    ELSE <<Record(kind, mac, <<>>)>> \o macs

-----------------------------------------------------------------------------
(* The turns of the loop. *)

\* "--all" is the last word that is looked at, and the environment is not.
ParseAll ==
  /\ Parsing /\ Is(Here, {"--all"})
  /\ flags' = ALL
  /\ macs' = [n \in DOMAIN macs |-> [macs[n] EXCEPT !.types = {}]]
  /\ Return("ready")
  /\ UNCHANGED <<action, compare>>

ParseInfo ==
  /\ Parsing /\ Is(Here, {"--version", "--help"})
  /\ Return("exit")
  /\ UNCHANGED netOpts

ParseAction ==
  /\ Parsing /\ argn = 1 /\ Is(Here, ActionWords)
  /\ action' = Here[1]
  /\ Consume(1)
  /\ UNCHANGED <<command, flags, macs, compare, pc>>

ParseCompare ==
  /\ Parsing /\ Is(Here, {"--compare"})
  /\ compare' = TRUE
  /\ Consume(1)
  /\ UNCHANGED <<command, action, flags, macs, pc>>

ParseUnknown ==
  /\ Parsing /\ ~BeginsWithDash(Here)
  /\ ~(argn = 1 /\ Is(Here, ActionWords))
  /\ Return("exit")
  /\ UNCHANGED netOpts

HasNext == Len(argv) > 1
NextIsArgument == HasNext /\ ~BeginsWithDash(argv[2])

\* "get": an adapter may follow.
ParseGet(kind) ==
  /\ Parsing /\ action = "get" /\ IsOption(Here, kind)
  /\ IF kind \in GETBYMAC /\ NextIsArgument
     THEN macs' = add_opt_mac(kind, argv[2]) /\ Consume(2) /\ UNCHANGED flags
     ELSE flags' = flags \cup {kind} /\ Consume(1) /\ UNCHANGED macs
  /\ UNCHANGED <<command, action, compare, pc>>

\* "clean" and "restart" take no notice of options.
ParseIgnored(kind) ==
  /\ Parsing /\ action \in {"clean", "restart"} /\ IsOption(Here, kind)
  /\ Consume(1)
  /\ UNCHANGED <<command, netOpts, pc>>

Setting(kind) == Parsing /\ action = "set" /\ IsOption(Here, kind)

\* usage(1): no MAC or value, or no value after the MAC.
ParseSetFails(kind) ==
  /\ Setting(kind)
  /\ \/ ~NextIsArgument
     \/ kind \in GETBYMAC \ {"dhcp", "dhcpv6"} /\ Len(argv) < 3
  /\ Return("exit")
  /\ UNCHANGED netOpts

\* Any text may be the value of an option with a MAC, another option's word included.
ParseSet(kind) ==
  /\ Setting(kind) /\ kind \notin {"dhcp", "dhcpv6"} /\ NextIsArgument
  /\ IF kind \in GETBYMAC
     THEN /\ Len(argv) > 2
          /\ macs' = <<Record(kind, argv[2], argv[3])>> \o macs
          /\ Consume(3)
     ELSE /\ macs' = <<Record(kind, NULL, argv[2])>> \o macs
          /\ Consume(2)
  /\ UNCHANGED <<command, action, flags, compare, pc>>

FamilyText(kind) == IF kind = "dhcp" THEN <<4>> ELSE <<6>>

\* MUTANT of ParseSetDhcp: a record for each of --dhcp and --dhcpv6.
ParseSetDhcpApart(kind) ==
  /\ Setting(kind) /\ kind \in {"dhcp", "dhcpv6"} /\ NextIsArgument
  /\ macs' = <<Record("dhcp", argv[2], FamilyText(kind))>> \o macs
  /\ Consume(2)
  /\ UNCHANGED <<command, action, flags, compare, pc>>

\* --dhcp and --dhcpv6 of an adapter are one record.  It takes two options to make the
\* value "4 6", be they the same one twice.
ParseSetDhcp(kind) ==
  /\ Setting(kind) /\ kind \in {"dhcp", "dhcpv6"} /\ NextIsArgument
  /\ LET n == get_opt_mac(argv[2], "dhcp")
     IN  IF ~HasOpt(argv[2], "dhcp")
           THEN macs' = <<Record("dhcp", argv[2], FamilyText(kind))>> \o macs
           ELSE macs[n].value # <<4, 6>> /\ macs' = [macs EXCEPT ![n].value = <<4, 6>>]
  /\ Consume(2)
  /\ UNCHANGED <<command, action, flags, compare, pc>>

\* "Internal error", and the rest of the command line is not looked at.
ParseDhcpAgain(kind) ==
  /\ Setting(kind) /\ kind \in {"dhcp", "dhcpv6"} /\ NextIsArgument
  /\ HasOpt(argv[2], "dhcp")
  /\ macs[get_opt_mac(argv[2], "dhcp")].value = <<4, 6>>
  /\ Return("ready")
  /\ UNCHANGED netOpts

\* The end of the line: "get" alone gets everything; "set" alone is an error.
ParseEnd ==
  /\ pc = "parse" /\ argv = <<>>
  /\ IF action = "set" /\ count_opt_mac(ALL) = 0
     THEN Return("exit") /\ UNCHANGED netOpts
     ELSE /\ flags' = IF action = "get" /\ flags = {} /\ count_opt_mac(GETBYMAC) = 0
                      THEN ALL ELSE flags
          /\ \E env \in EnvCompare : compare' = (compare \/ env)
          /\ Return("ready")
          /\ UNCHANGED <<action, macs>>

OptNext ==
  \/ ParseAll \/ ParseInfo \/ ParseAction \/ ParseCompare \/ ParseUnknown \/ ParseEnd
  \/ \E kind \in ALL : \/ ParseGet(kind) \/ ParseIgnored(kind)
                       \/ ParseSetFails(kind) \/ ParseSet(kind)
                       \/ ParseSetDhcp(kind) \/ ParseDhcpAgain(kind)
=============================================================================
