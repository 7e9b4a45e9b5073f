----------------------------- MODULE ScriptFiles -----------------------------
(***************************************************************************)
(* redhat-set_ip.sh and redhat-set_dhcp.sh, file by file: the operators    *)
(* IpConfig and DhcpConfig of Ifcfg taken to pieces.  A script writes the  *)
(* new files of an adapter into the directory bak, removes the old ones    *)
(* and moves the new ones into their place.  It may be killed, or find the *)
(* disk full, between any two steps; the next script starts from whatever  *)
(* is left.  The application lock sees to it that there is one at a time.  *)
(***************************************************************************)
EXTENDS Ifcfg, FiniteSets

CONSTANTS
  Half,        \* what is there of an address that is being written
  Requests,    \* what scripts are run for: op, value, protos
  Files,       \* configurations there may be at first
  Faults,      \* of "kill", "full"
  MaxScripts   \* bound: scripts run one after the other

ASSUME HalfAssumption == Half \notin Addr4 \cup Addr6
ASSUME AddrAssumption == Addr4 \cap Addr6 = {}
ASSUME RequestsAssumption ==
  \A r \in Requests :
    /\ r.op \in {"ip", "dhcp"}
    /\ r.protos \subseteq {"4", "6"}
    /\ r.op = "ip" =>
         /\ r.value \in Seq(Addr4 \cup Addr6 \cup {"remove"})
         /\ \A m, n \in DOMAIN r.value : r.value[m] = r.value[n] => m = n
ASSUME FilesAssumption ==
  \A c \in Files : c \in Config /\ (~c.exists => [c EXCEPT !.alias = {}] = Absent)
ASSUME FaultsAssumption == Faults \subseteq {"kill", "full"} /\ MaxScripts \in Nat

VARIABLES
  main,     \* ifcfg-<name>: a configuration without alias, Absent if there is no file
  alias,    \* the addresses of the files ifcfg-<name>:<n>
  bak,      \* the directory bak: files main and alias of the adapter
  pc,       \* the script's next step; "off": none runs
  req,      \* what it has been asked for
  word,     \* the word of set_ip()'s list
  half,     \* the file for the word has been begun
  found,    \* history: the configuration the script started from
  outcome,  \* "none", "ok", "failed" or "killed"
  scripts   \* counted against the bound

vars == <<main, alias, bak, pc, req, word, half, found, outcome, scripts>>

MainOf(c) == [c EXCEPT !.alias = {}]
Stored    == [main EXCEPT !.alias = alias]
NoFiles   == [main |-> Absent, alias |-> {}]

\* What the script is to make of the configuration it has found.
Goal == IF req.op = "ip" THEN IpConfig(found, req.value, req.protos)
                         ELSE DhcpConfig(found, req.protos)

Init ==
  /\ \E c \in Files : main = MainOf(c) /\ alias = c.alias /\ found = c
  /\ bak = NoFiles
  /\ pc = "off"
  /\ req \in Requests
  /\ word = 1 /\ half = FALSE
  /\ outcome = "none"
  /\ scripts = 0

Start ==
  /\ pc = "off" /\ scripts < MaxScripts
  /\ pc' = "clear"
  /\ req' \in Requests
  /\ found' = Stored
  /\ scripts' = scripts + 1
  /\ word' = 1 /\ half' = FALSE
  /\ outcome' = "none"
  /\ UNCHANGED <<main, alias, bak>>

Goto(step) == pc' = step /\ UNCHANGED <<req, word, half, found, outcome, scripts>>
Ends(how)  == pc' = "off" /\ outcome' = how /\ UNCHANGED <<req, word, half, found, scripts>>

-----------------------------------------------------------------------------
(* Into bak. *)

\* set_ip() has nothing to write for an empty list, and for "remove" only a copy.
FirstStep ==
  IF req.op = "dhcp" THEN "backup"
  ELSE IF Removes(req.value) THEN "copy"
  ELSE IF req.value = <<>> THEN "remove"
  ELSE "write"

\* MUTANT of ClearBak: rm of the adapter's file only, not of its alias files.
KeepBakAliases ==
  /\ pc = "clear"
  /\ bak' = [bak EXCEPT !.main = Absent]
  /\ Goto(FirstStep)
  /\ UNCHANGED <<main, alias>>

\* rm -rf bak; mkdir -p bak
ClearBak ==
  /\ pc = "clear"
  /\ bak' = NoFiles
  /\ Goto(FirstStep)
  /\ UNCHANGED <<main, alias>>

\* remove_ips(): a copy of the file that loses its addresses, if there is a file.
CopyMain ==
  /\ pc = "copy"
  /\ bak' = [bak EXCEPT !.main = IF main.exists THEN [main EXCEPT !.ips = {}] ELSE Absent]
  /\ Goto("remove")
  /\ UNCHANGED <<main, alias>>

\* MUTANT of BackupAliases: mv in place of cp.
MoveAliasesToBak ==
  /\ pc = "backup"
  /\ bak' = [bak EXCEPT !.alias = IF "4" \in req.protos THEN {} ELSE alias]
  /\ alias' = IF "4" \in req.protos THEN alias ELSE {}
  /\ Goto("create")
  /\ UNCHANGED main

\* backup_configs(): the alias files stay unless IPv4 becomes dynamic.
BackupAliases ==
  /\ pc = "backup"
  /\ bak' = [bak EXCEPT !.alias = IF "4" \in req.protos THEN {} ELSE alias]
  /\ Goto("create")
  /\ UNCHANGED <<main, alias>>

\* create_config() of set_dhcp
CreateMain ==
  /\ pc = "create"
  /\ bak' = [bak EXCEPT !.main = MainOf(Goal)]
  /\ Goto("remove")
  /\ UNCHANGED <<main, alias>>

\* Whether the n-th word of the list has a file of its own.
HasAlias(n) == req.value[n] \in Addr4 \ FirstIPv4(req.value)

\* create_config() and add_ip6() of set_ip write a file in several commands; what they
\* write beside the address is the same for each word.
BeginWord ==
  /\ pc = "write" /\ ~half
  /\ half' = TRUE
  /\ bak' = IF HasAlias(word) THEN [bak EXCEPT !.alias = @ \cup {Half}]
                              ELSE [bak EXCEPT !.main = [MainOf(Goal) EXCEPT !.ips = bak.main.ips \cup {Half}]]
  /\ UNCHANGED <<main, alias, pc, req, word, found, outcome, scripts>>

\* ifcfg-<name> after the word: add_ip6() passes over an address that grep -qw finds in it.
WithWord(file) ==
  LET complete == file.ips \ {Half}
      new == IF \E a \in complete : <<req.value[word], a>> \in PartOf
             THEN {} ELSE {req.value[word]}
  IN  [file EXCEPT !.ips = complete \cup new]

EndWord ==
  /\ pc = "write" /\ half
  /\ half' = FALSE
  /\ bak' = IF HasAlias(word) THEN [bak EXCEPT !.alias = (@ \ {Half}) \cup {req.value[word]}]
                              ELSE [bak EXCEPT !.main = WithWord(@)]
  /\ IF word = Len(req.value) THEN pc' = "remove" /\ UNCHANGED word
                              ELSE word' = word + 1 /\ UNCHANGED pc
  /\ UNCHANGED <<main, alias, req, found, outcome, scripts>>

-----------------------------------------------------------------------------
(* move_configs(): rm -rf, and mv of the files in the order of their names. *)

\* set_ip removes the file itself as well, and first.
Remove ==
  /\ pc = "remove"
  /\ IF req.op = "ip" /\ main.exists
       THEN main' = Absent /\ UNCHANGED <<alias, pc>>
       ELSE /\ UNCHANGED main
            /\ IF alias # {} THEN \E a \in alias : alias' = alias \ {a} /\ UNCHANGED pc
                             ELSE UNCHANGED alias /\ pc' = "move"
  /\ UNCHANGED <<bak, req, word, half, found, outcome, scripts>>

\* MUTANT of Move: the alias files first.
MoveAliasFirst ==
  /\ pc = "move"
  /\ IF bak.alias # {}
       THEN \E a \in bak.alias : /\ alias' = alias \cup {a}
                                 /\ bak' = [bak EXCEPT !.alias = @ \ {a}]
                                 /\ UNCHANGED <<main, pc>>
       ELSE IF bak.main # Absent
       THEN main' = bak.main /\ bak' = [bak EXCEPT !.main = Absent] /\ UNCHANGED <<alias, pc>>
       ELSE pc' = "rmbak" /\ UNCHANGED <<main, alias, bak>>
  /\ UNCHANGED <<req, word, half, found, outcome, scripts>>

Move ==
  /\ pc = "move"
  /\ IF bak.main # Absent
       THEN main' = bak.main /\ bak' = [bak EXCEPT !.main = Absent] /\ UNCHANGED <<alias, pc>>
       ELSE IF bak.alias # {}
       THEN \E a \in bak.alias : /\ alias' = alias \cup {a}
                                 /\ bak' = [bak EXCEPT !.alias = @ \ {a}]
                                 /\ UNCHANGED <<main, pc>>
       ELSE pc' = "rmbak" /\ UNCHANGED <<main, alias, bak>>
  /\ UNCHANGED <<req, word, half, found, outcome, scripts>>

\* rm -rf bak, and the adapter goes up again.
RemoveBak ==
  /\ pc = "rmbak"
  /\ bak' = NoFiles
  /\ Ends("ok")
  /\ UNCHANGED <<main, alias>>

-----------------------------------------------------------------------------
\* error(..., $VZ_FS_NO_DISK_SPACE): the script ends where it writes.
DiskFull ==
  /\ "full" \in Faults
  /\ \/ pc = "copy" /\ main.exists
     \/ pc = "backup" /\ alias # {} /\ "4" \notin req.protos
     \/ pc = "create"
     \/ pc = "write" /\ half
  /\ Ends("failed")
  /\ UNCHANGED <<main, alias, bak>>

Kill ==
  /\ "kill" \in Faults
  /\ pc # "off"
  /\ Ends("killed")
  /\ UNCHANGED <<main, alias, bak>>

Next ==
  \/ Start \/ ClearBak \/ CopyMain \/ BackupAliases \/ CreateMain \/ BeginWord \/ EndWord
  \/ Remove \/ Move \/ RemoveBak \/ DiskFull \/ Kill

Spec == Init /\ [][Next]_vars

-----------------------------------------------------------------------------
\* A script that comes to its end leaves exactly what Ifcfg says, whatever scripts that
\* died have left in bak or taken away: it does not depend on them.
EndsAsAsked == outcome = "ok" => Stored = Goal

\* At no time, not even after a kill, is there a half-written file in use, nor one that
\* is neither the old nor the new, nor do old files stand beside new ones.
OldOrNew ==
  \/ main = MainOf(found) /\ alias \subseteq found.alias
  \/ main = Absent /\ alias \subseteq found.alias
  \/ main = MainOf(Goal) /\ alias \subseteq Goal.alias

\* Until the new files are complete the old ones are not touched: a script that finds the
\* disk full has changed nothing.
FailureChangesNothing == outcome = "failed" => Stored = found
=============================================================================
