----------------------------- MODULE BsdSettings -----------------------------
(***************************************************************************)
(* The handlers of BSD/setnet.c, as apply_parameters() calls them, and the *)
(* files they keep: /etc/rc.prl_nettool, which a save truncates and writes *)
(* anew, and /etc/resolv.conf.  One invocation works at a time.  A handler *)
(* stores a value and runs the command that makes it take effect, or the   *)
(* other way round; it may be killed or fail in between, and a save may be *)
(* cut short: by a kill, or by a full disk, which rcconf_save() does not   *)
(* notice.                                                                 *)
(***************************************************************************)
EXTENDS RcConf, ResolvConf

CONSTANTS
  Dev,                  \* the guest's adapters
  Gateway4, Gateway6,   \* gateways
  RemoveV4, RemoveV6,   \* the words "remove" and "removev6"
  DHCP, Yes,            \* the values "DHCP" and "YES"
  NoFile,               \* rc.prl_nettool does not exist
  Requests,             \* what handlers are asked for: records kind, dev, value
  Overlong,             \* the values with which "ifconfig" does not fit set_ip()'s buffer
  MainDhcp,             \* the families DHCP is asked for in rc.conf itself
  RcFiles, ResolvFiles, \* the files there may be at first
  Faults,               \* of "kill", "command", "open", "short"
  MaxOps, MaxFaults     \* bounds of the model

Family == {4, 6}
Words(req) == Range(req.value)
RequestsOf(kinds) == {r \in Requests : r.kind \in kinds}
WordsOf(kinds)    == UNION {Words(r) : r \in RequestsOf(kinds)}

all_flags == <<"dhcp", "ip", "gateway", "search", "dns", "route", "hostname">>
Word == WordsOf(Range(all_flags))

\* The names of the guest are no adapter's.
ASSUME RequestsAssumption ==
  \A r \in Requests :
    /\ r \in [kind : Range(all_flags), dev : Dev \cup {None}, value : Seq(Word) \ {<<>>}]
    /\ r.kind \notin {"search", "hostname"} => r.dev \in Dev
    /\ r.kind = "dhcp" => Words(r) \subseteq Family
ASSUME MainDhcpAssumption == MainDhcp \subseteq Family
ASSUME FaultsAssumption == Faults \subseteq {"kill", "command", "open", "short"}
ASSUME BoundsAssumption == MaxOps \in Nat /\ MaxFaults \in Nat

VARIABLES
  rcFile,   \* the items of rc.prl_nettool, or NoFile
  resolv,   \* resolv.conf
  kernel,   \* the default gateway of each family in use
  flags,    \* the families each adapter is taken to have DHCP for, in memory
  pc,       \* "off": no invocation; "idle": between handlers; "save", "command"
  op,       \* the request in hand, or the last one
  at,       \* the word of its value in hand
  phase,    \* the place in all_flags[]
  rc,       \* 0, or 1 for any error: what the last handler returned
  note,     \* history: what a handler met and did not report
  ops, faults   \* counted against the bounds

stored == <<rcFile, resolv, kernel>>
bounds == <<ops, faults>>
vars   == <<stored, flags, pc, op, at, phase, rc, note, bounds>>

Notes == {"short",         \* a write has been cut short in this invocation
          "stale",         \* set_ip() has failed after its save, the flag of DHCP still set
          "full",          \* the routes did not fit
          "ignored",       \* the file could not be opened, and nobody asked
          "unterminated",  \* a line was appended to an unfinished one
          "skipped"}       \* "WARNING: configured with dhcp. don't change"

NoOp == [kind |-> "none", dev |-> None, value |-> <<>>]

PhaseOf(req) == SelectInSeq(all_flags, LAMBDA k : k = req.kind)

IfconfigKey(d, f) == <<"ifconfig", d, f>>
RouterKey(f)      == <<"defaultrouter", f>>
HostnameKey       == <<"hostname">>
DhcpdKey          == <<"dhcpd_enable">>
SettingKeys == {IfconfigKey(d, f) : d \in Dev, f \in Family}
               \cup {RouterKey(f) : f \in Family} \cup {HostnameKey, DhcpdKey}

\* What the files may hold: what handlers write, and what has been there at first.
FirstItems == UNION {Range(file) : file \in RcFiles \ {NoFile}}
RcKey ==
  SettingKeys \cup {ListKey} \cup ({"route"} \X Nat) \cup {it.key : it \in FirstItems}
RcValue ==
  {it.val : it \in FirstItems} \cup {DHCP, Yes} \cup WordsOf({"gateway"})
  \cup {r.value : r \in RequestsOf({"ip", "hostname"})} \cup (WordsOf({"route"}) \X Dev)
  \cup Seq(Nat)
RcItem == [key : RcKey, val : RcValue]
IsRcFile(lines) ==
  /\ lines \in Seq(RcItem)
  /\ \A n \in DOMAIN lines : lines[n].key = ListKey => lines[n].val \in Seq(Nat)

FirstLines == UNION {Range(file.lines) : file \in ResolvFiles}
TornWord   == {Blank, Garbled} \cup {b[1] : b \in Begins}
ResolvWord ==
  WordsOf({"dns", "search"}) \cup TornWord \cup UNION {Range(l.words) : l \in FirstLines}
ResolvLine ==
  {OtherLine} \cup [kind : {"nameserver", "search"}, words : Seq(ResolvWord) \ {<<>>}]
ResolvFile == [lines : Seq(ResolvLine), ended : BOOLEAN]

ASSUME FilesAssumption ==
  /\ NoFile \notin Seq(RcItem)
  /\ None \notin RcValue
  /\ Blank \notin Word
  /\ \A file \in RcFiles \ {NoFile} : IsRcFile(file)
  /\ ResolvFiles \subseteq ResolvFile

Lines == IF rcFile = NoFile THEN <<>> ELSE rcFile
Items == Load(Lines)

\* The value a load yields: that of the first item of a key.
Setting(key) == IF key \in Keys(Lines) THEN GetItem(Lines, key).val ELSE None

Init ==
  /\ rcFile \in RcFiles
  /\ resolv \in ResolvFiles
  /\ kernel = [f \in Family |-> Setting(RouterKey(f))]
  /\ flags = [d \in Dev |-> {}]
  /\ pc = "off"
  /\ op = NoOp
  /\ at = 1
  /\ phase = 1
  /\ rc = 0
  /\ note = {}
  /\ ops = 0
  /\ faults = 0

Fault(kind) ==
  /\ kind \in Faults
  /\ faults < MaxFaults
  /\ faults' = faults + 1

Finish(result) ==
  /\ pc' = "idle"
  /\ rc' = result

\* The process ends, and what it has in memory with it.
Gone ==
  /\ pc' = "off"
  /\ flags' = [d \in Dev |-> {}]
  /\ UNCHANGED <<op, at>>

-----------------------------------------------------------------------------
(* Invocations and handlers begin. *)

\* read_dhcp(): a value "DHCP" in either of the two files will do.
ReadDhcp(d) ==
  IF rcFile = NoFile THEN {}
  ELSE {f \in Family : Setting(IfconfigKey(d, f)) = DHCP} \cup MainDhcp

Start ==
  /\ pc = "off" /\ ops < MaxOps
  /\ pc' = "idle"
  /\ flags' = [d \in Dev |-> ReadDhcp(d)]
  /\ phase' = 1
  /\ note' = {}
  /\ op' = NoOp
  /\ rc' = 0
  /\ UNCHANGED <<stored, at, bounds>>

Exit ==
  /\ pc = "idle"
  /\ Gone
  /\ UNCHANGED <<stored, phase, rc, note, bounds>>

\* Between two steps of a handler.
Kill ==
  /\ pc \in {"save", "command"}
  /\ Fault("kill")
  /\ Gone
  /\ UNCHANGED <<stored, phase, rc, note, ops>>

\* What is noted of an invocation rather than of one handler.
Lasting == note \cap {"short", "stale"}

\* A handler is called.
Call(req) ==
  /\ pc = "idle" /\ ops < MaxOps
  /\ PhaseOf(req) >= phase
  /\ phase' = PhaseOf(req)
  /\ op' = req
  /\ at' = 1
  /\ ops' = ops + 1
  /\ UNCHANGED <<stored, flags>>

LeavesGateway(req) == req.kind \in {"gateway", "route"} /\ flags[req.dev] = Family

\* Gateways and routes of an adapter that has DHCP for both families are left alone.
Skip(req) ==
  /\ LeavesGateway(req)
  /\ Call(req)
  /\ Finish(0)
  /\ note' = Lasting \cup {"skipped"}
  /\ UNCHANGED faults

Begin(req) ==
  /\ ~LeavesGateway(req)
  /\ req.kind = "route" => rcFile # NoFile
  /\ Call(req)
  /\ pc' = IF req.kind \in {"gateway", "route"} THEN "command" ELSE "save"
  /\ note' = Lasting
  /\ UNCHANGED <<rc, faults>>

\* set_route() loads the file first.
BeginFails(req) ==
  /\ ~LeavesGateway(req)
  /\ req.kind = "route"
  /\ Call(req)
  /\ Finish(1)
  /\ IF rcFile = NoFile THEN UNCHANGED faults ELSE Fault("open")
  /\ note' = Lasting

-----------------------------------------------------------------------------
(* Saving rc.prl_nettool. *)

FamilyOf(word) == IF word \in Gateway6 \cup {RemoveV6} THEN 6 ELSE 4
Asked(word)    == IF word \in {RemoveV4, RemoveV6} THEN None ELSE word
ValueFor(f, req) == IF f \in Words(req) THEN DHCP ELSE None

\* The arguments of rcprl_save_items().
Edits ==
  CASE op.kind = "ip" -> <<Item(IfconfigKey(op.dev, 4), op.value)>>
    [] op.kind = "dhcp" -> <<Item(IfconfigKey(op.dev, 4), ValueFor(4, op)),
                             Item(IfconfigKey(op.dev, 6), ValueFor(6, op)),
                             Item(DhcpdKey, Yes)>>
    [] op.kind = "hostname" -> <<Item(HostnameKey, op.value)>>
    [] op.kind = "gateway" -> <<Item(RouterKey(FamilyOf(op.value[at])), Asked(op.value[at]))>>

RouteLines(req) == [n \in DOMAIN req.value |-> <<req.value[n], req.dev>>]

RouteList == SubListSetAll(SubList(Items), RouteLines(op))

\* What the file is to hold.
Contents ==
  IF op.kind = "route" THEN SubListSave(Cleaned(Items), RouteList) ELSE Edit(Items, Edits)

Saving == pc = "save" /\ op.kind \notin {"dns", "search"}

TooLong == op.value \in Overlong

\* A save that returns 0.
Saved ==
  /\ CASE op.kind = "route" -> Finish(0) /\ UNCHANGED <<at, flags>>
       [] op.kind = "gateway" /\ at = Len(op.value) -> Finish(0) /\ UNCHANGED <<at, flags>>
       [] op.kind = "gateway" /\ at < Len(op.value) ->
            pc' = "command" /\ at' = at + 1 /\ UNCHANGED <<rc, flags>>
       [] op.kind = "ip" /\ TooLong -> Finish(1) /\ UNCHANGED <<at, flags>>
       [] op.kind = "ip" /\ ~TooLong -> /\ pc' = "command"
                                        /\ flags' = [flags EXCEPT ![op.dev] = @ \ {4}]
                                        /\ UNCHANGED <<at, rc>>
       [] OTHER -> pc' = "command" /\ UNCHANGED <<at, rc, flags>>
  /\ UNCHANGED <<op, phase>>

Full  == IF op.kind = "route" /\ Len(RouteList) > MAX_ROUTES THEN {"full"} ELSE {}
Stale == IF op.kind = "ip" /\ TooLong THEN {"stale"} ELSE {}

SaveWhole ==
  /\ Saving /\ rcFile # NoFile
  /\ rcFile' = Contents
  /\ Saved
  /\ note' = note \cup Full \cup Stale
  /\ UNCHANGED <<resolv, kernel, bounds>>

\* The disk is full: nobody looks at the results of fprintf() and fclose().
SaveShort ==
  /\ Saving /\ rcFile # NoFile
  /\ Fault("short")
  /\ rcFile' \in Prefixes(Contents) \ {Contents}
  /\ Saved
  /\ note' = note \cup Full \cup Stale \cup {"short"}
  /\ UNCHANGED <<resolv, kernel, ops>>

SaveKilled ==
  /\ Saving /\ rcFile # NoFile
  /\ Fault("kill")
  /\ rcFile' \in Prefixes(Contents) \ {Contents}
  /\ Gone
  /\ note' = note \cup {"short"}
  /\ UNCHANGED <<resolv, kernel, phase, rc, ops>>

\* The file cannot be opened; set_route() does not look at the result.
SaveFails ==
  /\ Saving
  /\ IF rcFile = NoFile THEN UNCHANGED faults ELSE Fault("open")
  /\ IF op.kind = "route" THEN Finish(0) /\ note' = note \cup Full \cup {"ignored"}
                          ELSE Finish(1) /\ UNCHANGED note
  /\ UNCHANGED <<stored, flags, op, at, phase, ops>>

-----------------------------------------------------------------------------
(* Running commands. *)

\* MUTANT of Command: the flags are only ever set, as on Linux.
CommandSets ==
  /\ pc = "command" /\ op.kind \in {"ip", "dhcp", "hostname"}
  /\ \/ Finish(0) /\ UNCHANGED faults
     \/ Finish(1) /\ Fault("command")
  /\ flags' = IF op.kind = "dhcp" THEN [flags EXCEPT ![op.dev] = @ \cup Words(op)] ELSE flags
  /\ UNCHANGED <<stored, op, at, phase, note, ops>>

\* "ifconfig", "service dhclient restart", "hostname": whether they work or not,
\* set_dhcp() sets its flags.
Command ==
  /\ pc = "command" /\ op.kind \in {"ip", "dhcp", "hostname"}
  /\ \/ Finish(0) /\ UNCHANGED faults
     \/ Finish(1) /\ Fault("command")
  /\ flags' = IF op.kind = "dhcp" THEN [flags EXCEPT ![op.dev] = Words(op)] ELSE flags
  /\ UNCHANGED <<stored, op, at, phase, note, ops>>

\* MUTANT of GatewayCommand: a gateway the kernel refuses is stored all the same.
GatewayCommandGoesOn ==
  LET word == op.value[at]
      f    == FamilyOf(word)
  IN  /\ pc = "command" /\ op.kind = "gateway"
      /\ \/ /\ kernel' = [kernel EXCEPT ![f] = Asked(word)]
            /\ UNCHANGED faults
         \/ /\ kernel' = [kernel EXCEPT ![f] = None]
            /\ Fault("command")
      /\ pc' = "save"
      /\ UNCHANGED <<rcFile, resolv, flags, op, at, phase, note, rc, ops>>

\* "route del default", and "route add default" but for a word that removes: the result
\* is that of the last of them.  There is no default route to delete if the kernel has none.
GatewayCommand ==
  LET word == op.value[at]
      f    == FamilyOf(word)
  IN  /\ pc = "command" /\ op.kind = "gateway"
      /\ \/ /\ Asked(word) # None \/ kernel[f] # None
            /\ kernel' = [kernel EXCEPT ![f] = Asked(word)]
            /\ pc' = "save"
            /\ UNCHANGED <<rc, faults>>
         \/ /\ \E left \in {None, kernel[f]} : kernel' = [kernel EXCEPT ![f] = left]
            /\ Finish(1)
            /\ IF Asked(word) = None /\ kernel[f] = None THEN UNCHANGED faults
                                                         ELSE Fault("command")
      /\ UNCHANGED <<rcFile, resolv, flags, op, at, phase, note, ops>>

\* All routes go to the kernel before any is stored.
RouteCommand ==
  /\ pc = "command" /\ op.kind = "route"
  /\ \/ /\ IF at = Len(op.value) THEN pc' = "save" /\ UNCHANGED at
                                 ELSE at' = at + 1 /\ UNCHANGED pc
        /\ UNCHANGED <<rc, faults>>
     \/ Finish(1) /\ Fault("command") /\ UNCHANGED at
  /\ UNCHANGED <<stored, flags, op, phase, note, ops>>

-----------------------------------------------------------------------------
(* resolv.conf: loaded, changed and saved; a full disk is noticed. *)

ResolvContents ==
  IF op.kind = "dns" THEN SetServer(resolv, op.value) ELSE SetSearch(resolv, op.value)

Resolving   == pc = "save" /\ op.kind \in {"dns", "search"}
Refused     == op.kind = "dns" /\ TooManyLines(resolv, op.value)
RunTogether ==
  /\ ~Terminated(resolv)
  /\ op.kind = "dns" => ~HasServer(resolv, op.value)
  /\ op.kind = "search" => SearchLine(resolv) = 0

ResolvSaved ==
  /\ Resolving /\ ~Refused
  /\ resolv' = ResolvContents
  /\ Finish(0)
  /\ note' = note \cup IF RunTogether THEN {"unterminated"} ELSE {}
  /\ UNCHANGED <<rcFile, kernel, flags, op, at, phase, bounds>>

ResolvCut ==
  /\ Resolving /\ ~Refused
  /\ resolv' \in CutShort(ResolvContents)
  /\ \/ Fault("short") /\ Finish(1) /\ UNCHANGED <<op, at, flags>>
     \/ Fault("kill") /\ Gone /\ UNCHANGED rc
  /\ UNCHANGED <<rcFile, kernel, phase, note, ops>>

ResolvFails ==
  /\ Resolving
  /\ Finish(1)
  /\ IF Refused THEN UNCHANGED faults ELSE Fault("open")
  /\ UNCHANGED <<stored, flags, op, at, phase, note, ops>>

Next ==
  \/ Start \/ Exit \/ Kill
  \/ \E req \in Requests : Skip(req) \/ Begin(req) \/ BeginFails(req)
  \/ SaveWhole \/ SaveShort \/ SaveKilled \/ SaveFails
  \/ Command \/ GatewayCommand \/ RouteCommand
  \/ ResolvSaved \/ ResolvCut \/ ResolvFails

Spec == Init /\ [][Next]_vars

-----------------------------------------------------------------------------
(* Properties. *)

\* The files are lists of items and of lines; a handler that is at work has a request, and a
\* word of it in hand.
TypeOK ==
  /\ IsRcFile(Lines)
  /\ resolv \in ResolvFile
  /\ kernel \in [Family -> RcValue \cup {None}]
  /\ flags \in [Dev -> SUBSET Family]
  /\ pc \in {"off", "idle", "save", "command"}
  /\ op \in Requests \cup {NoOp}
  /\ at \in Nat \ {0}
  /\ pc \in {"save", "command"} => op \in Requests /\ at \in DOMAIN op.value
  /\ pc = "command" => op.kind \notin {"dns", "search"}
  /\ pc \in {"save", "command"} /\ rcFile = NoFile => op.kind # "route"
  /\ phase \in DOMAIN all_flags
  /\ rc \in 0..1
  /\ note \subseteq Notes
  /\ ops \in Nat /\ faults \in Nat

\* A stale flag is of no account for what this handler has stored.
Unnoted   == note \subseteq {"stale"}
Succeeded == pc = "idle" /\ op # NoOp /\ rc = 0 /\ Unnoted

\* The last word for family f.
LastWord(req, f) ==
  req.value[SelectLastInSeq(req.value, LAMBDA w : FamilyOf(w) = f)]
FamiliesOf(req) == {FamilyOf(w) : w \in Words(req)}

Stored(req) ==
  CASE req.kind = "ip" -> Setting(IfconfigKey(req.dev, 4)) = req.value
    [] req.kind = "dhcp" ->
         \A f \in Family : Setting(IfconfigKey(req.dev, f)) = ValueFor(f, req)
    [] req.kind = "hostname" -> Setting(HostnameKey) = req.value
    [] req.kind = "gateway" ->
         \A f \in FamiliesOf(req) : Setting(RouterKey(f)) = Asked(LastWord(req, f))
    [] req.kind = "route" -> Range(RouteLines(req)) \subseteq Range(SubList(Lines))
    [] req.kind = "dns" -> HasServer(resolv, <<req.value[1]>>)
    [] req.kind = "search" -> resolv.lines[SearchLine(resolv)] = Line("search", req.value)

(***************************************************************************)
(* When a handler returns 0, what it was asked for is what the next load   *)
(* of the files yields, whatever earlier invocations have left in them:    *)
(* killed in the middle of a save, lists that name missing items, half     *)
(* lines.  What a handler does not report is in `note`.  Of several name   *)
(* servers only the first is claimed: they go into one line, of which the  *)
(* resolver, as this program, reads one word.                              *)
(***************************************************************************)
SuccessIsStored == Succeeded => Stored(op)

(***************************************************************************)
(* When set_gateway() returns 0, the kernel's default gateway and the one  *)
(* the next boot reads from the file are the same, for each family that    *)
(* was asked for, several words of one family included.                    *)
(***************************************************************************)
GatewayAgrees ==
  Succeeded /\ op.kind = "gateway" =>
    \A f \in FamiliesOf(op) : kernel[f] = Setting(RouterKey(f))

(***************************************************************************)
(* set_gateway() and set_route() leave an adapter alone only if DHCP is    *)
(* asked for in a file for both families: the flags in memory, read once   *)
(* and changed by set_dhcp() and set_ip(), do not outlive the setting.     *)
(* `short` is excepted, since the file has lost what the flags remember,   *)
(* and `stale`: a set_ip() that fails between its save and its command.    *)
(***************************************************************************)
SkippedOnlyIfDhcp ==
  pc = "idle" /\ "skipped" \in note /\ Lasting = {} =>
    \A f \in Family : Setting(IfconfigKey(op.dev, f)) = DHCP \/ f \in MainDhcp

ListsServersOnce(f) ==
  \A m, n \in Finished(f) :
    /\ m # n
    /\ f.lines[m].kind = "nameserver"
    /\ Len(f.lines[m].words) = 1
    => f.lines[m] # f.lines[n]

(***************************************************************************)
(* However often set_dns() is called, on a file that a cut has left with a *)
(* part of an address, or of which a line has run into the next one, a     *)
(* name server given as one word is in the file's finished lines once.     *)
(* What a cut leaves of a last line may be another server's address.       *)
(***************************************************************************)
ServersOnce == ListsServersOnce(resolv)

\* What the abstract specification calls values here.
SettingValues == Gateway4 \cup Gateway6 \cup {DHCP, Yes}
                 \cup {r.value : r \in RequestsOf({"ip", "hostname"})}
RouteLineSet == UNION {Range(RouteLines(r)) : r \in RequestsOf({"route"})}

WantedValues(key) ==
  CASE op.kind = "ip" /\ key = IfconfigKey(op.dev, 4) -> {op.value}
    [] op.kind = "dhcp" /\ key = DhcpdKey -> {Yes}
    [] op.kind = "dhcp" /\ key = IfconfigKey(op.dev, 4) -> {ValueFor(4, op)}
    [] op.kind = "dhcp" /\ key = IfconfigKey(op.dev, 6) -> {ValueFor(6, op)}
    [] op.kind = "hostname" /\ key = HostnameKey -> {op.value}
    [] op.kind = "gateway" /\ key[1] = "defaultrouter" ->
         {Asked(w) : w \in {v \in Words(op) : FamilyOf(v) = key[2]}}
    [] OTHER -> {}

S == INSTANCE Settings WITH
  Key         <- SettingKeys,
  Value       <- SettingValues,
  RouteLine   <- RouteLineSet,
  RoutesLimit <- MAX_ROUTES,
  conf        <- [k \in SettingKeys |-> Setting(k)],
  routes      <- SubList(Lines),
  want        <- [values |-> [k \in SettingKeys |-> WantedValues(k)],
                  routes |-> IF op.kind = "route" THEN RouteLines(op) ELSE <<>>],
  damaged     <- "short" \in note

(***************************************************************************)
(* Every step implements a step of the abstract settings or a stutter: a   *)
(* handler changes no value but those it is asked for, moves routes about  *)
(* without losing or doubling one although it deletes and renumbers their  *)
(* items, and a save cut short turns no value into another one.            *)
(***************************************************************************)
ImplementsSettings == S!Spec
=============================================================================
