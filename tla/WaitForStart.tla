---------------------------- MODULE WaitForStart ----------------------------
(***************************************************************************)
(* wait_for_start() (netinfo_common.c) and its use by do_work() and        *)
(* apply_parameters() (nettool.c): the device list is read every five      *)
(* seconds until every requested adapter is in it, and is then read once   *)
(* more to drop the options of adapters that are not in that list.         *)
(*                                                                         *)
(* An adapter counts as found by its MAC or if some listed device has the  *)
(* index atoi(MAC).  Only Windows fills the index in; elsewhere every      *)
(* device has index 0, and so has the blank entry that read_dns() and      *)
(* read_dhcp() put into an empty list.                                     *)
(*                                                                         *)
(* On Unix a reading that fails is not told from one that works: a netlink *)
(* dump that fails leaves the list empty, a device there is no memory for  *)
(* is left out, and get_device_list() returns 0.                           *)
(***************************************************************************)
EXTENDS Naturals

CONSTANTS
  Mac,         \* network devices, by MAC address
  Requested,   \* those the options name
  Builds,      \* the builds considered, of "unix" (Linux, BSD) and "windows"
  Idx,         \* netinfo.idx of each device on Windows
  Atoi,        \* what atoi() makes of each MAC
  MAX_POLLS,   \* times the list is read before giving up (60 in the code)
  Unplug       \* whether a device may go away again

ASSUME RequestedAssumption == Requested \subseteq Mac /\ Requested # {}
ASSUME IndexAssumption     == Idx \in [Mac -> Nat] /\ Atoi \in [Mac -> Nat]
ASSUME PollsAssumption     == MAX_POLLS \in Nat \ {0}
ASSUME BuildsAssumption    == Builds \subseteq {"unix", "windows"}
ASSUME UnplugAssumption    == Unplug \in BOOLEAN

VARIABLES
  build,     \* which build runs
  present,   \* devices the system lists at this moment
  list,      \* entries left in netinfo_head from a poll that failed
  polls,     \* times the list has been read
  pc,        \* "poll", "sleep"; how the wait ended; "done": the options are checked
  kept,      \* devices whose options survive the check
  unplugged, \* history: a device has gone away
  incomplete \* history: the last reading failed or left devices out

env  == <<build, unplugged>>
vars == <<env, present, list, polls, pc, kept, incomplete>>

Ended == {"ready", "timeout", "error"}

TypeOK ==
  /\ present \subseteq Mac
  /\ list \subseteq Mac
  /\ polls \in 0..MAX_POLLS
  /\ pc \in {"poll", "sleep", "done"} \cup Ended
  /\ kept \subseteq Requested
  /\ build \in Builds /\ unplugged \in BOOLEAN /\ incomplete \in BOOLEAN

Init ==
  /\ present \in SUBSET Mac
  /\ list = {}
  /\ polls = 0
  /\ pc = "poll"
  /\ kept = {}
  /\ build \in Builds /\ unplugged = FALSE /\ incomplete = FALSE

Index(d) == IF build = "windows" THEN Idx[d] ELSE 0

\* netinfo_search_mac() and netinfo_search_idx() on a list of entries; an empty list has
\* got a blank entry on Unix, where indices are all 0.
Found(m, entries) ==
  \/ m \in entries
  \/ \E d \in entries : Index(d) = Atoi[m]
  \/ build = "unix" /\ entries = {} /\ Atoi[m] = 0

\* MUTANT of AllFound: one requested adapter is enough (the break left out).
AnyFound(entries) == \E m \in Requested : Found(m, entries)

AllFound(entries) == \A m \in Requested : Found(m, entries)

\* get_device_list() returns 0: the devices it has put into the list.
Readings == IF build = "unix" THEN SUBSET present ELSE {present}

\* The list has been read `polls + 1` times: sleep, or give up.
NextPoll ==
  /\ polls' = polls + 1
  /\ pc' = IF polls' = MAX_POLLS THEN "timeout" ELSE "sleep"

\* The list is read, together with what an earlier failure left in it: everything is
\* there, and the list is freed.
PollReady ==
  /\ pc = "poll"
  /\ \E read \in Readings :
       /\ AllFound(list \cup read)
       /\ incomplete' = (read # present)
  /\ pc' = "ready"
  /\ list' = {}
  /\ UNCHANGED <<env, present, polls, kept>>

\* MUTANT of PollMissing: the wait is given up at once.
PollMissingGivesUp ==
  /\ pc = "poll"
  /\ polls' = polls + 1
  /\ pc' = "timeout"
  /\ list' = {} /\ incomplete' = FALSE
  /\ UNCHANGED <<env, present, kept>>

\* A device that is missing and one that the reading has left out are the same.
PollMissing ==
  /\ pc = "poll"
  /\ \E read \in Readings :
       /\ ~AllFound(list \cup read)
       /\ incomplete' = (read # present)
  /\ NextPoll
  /\ list' = {}
  /\ UNCHANGED <<env, present, kept>>

\* MUTANT of PollTransient: an attempt that fails does not count.
PollTransientUncounted ==
  /\ build = "windows"
  /\ pc = "poll"
  /\ pc' = "sleep"
  /\ \E part \in SUBSET present : list' = list \cup part
  /\ incomplete' = TRUE
  /\ UNCHANGED <<env, present, polls, kept>>

\* ERROR_NO_DATA or ERROR_FILE_NOT_FOUND: `continue`; what has been read stays.
PollTransient ==
  /\ build = "windows"
  /\ pc = "poll"
  /\ \E part \in SUBSET present : list' = list \cup part
  /\ incomplete' = TRUE
  /\ NextPoll
  /\ UNCHANGED <<env, present, kept>>

\* Any other error ends the wait.
PollError ==
  /\ build = "windows"
  /\ pc = "poll"
  /\ pc' = "error"
  /\ list' = {} /\ incomplete' = TRUE
  /\ UNCHANGED <<env, present, polls, kept>>

Wake ==
  /\ pc = "sleep"
  /\ pc' = "poll"
  /\ UNCHANGED <<env, present, list, polls, kept, incomplete>>

\* apply_parameters() reads the list anew, does not look at the result, and excludes
\* the options of the adapters that are not listed.
CheckOptions ==
  /\ pc \in Ended
  /\ \E listed \in SUBSET present :
       /\ kept' = Requested \cap listed
       /\ incomplete' = (listed # present)
  /\ pc' = "done"
  /\ UNCHANGED <<env, present, list, polls>>

\* Plug and play: a device becomes known to the system, or goes away.
Appear(m) ==
  /\ pc # "done"
  /\ present' = present \cup {m}
  /\ present' # present
  /\ UNCHANGED <<env, list, polls, pc, kept, incomplete>>

Vanish(m) ==
  /\ Unplug
  /\ pc # "done"
  /\ present' = present \ {m}
  /\ present' # present
  /\ unplugged' = TRUE
  /\ UNCHANGED <<build, list, polls, pc, kept, incomplete>>

Program == PollReady \/ PollMissing \/ PollTransient \/ PollError \/ Wake \/ CheckOptions

Next == Program \/ \E m \in Mac : Appear(m) \/ Vanish(m)

\* The program runs; no device has to appear.
Spec == Init /\ [][Next]_vars /\ WF_vars(Program)

(***************************************************************************)
(* Properties.                                                             *)
(***************************************************************************)

\* "we need to wait ... for all requested adapters to be in returned list" (do_work):
\* the wait reports success only when they all are, whatever a reading leaves out.  On
\* Windows what a failed poll has left in the list may have gone away since.
ReadyMeansListed ==
  [][pc # "ready" /\ pc' = "ready" /\ ~(unplugged /\ build = "windows")
       => Requested \subseteq present]_vars

\* Success of the wait means that the requested adapters' options survive the check
\* that follows (apply_parameters), unless a device goes away or the check's own reading
\* of the list, whose result it does not look at, leaves devices out.
ReadyMeansKept ==
  [][pc = "ready" /\ pc' = "done" /\ ~unplugged /\ ~incomplete'
       => kept' = Requested]_vars

\* The wait gives up only when it has read the list as often as it may and, at the last
\* reading, an adapter was missing or the reading itself was at fault.
GivesUpOnlyIfMissing ==
  [][pc # "timeout" /\ pc' = "timeout"
       => /\ polls' = MAX_POLLS
          /\ Requested \subseteq present => incomplete']_vars

\* The wait ends, whatever devices come and go and however often the list cannot be
\* read, and the run goes on.
WaitEnds == <>(pc = "done")
=============================================================================
