------------------------- MODULE WaitForStartProofs -------------------------
(***************************************************************************)
(* What wait_for_start() guarantees, and on which condition on the indices *)
(* of the devices: for any devices, requests and number of polls.          *)
(***************************************************************************)
EXTENDS WaitForStart, TLAPS

USE RequestedAssumption, IndexAssumption, PollsAssumption, BuildsAssumption, UnplugAssumption

\* The condition: no device has the index that a requested MAC begins with, on Windows,
\* and no requested MAC begins with the number 0, every index on Unix.
IndicesApart ==
  /\ "windows" \in Builds => \A m \in Requested, d \in Mac : Idx[d] # Atoi[m]
  /\ "unix" \in Builds => \A m \in Requested : Atoi[m] # 0

\* A wait that goes on has polls left.
PollsInv == TypeOK /\ (pc \in {"poll", "sleep"} => polls < MAX_POLLS)

LEMMA PollsInvariant == Spec => []PollsInv
<1>1. Init => PollsInv
  <2>1. Init => unplugged \in BOOLEAN /\ incomplete \in BOOLEAN
    BY DEF Init
  <2>2. QED
    BY <2>1 DEF Init, PollsInv, TypeOK, Ended
<1>2. PollsInv /\ [Next]_vars => PollsInv'
  <2> SUFFICES ASSUME PollsInv, [Next]_vars PROVE PollsInv'
    OBVIOUS
  <2> USE DEF PollsInv, TypeOK, Ended, env
  <2>0. incomplete' \in BOOLEAN
    BY DEF Next, Program, vars, PollReady, PollMissing, PollTransient, PollError, Wake,
           CheckOptions, Appear, Vanish
  <2>1. CASE PollMissing \/ PollTransient
    <3>1. list' \subseteq Mac /\ UNCHANGED <<env, present, kept>>
      BY <2>1 DEF PollMissing, PollTransient
    <3>2. pc = "poll" /\ NextPoll
      BY <2>1 DEF PollMissing, PollTransient
    <3>3. QED
      BY <2>0, <3>1, <3>2 DEF NextPoll
  <2>2. CASE PollReady \/ PollError \/ Wake \/ CheckOptions
    BY <2>0, <2>2 DEF PollReady, PollError, Wake, CheckOptions
  <2>3. ASSUME NEW m \in Mac, Appear(m) \/ Vanish(m) PROVE PollsInv'
    BY <2>3 DEF Appear, Vanish
  <2>4. CASE UNCHANGED vars
    BY <2>4 DEF vars
  <2>5. QED
    BY <2>1, <2>2, <2>3, <2>4 DEF Next, Program
<1>3. QED
  BY <1>1, <1>2, PTL DEF Spec

\* Type correctness of the wait; in particular the list is never read more than
\* MAX_POLLS times.
THEOREM TypeCorrect == Spec => []TypeOK
<1>1. PollsInv => TypeOK
  BY DEF PollsInv
<1>2. QED
  BY <1>1, PollsInvariant, PTL

\* What a failed poll left in the list is still there when devices do not go away; on
\* Unix nothing is left.
ListInv ==
  /\ list \subseteq present \/ unplugged
  /\ build = "unix" => list = {}

LEMMA ListInvariant == Spec => []ListInv
<1>1. Init => ListInv
  BY DEF Init, ListInv
<1>2. ListInv /\ [Next]_vars => ListInv'
  BY DEF ListInv, Next, vars, env, Program, PollReady, PollMissing, PollTransient, PollError,
         Wake, CheckOptions, Appear, Vanish
<1>3. QED
  BY <1>1, <1>2, PTL DEF Spec

\* The wait reports success only when every requested adapter is listed, if the indices
\* are apart and, on Windows, no device has gone away.
THEOREM ReadyMeansListedHolds ==
  ASSUME IndicesApart
  PROVE  Spec => ReadyMeansListed
<1>1. TypeOK /\ ListInv /\ [Next]_vars
        => [pc # "ready" /\ pc' = "ready" /\ ~(unplugged /\ build = "windows")
              => Requested \subseteq present]_vars
  <2> SUFFICES ASSUME TypeOK, ListInv, Next, pc # "ready", pc' = "ready",
                      ~(unplugged /\ build = "windows"), NEW m \in Requested
               PROVE  m \in present
    OBVIOUS
  <2>1. PollReady
    BY DEF Next, Program, PollMissing, NextPoll, PollTransient, PollError, Wake,
           CheckOptions, Appear, Vanish
  <2>2. PICK read \in Readings : AllFound(list \cup read)
    BY <2>1 DEF PollReady
  <2>3. read \subseteq present
    BY <2>2 DEF Readings
  <2>4. m \in list \cup read
    BY <2>2, <2>3 DEF AllFound, Found, Index, IndicesApart, TypeOK
  <2>5. QED
    BY <2>3, <2>4 DEF ListInv, TypeOK
<1>2. QED
  BY <1>1, ListInvariant, TypeCorrect, PTL DEF Spec, ReadyMeansListed

\* Giving up: only after as many readings as the wait may make, and only if something
\* was missing at the last one or that reading failed or left devices out.
THEOREM GivesUpOnlyIfMissingHolds == Spec => GivesUpOnlyIfMissing
<1>1. TypeOK /\ ListInv /\ [Next]_vars
        => [pc # "timeout" /\ pc' = "timeout"
              => /\ polls' = MAX_POLLS
                 /\ Requested \subseteq present => incomplete']_vars
  <2> SUFFICES ASSUME TypeOK, ListInv, Next, pc # "timeout", pc' = "timeout"
               PROVE  /\ polls' = MAX_POLLS
                      /\ Requested \subseteq present => incomplete'
    OBVIOUS
  <2>1. PollMissing \/ PollTransient
    BY DEF Next, Program, PollReady, PollError, Wake, CheckOptions, Appear, Vanish
  <2>2. polls' = MAX_POLLS
    BY <2>1 DEF PollMissing, PollTransient, NextPoll
  <2>3. CASE PollMissing
    <3>1. PICK read \in Readings : ~AllFound(list \cup read) /\ incomplete' = (read # present)
      BY <2>3 DEF PollMissing
    <3>2. Requested \subseteq present => read # present
      BY <3>1 DEF AllFound, Found
    <3>3. QED
      BY <2>2, <3>1, <3>2
  <2>4. CASE PollTransient
    BY <2>2, <2>4 DEF PollTransient
  <2>5. QED
    BY <2>1, <2>3, <2>4
<1>2. QED
  BY <1>1, ListInvariant, TypeCorrect, PTL DEF Spec, GivesUpOnlyIfMissing

\* What a wait that has ended well has found stays until the check of the options,
\* unless a device goes away.
ReadyInv ==
  pc = "ready" /\ ~unplugged => Requested \subseteq present

LEMMA ReadyInvariant ==
  ASSUME IndicesApart
  PROVE  Spec => []ReadyInv
<1>1. Init => ReadyInv
  BY DEF Init, ReadyInv
<1>2. TypeOK /\ ListInv /\ ReadyInv /\ [Next]_vars => ReadyInv'
  <2> SUFFICES ASSUME TypeOK, ListInv, ReadyInv, [Next]_vars PROVE ReadyInv'
    OBVIOUS
  <2> USE DEF ReadyInv, env
  <2>1. CASE PollReady
    <3>1. PICK read \in Readings : AllFound(list \cup read)
      BY <2>1 DEF PollReady
    <3>2. read \subseteq present
      BY <3>1 DEF Readings
    <3>3. ASSUME ~unplugged, NEW m \in Requested PROVE m \in present
      <4>1. m \in list \cup read
        BY <3>1, <3>2 DEF AllFound, Found, Index, IndicesApart, TypeOK
      <4>2. QED
        BY <3>2, <3>3, <4>1 DEF ListInv
    <3>4. QED
      BY <2>1, <3>3 DEF PollReady
  <2>2. CASE PollMissing \/ PollTransient \/ PollError \/ Wake \/ CheckOptions
    BY <2>2 DEF PollMissing, PollTransient, PollError, Wake, CheckOptions, NextPoll
  <2>3. ASSUME NEW m \in Mac, Appear(m) \/ Vanish(m) PROVE ReadyInv'
    BY <2>3 DEF Appear, Vanish
  <2>4. CASE UNCHANGED vars
    BY <2>4 DEF vars
  <2>5. QED
    BY <2>1, <2>2, <2>3, <2>4 DEF Next, Program
<1>3. QED
  BY <1>1, <1>2, TypeCorrect, ListInvariant, PTL DEF Spec

\* apply_parameters() does not wait again and does not look at the result of its own
\* reading of the list: after a wait that ended well it drops an option only if that
\* reading left devices out or a device has gone away, provided the indices are apart.
THEOREM ReadyMeansKeptHolds ==
  ASSUME IndicesApart
  PROVE  Spec => ReadyMeansKept
<1>1. TypeOK /\ ReadyInv /\ [Next]_vars
        => [pc = "ready" /\ pc' = "done" /\ ~unplugged /\ ~incomplete'
              => kept' = Requested]_vars
  <2> SUFFICES ASSUME ReadyInv, Next, pc = "ready", pc' = "done", ~unplugged, ~incomplete'
               PROVE  kept' = Requested
    BY DEF vars
  <2>1. CheckOptions
    BY DEF Next, Program, PollReady, PollMissing, NextPoll, PollTransient, PollError,
           Wake, Appear, Vanish
  <2>2. kept' = Requested \cap present
    BY <2>1 DEF CheckOptions
  <2>3. QED
    BY <2>2 DEF ReadyInv
<1>2. QED
  BY <1>1, ReadyInvariant, TypeCorrect, PTL DEF Spec, ReadyMeansKept
=============================================================================
