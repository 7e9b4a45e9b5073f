----------------------------- MODULE WinAppLock -----------------------------
(***************************************************************************)
(* The single-application lock on Windows (nettool.c, single_app_lock and  *)
(* single_app_unlock): a named kernel mutex.  The object lives as long as  *)
(* some process has a handle to it; when its owner ends without releasing  *)
(* it, it is abandoned: the next wait succeeds but reports that, and the   *)
(* program then exits, still owning the mutex, which abandons it again.    *)
(***************************************************************************)
EXTENDS Naturals

CONSTANTS
  Proc,       \* invocation slots of prl_nettool
  NoProc,     \* "nobody", for the owner of the mutex
  Faults      \* which of "create", "wait", "kill" may happen

ASSUME ProcAssumption   == NoProc \notin Proc
ASSUME FaultsAssumption == Faults \subseteq {"create", "wait", "kill"}

VARIABLES
  pc,         \* where each invocation is
  handles,    \* invocations with a handle: the object exists while there are any
  owner,      \* owner of the mutex object
  abandoned,  \* the last owner ended without ReleaseMutex()
  doomed      \* history: invocations that were waiting when a worker was killed

vars == <<pc, handles, owner, abandoned, doomed>>

Gone  == {"gone", "exit2"}
Alive == {"create", "waiting", "refused", "work", "bypass", "unlocked"}

TypeOK ==
  /\ pc \in [Proc -> Gone \cup Alive]
  /\ handles \subseteq Proc
  /\ owner \in handles \cup {NoProc}
  /\ abandoned \in BOOLEAN
  /\ doomed \subseteq Proc

Init ==
  /\ pc = [p \in Proc |-> "gone"]
  /\ handles = {}
  /\ owner = NoProc
  /\ abandoned = FALSE
  /\ doomed = {}

Goto(p, place) == pc' = [pc EXCEPT ![p] = place]

\* The kernel's part of the end of process p: its handles are closed, a mutex it
\* owns is abandoned, and an object nobody has a handle to is deleted.
CloseHandles(p) ==
  /\ handles' = handles \ {p}
  /\ owner' = IF owner = p THEN NoProc ELSE owner
  /\ abandoned' = (handles' # {} /\ (abandoned \/ owner = p))

Start(p) ==
  /\ pc[p] \in Gone
  /\ Goto(p, "create")
  /\ UNCHANGED <<handles, owner, abandoned, doomed>>

\* CreateMutexA() creates the object or opens the one with this name.
CreateMutex(p) ==
  /\ pc[p] = "create"
  /\ handles' = handles \cup {p}
  /\ Goto(p, "waiting")
  /\ UNCHANGED <<owner, abandoned, doomed>>

\* It fails (access denied): a warning, and the invocation works without the lock.
CreateMutexFails(p) ==
  /\ "create" \in Faults
  /\ pc[p] = "create"
  /\ Goto(p, "bypass")
  /\ UNCHANGED <<handles, owner, abandoned, doomed>>

\* MUTANT of WaitObject: a wait that reports WAIT_ABANDONED is taken as success.
WaitObjectOrAbandoned(p) ==
  /\ pc[p] = "waiting"
  /\ owner = NoProc
  /\ owner' = p
  /\ abandoned' = FALSE
  /\ Goto(p, "work")
  /\ UNCHANGED <<handles, doomed>>

\* MUTANT of WaitObject: CreateMutexA(bInitialOwner = TRUE) taken for ownership.
WaitObjectUntested(p) ==
  /\ pc[p] = "waiting"
  /\ ~abandoned
  /\ owner' = p
  /\ Goto(p, "work")
  /\ UNCHANGED <<handles, abandoned, doomed>>

WaitObject(p) ==
  /\ pc[p] = "waiting"
  /\ owner = NoProc
  /\ ~abandoned
  /\ owner' = p
  /\ Goto(p, "work")
  /\ UNCHANGED <<handles, abandoned, doomed>>

\* WAIT_ABANDONED: the invocation owns the mutex, and is about to exit(2).
WaitAbandoned(p) ==
  /\ pc[p] = "waiting"
  /\ owner = NoProc
  /\ abandoned
  /\ owner' = p
  /\ abandoned' = FALSE
  /\ Goto(p, "refused")
  /\ UNCHANGED <<handles, doomed>>

\* WAIT_TIMEOUT: the mutex was owned for MUTEX_TIMEOUT seconds; about to exit(2).
WaitTimeout(p) ==
  /\ pc[p] = "waiting"
  /\ owner # NoProc
  /\ Goto(p, "refused")
  /\ UNCHANGED <<handles, owner, abandoned, doomed>>

\* WAIT_FAILED: about to exit(2).
WaitFails(p) ==
  /\ "wait" \in Faults
  /\ pc[p] = "waiting"
  /\ Goto(p, "refused")
  /\ UNCHANGED <<handles, owner, abandoned, doomed>>

Exit2(p) ==
  /\ pc[p] = "refused"
  /\ Goto(p, "exit2")
  /\ CloseHandles(p)
  /\ doomed' = doomed \ {p}

\* single_app_unlock(): ReleaseMutex() if there is a handle.
Unlock(p) ==
  /\ pc[p] \in {"work", "bypass"}
  /\ owner' = IF owner = p THEN NoProc ELSE owner
  /\ Goto(p, "unlocked")
  /\ UNCHANGED <<handles, abandoned, doomed>>

Exit(p) ==
  /\ pc[p] = "unlocked"
  /\ Goto(p, "gone")
  /\ CloseHandles(p)
  /\ doomed' = doomed \ {p}

Waiting == {p \in Proc : pc[p] = "waiting"}

\* The process is terminated.  If it was working under the lock, those that
\* wait for the mutex are recorded as doomed.
Kill(p) ==
  /\ "kill" \in Faults
  /\ pc[p] \in Alive
  /\ Goto(p, "gone")
  /\ CloseHandles(p)
  /\ doomed' = (doomed \cup (IF pc[p] = "work" THEN Waiting ELSE {})) \ {p}

\* MUTANT of Wait: nothing ends the wait for a mutex that stays owned.
WaitForever(p) == WaitObject(p) \/ WaitAbandoned(p)

Wait(p) == WaitObject(p) \/ WaitAbandoned(p) \/ WaitTimeout(p)

Invocation(p) ==
  CreateMutex(p) \/ CreateMutexFails(p) \/ Wait(p) \/ Exit2(p) \/ Unlock(p) \/ Exit(p)

Next == \E p \in Proc : Start(p) \/ Invocation(p) \/ WaitFails(p) \/ Kill(p)

\* A live process is scheduled, except that nothing is assumed of the work itself (netsh
\* may hang); no wait has to fail.  A wait for the mutex must end all the same.
Fairness == \A p \in Proc : WF_vars(Invocation(p) /\ pc[p] # "work")

Spec == Init /\ [][Next]_vars
FairSpec == Spec /\ Fairness

(***************************************************************************)
(* Properties.                                                             *)
(***************************************************************************)

Inside == {p \in Proc : pc[p] = "work"}

\* Two invocations that waited for the mutex never work at the same time.
MutualExclusion == \A p, q \in Inside : p = q

\* When an invocation is killed at work, none of those that wait behind it goes on
\* to change the half-changed configuration: each of them, in whatever order they
\* take the abandoned mutex, exits.
DoomedNeverWork == \A p \in doomed : pc[p] \in {"waiting", "refused"}

\* An abandoned mutex refuses only invocations that overlap it: once every handle is
\* closed no owner and no abandonment is left for the next invocation to meet.
FreshWhenUnused == handles = {} => owner = NoProc /\ ~abandoned

\* No invocation waits forever, even behind one whose work never ends.
EveryWaitEnds == \A p \in Proc : pc[p] = "waiting" ~> pc[p] # "waiting"

\* The mutex implements the same abstract mutex as the record lock on Unix.
M == INSTANCE Mutex WITH inside <- Inside
ImplementsMutex == M!Spec
=============================================================================
