------------------------------ MODULE AppLock ------------------------------
(***************************************************************************)
(* The single-application lock on Linux and BSD (nettool.c,                *)
(* single_app_lock) and the work done under it: an invocation of           *)
(* prl_nettool opens /tmp/prl_nettool.lock, polls for a record lock, then  *)
(* runs scripts through run_cmd(), each of which rewrites a configuration  *)
(* file by copying it, editing the copy and renaming it over the original  *)
(* (Linux/scripts/functions, put_param).                                   *)
(*                                                                         *)
(* A record lock belongs to a process and is not inherited over fork(), so *)
(* a killed invocation frees the lock while its script may still run; and  *)
(* an invocation that cannot open or lock the file works without the lock. *)
(***************************************************************************)
EXTENDS Naturals

CONSTANTS
  Proc,             \* invocation slots: a slot is reused when its script has ended
  NoProc,           \* "nobody", for the owner of the record lock
  Values,           \* what an invocation may ask its scripts to write
  NoValue,          \* the configuration's entries before any script wrote them
  MUTEX_TIMEOUT,    \* attempts to take the lock before giving up (240 in the code)
  MaxJobs,          \* bound: scripts one invocation runs
  Faults            \* which of "open", "fcntl", "kill" may happen

ASSUME ProcAssumption    == NoProc \notin Proc
ASSUME ValuesAssumption  == NoValue \notin Values
ASSUME TimeoutAssumption == MUTEX_TIMEOUT \in Nat \ {0}
ASSUME JobsAssumption    == MaxJobs \in Nat
ASSUME FaultsAssumption  == Faults \subseteq {"open", "fcntl", "kill"}

VARIABLES
  pc,          \* where each invocation is; "gone": none in this slot
  count,       \* attempts each has left
  guard,       \* "locked", or "bypassed" when it works without the lock
  jobs,        \* scripts each still has to run
  want,        \* what each invocation's scripts write
  lockOwner,   \* who owns the record lock, in the kernel's table
  script,      \* the script run on behalf of each invocation
  snapshot,    \* the copy of the file each script is editing
  config,      \* the configuration file: one entry per invocation slot
  written,     \* history: what each slot's scripts last wrote
  overlapped   \* history: a script ran whose invocation did not hold the lock

lockVars   == <<count, guard, lockOwner>>
scriptVars == <<script, snapshot, config, written>>
vars == <<pc, count, guard, jobs, want, lockOwner, script, snapshot, config,
          written, overlapped>>

Gone  == {"gone", "exit2"}
Alive == {"open", "setlk", "sleep", "work", "wait"}
Files == [Proc -> Values \cup {NoValue}]
NoFile == [p \in Proc |-> NoValue]    \* the snapshot of a script that made none

TypeOK ==
  /\ pc \in [Proc -> Gone \cup Alive]
  /\ count \in [Proc -> 0..MUTEX_TIMEOUT]
  /\ guard \in [Proc -> {"none", "locked", "bypassed"}]
  /\ jobs \in [Proc -> 0..MaxJobs]
  /\ want \in [Proc -> Values \cup {NoValue}]
  /\ lockOwner \in Proc \cup {NoProc}
  /\ script \in [Proc -> {"none", "started", "copied"}]
  /\ snapshot \in [Proc -> Files]
  /\ config \in Files
  /\ written \in Files
  /\ overlapped \in BOOLEAN

Init ==
  /\ pc = [p \in Proc |-> "gone"]
  /\ count = [p \in Proc |-> 0]
  /\ guard = [p \in Proc |-> "none"]
  /\ jobs = [p \in Proc |-> 0]
  /\ want = [p \in Proc |-> NoValue]
  /\ lockOwner = NoProc
  /\ script = [p \in Proc |-> "none"]
  /\ config = [p \in Proc |-> NoValue]
  /\ snapshot = [p \in Proc |-> NoFile]
  /\ written = config
  /\ overlapped = FALSE

Goto(p, place) == pc' = [pc EXCEPT ![p] = place]

(***************************************************************************)
(* The invocation.                                                         *)
(***************************************************************************)

\* main() has parsed the options: a value to set, and how many scripts that takes.
Start(p) ==
  /\ pc[p] \in Gone
  /\ script[p] = "none"
  /\ \E v \in Values, n \in 0..MaxJobs :
       /\ want' = [want EXCEPT ![p] = v]
       /\ jobs' = [jobs EXCEPT ![p] = n]
  /\ Goto(p, "open")
  /\ UNCHANGED <<lockVars, scriptVars, overlapped>>

OpenLockFile(p) ==
  /\ pc[p] = "open"
  /\ count' = [count EXCEPT ![p] = MUTEX_TIMEOUT]
  /\ Goto(p, "setlk")
  /\ UNCHANGED <<guard, lockOwner, jobs, want, scriptVars, overlapped>>

\* open() fails: a warning, and the invocation goes on without the lock.
OpenFails(p) ==
  /\ "open" \in Faults
  /\ pc[p] = "open"
  /\ guard' = [guard EXCEPT ![p] = "bypassed"]
  /\ Goto(p, "work")
  /\ UNCHANGED <<count, lockOwner, jobs, want, scriptVars, overlapped>>

Acquire(p) ==
  /\ pc[p] = "setlk"
  /\ lockOwner = NoProc
  /\ lockOwner' = p
  /\ guard' = [guard EXCEPT ![p] = "locked"]
  /\ count' = [count EXCEPT ![p] = 0]
  /\ Goto(p, "work")
  /\ UNCHANGED <<jobs, want, scriptVars, overlapped>>

\* MUTANT of Retry: the failed attempt is not counted.
RetryUncounted(p) ==
  /\ pc[p] = "setlk"
  /\ lockOwner # NoProc
  /\ Goto(p, "sleep")
  /\ UNCHANGED <<lockVars, jobs, want, scriptVars, overlapped>>

\* fcntl() reports EAGAIN or EACCES and attempts are left: sleep(1).
Retry(p) ==
  /\ pc[p] = "setlk"
  /\ lockOwner # NoProc
  /\ count[p] > 1
  /\ count' = [count EXCEPT ![p] = @ - 1]
  /\ Goto(p, "sleep")
  /\ UNCHANGED <<guard, lockOwner, jobs, want, scriptVars, overlapped>>

\* Any other error of fcntl(): a warning, and on without the lock.
FcntlFails(p) ==
  /\ "fcntl" \in Faults
  /\ pc[p] = "setlk"
  /\ guard' = [guard EXCEPT ![p] = "bypassed"]
  /\ count' = [count EXCEPT ![p] = 0]
  /\ Goto(p, "work")
  /\ UNCHANGED <<lockOwner, jobs, want, scriptVars, overlapped>>

Wake(p) ==
  /\ pc[p] = "sleep"
  /\ Goto(p, "setlk")
  /\ UNCHANGED <<lockVars, jobs, want, scriptVars, overlapped>>

\* run_cmd(): system() forks the script and the invocation waits for it.
RunCmd(p) ==
  /\ pc[p] = "work"
  /\ jobs[p] > 0
  /\ jobs' = [jobs EXCEPT ![p] = @ - 1]
  /\ script' = [script EXCEPT ![p] = "started"]
  /\ Goto(p, "wait")
  /\ overlapped' = (overlapped \/ guard[p] = "bypassed")
  /\ UNCHANGED <<lockVars, want, snapshot, config, written>>

\* system() returns -1: the error is logged and the remaining work goes on.
RunCmdFails(p) ==
  /\ pc[p] = "work"
  /\ jobs[p] > 0
  /\ jobs' = [jobs EXCEPT ![p] = @ - 1]
  /\ UNCHANGED <<pc, lockVars, want, scriptVars, overlapped>>

\* MUTANT of Reap: the script is started in the background.
ReapAtOnce(p) ==
  /\ pc[p] = "wait"
  /\ Goto(p, "work")
  /\ UNCHANGED <<lockVars, jobs, want, scriptVars, overlapped>>

Reap(p) ==
  /\ pc[p] = "wait"
  /\ script[p] = "none"
  /\ Goto(p, "work")
  /\ UNCHANGED <<lockVars, jobs, want, scriptVars, overlapped>>

\* The process is gone with its memory, and the kernel drops its record locks.
Release(p) ==
  /\ lockOwner' = IF lockOwner = p THEN NoProc ELSE lockOwner
  /\ guard' = [guard EXCEPT ![p] = "none"]
  /\ count' = [count EXCEPT ![p] = 0]
  /\ jobs' = [jobs EXCEPT ![p] = 0]

\* MUTANT of GiveUp: the count is tested before the attempt instead of after it.
GiveUpUntried(p) ==
  /\ pc[p] = "setlk"
  /\ count[p] = 1
  /\ Goto(p, "exit2")
  /\ Release(p)
  /\ UNCHANGED <<want, scriptVars, overlapped>>

\* MUTANT of GiveUp: when the attempts are used up the invocation works anyway.
GiveUpWorks(p) ==
  /\ pc[p] = "setlk"
  /\ lockOwner # NoProc
  /\ count[p] = 1
  /\ count' = [count EXCEPT ![p] = 0]
  /\ guard' = [guard EXCEPT ![p] = "locked"]
  /\ Goto(p, "work")
  /\ UNCHANGED <<lockOwner, jobs, want, scriptVars, overlapped>>

\* The last attempt failed too, `--count == 0`: exit(2).
GiveUp(p) ==
  /\ pc[p] = "setlk"
  /\ lockOwner # NoProc
  /\ count[p] = 1
  /\ Goto(p, "exit2")
  /\ Release(p)
  /\ UNCHANGED <<want, scriptVars, overlapped>>

\* MUTANT of Exit: the lock outlives the process (a lock file without a record lock).
ExitKeepsLock(p) ==
  /\ pc[p] = "work"
  /\ jobs[p] = 0
  /\ Goto(p, "gone")
  /\ guard' = [guard EXCEPT ![p] = "none"]
  /\ UNCHANGED <<count, lockOwner, jobs, want, scriptVars, overlapped>>

\* single_app_unlock() does nothing here: it is the exit that frees the lock.
Exit(p) ==
  /\ pc[p] = "work"
  /\ jobs[p] = 0
  /\ Goto(p, "gone")
  /\ Release(p)
  /\ UNCHANGED <<want, scriptVars, overlapped>>

\* A signal kills the invocation; a script it was waiting for runs on.
Kill(p) ==
  /\ "kill" \in Faults
  /\ pc[p] \in Alive
  /\ Goto(p, "gone")
  /\ Release(p)
  /\ overlapped' = (overlapped \/ script[p] # "none")
  /\ UNCHANGED <<want, scriptVars>>

(***************************************************************************)
(* The script: copy the file, edit the copy, rename it over the file.      *)
(***************************************************************************)

ScriptCopy(p) ==
  /\ script[p] = "started"
  /\ script' = [script EXCEPT ![p] = "copied"]
  /\ snapshot' = [snapshot EXCEPT ![p] = config]
  /\ UNCHANGED <<pc, lockVars, jobs, want, config, written, overlapped>>

ScriptRename(p) ==
  /\ script[p] = "copied"
  /\ script' = [script EXCEPT ![p] = "none"]
  /\ snapshot' = [snapshot EXCEPT ![p] = NoFile]
  /\ config' = [snapshot[p] EXCEPT ![p] = want[p]]
  /\ written' = [written EXCEPT ![p] = want[p]]
  /\ UNCHANGED <<pc, lockVars, jobs, want, overlapped>>

\* cp or sed fails: the copy is removed and the script exits with an error.
ScriptFails(p) ==
  /\ script[p] # "none"
  /\ script' = [script EXCEPT ![p] = "none"]
  /\ snapshot' = [snapshot EXCEPT ![p] = NoFile]
  /\ UNCHANGED <<pc, lockVars, jobs, want, config, written, overlapped>>

Invocation(p) ==
  \/ OpenLockFile(p) \/ OpenFails(p)
  \/ Acquire(p) \/ Retry(p) \/ Wake(p) \/ GiveUp(p) \/ FcntlFails(p)
  \/ RunCmd(p) \/ RunCmdFails(p) \/ Reap(p) \/ Exit(p)

Script(p) == ScriptCopy(p) \/ ScriptRename(p) \/ ScriptFails(p)

Next == \E p \in Proc : Start(p) \/ Invocation(p) \/ Kill(p) \/ Script(p)

\* A live process and a running script are scheduled; nobody has to start an
\* invocation or to kill one.
Fairness == \A p \in Proc : WF_vars(Invocation(p)) /\ WF_vars(Script(p))

Spec == Init /\ [][Next]_vars
FairSpec == Spec /\ Fairness

(***************************************************************************)
(* Properties.                                                             *)
(***************************************************************************)

Inside == {p \in Proc : guard[p] = "locked"}

\* Two invocations that took the lock never work at the same time (do_work()
\* between single_app_lock() and the exit).
MutualExclusion == \A p, q \in Inside : p = q

\* The record lock is never owned by an invocation that is gone: neither exit nor a
\* kill leaves the lock file locked, though nothing unlocks it explicitly.
LockNotLeaked == lockOwner # NoProc => pc[lockOwner] \in {"work", "wait"}

\* As long as every script ran under its invocation's lock, what each invocation
\* last wrote is still in the configuration file: no script's rename brings back
\* a copy made before another's.
NoLostUpdate == ~overlapped => config = written

\* Giving up with status 2 happens only while another invocation owns the lock,
\* never when the lock was free at the last attempt.
GiveUpOnlyIfOwned ==
  [][\A p \in Proc : pc[p] # "exit2" /\ pc'[p] = "exit2"
                       => lockOwner \in Proc \ {p} /\ pc[lockOwner] \in Alive]_vars

\* An invocation always ends, however often others overtake it at the lock.
EveryInvocationEnds == \A p \in Proc : pc[p] \in Alive ~> pc[p] \in Gone

\* The lock always becomes free again, so a caller that retries is not locked out.
LockAlwaysFreed == []<>(lockOwner = NoProc)

\* The lock implements the abstract mutex.
M == INSTANCE Mutex WITH inside <- Inside
ImplementsMutex == M!Spec
=============================================================================
