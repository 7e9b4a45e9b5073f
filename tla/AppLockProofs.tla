--------------------------- MODULE AppLockProofs ---------------------------
(***************************************************************************)
(* Proofs about AppLock for every set of invocations, every number of      *)
(* attempts and every combination of faults.                               *)
(***************************************************************************)
EXTENDS AppLock, TLAPS

\* The lock and the places of the invocations agree: who owns the record lock is who
\* passed single_app_lock() by it and has not ended since.
LockInv ==
  \A p \in Proc :
    /\ guard[p] = "locked" <=> lockOwner = p
    /\ guard[p] = "locked" => pc[p] \in {"work", "wait"}

\* Until a script has overlapped: a script is the lock owner's, the owner waits for
\* it, and the copy it edits is the file as it is.
ScriptInv ==
  ~overlapped =>
    /\ config = written
    /\ \A p \in Proc :
         /\ script[p] # "none" => guard[p] = "locked" /\ pc[p] = "wait"
         /\ script[p] = "copied" => snapshot[p] = config
         /\ pc[p] \in {"work", "wait"} => guard[p] # "none"

USE ProcAssumption, ValuesAssumption, TimeoutAssumption, JobsAssumption

\* The steps of an invocation by what it is about: the lock, its commands, or its end.
Polls(p) == OpenLockFile(p) \/ Acquire(p) \/ Retry(p) \/ Wake(p)
Works(p) == OpenFails(p) \/ FcntlFails(p) \/ RunCmd(p) \/ RunCmdFails(p) \/ Reap(p)
Ends(p)  == GiveUp(p) \/ Exit(p) \/ Kill(p)

LEMMA OneAtATime ==
  ASSUME Next
  PROVE  \E p \in Proc : Start(p) \/ Polls(p) \/ Works(p) \/ Ends(p) \/ Script(p)
BY DEF Next, Invocation, Polls, Works, Ends

\* Every step keeps the types; the counter of attempts never passes the timeout.
LEMMA TypeStep ==
  ASSUME TypeOK, Next
  PROVE  TypeOK'
<1> USE DEF TypeOK, Goto, Gone, Alive, Files, NoFile, lockVars, scriptVars
<1>1. PICK p \in Proc : Start(p) \/ Polls(p) \/ Works(p) \/ Ends(p) \/ Script(p)
  BY OneAtATime
<1>2. Start(p) => TypeOK'
  BY DEF Start
<1>3. Polls(p) => TypeOK'
  <2>1. OpenLockFile(p) => TypeOK'
    BY DEF OpenLockFile
  <2>2. Acquire(p) => TypeOK'
    BY DEF Acquire
  <2>3. Retry(p) => TypeOK'
    BY DEF Retry
  <2>4. Wake(p) => TypeOK'
    BY DEF Wake
  <2> QED
    BY <2>1, <2>2, <2>3, <2>4 DEF Polls
<1>4. Works(p) => TypeOK'
  <2>1. OpenFails(p) => TypeOK'
    BY DEF OpenFails
  <2>2. FcntlFails(p) => TypeOK'
    BY DEF FcntlFails
  <2>3. RunCmd(p) => TypeOK'
    BY DEF RunCmd
  <2>4. RunCmdFails(p) => TypeOK'
    BY DEF RunCmdFails
  <2>5. Reap(p) => TypeOK'
    BY DEF Reap
  <2> QED
    BY <2>4, <2>5, <2>1, <2>2, <2>3 DEF Works
<1>5. Ends(p) => TypeOK'
  <2>1. GiveUp(p) => TypeOK'
    BY DEF GiveUp, Release
  <2>2. Exit(p) => TypeOK'
    BY DEF Exit, Release
  <2>3. Kill(p) => TypeOK'
    BY DEF Kill, Release
  <2> QED
    BY <2>1, <2>2, <2>3 DEF Ends
<1>6. Script(p) => TypeOK'
  <2>1. ScriptCopy(p) => TypeOK'
    BY DEF ScriptCopy
  <2>2. ScriptRename(p) => TypeOK'
    BY DEF ScriptRename
  <2>3. ScriptFails(p) => TypeOK'
    BY DEF ScriptFails
  <2> QED
    BY <2>1, <2>2, <2>3 DEF Script
<1> QED
  BY ONLY <1>1, <1>2, <1>3, <1>4, <1>5, <1>6

\* Type correctness of the lock and of the work done under it.
THEOREM TypeCorrect == Spec => []TypeOK
<1>1. ASSUME Init PROVE TypeOK
  <2>1. /\ NoFile \in Files
        /\ config \in Files /\ written \in Files
    BY <1>1 DEF Init, NoFile, Files
  <2>2. /\ snapshot \in [Proc -> Files]
        /\ count \in [Proc -> 0..MUTEX_TIMEOUT]
        /\ jobs \in [Proc -> 0..MaxJobs]
    BY <1>1, <2>1 DEF Init
  <2> QED
    BY <1>1, <2>1, <2>2 DEF Init, TypeOK, Gone
<1>2. ASSUME TypeOK, UNCHANGED vars PROVE TypeOK'
  BY <1>2 DEF TypeOK, vars
<1> QED
  BY <1>1, <1>2, TypeStep, PTL DEF Spec

\* Every step keeps the agreement of the lock with the invocations.
LEMMA LockStep ==
  ASSUME TypeOK, LockInv, Next
  PROVE  LockInv'
<1> USE DEF TypeOK, LockInv, Goto, lockVars, scriptVars
<1>1. PICK p \in Proc : Start(p) \/ Polls(p) \/ Works(p) \/ Ends(p) \/ Script(p)
  BY OneAtATime
<1>2. Start(p) => LockInv'
  BY DEF Start, Gone
<1>3. Polls(p) => LockInv'
  <2>1. Acquire(p) => LockInv'
    BY DEF Acquire
  <2>2. OpenLockFile(p) \/ Retry(p) \/ Wake(p) => LockInv'
    BY DEF OpenLockFile, Retry, Wake
  <2> QED
    BY <2>1, <2>2 DEF Polls
<1>4. Works(p) => LockInv'
  <2>1. OpenFails(p) \/ FcntlFails(p) => LockInv'
    BY DEF OpenFails, FcntlFails
  <2>2. RunCmd(p) \/ RunCmdFails(p) \/ Reap(p) => LockInv'
    BY DEF RunCmd, RunCmdFails, Reap
  <2> QED
    BY <2>1, <2>2 DEF Works
<1>5. Ends(p) => LockInv'
  BY DEF Ends, GiveUp, Exit, Kill, Release
<1>6. Script(p) => LockInv'
  BY DEF Script, ScriptCopy, ScriptRename, ScriptFails
<1> QED
  BY ONLY <1>1, <1>2, <1>3, <1>4, <1>5, <1>6

THEOREM LockInvariant == Spec => []LockInv
<1>1. ASSUME Init PROVE LockInv
  <2>1. lockOwner = NoProc /\ \A p \in Proc : guard[p] = "none" /\ p # NoProc
    BY <1>1, ProcAssumption DEF Init
  <2> QED
    BY <2>1 DEF LockInv
<1>2. ASSUME LockInv, UNCHANGED vars PROVE LockInv'
  BY <1>2 DEF LockInv, vars
<1> QED
  BY <1>1, <1>2, LockStep, TypeCorrect, PTL DEF Spec

\* Two invocations that took the record lock never work at the same time.
THEOREM MutualExclusionHolds == Spec => []MutualExclusion
<1>1. LockInv => MutualExclusion
  BY DEF LockInv, MutualExclusion, Inside
<1>2. QED
  BY <1>1, LockInvariant, PTL

\* No invocation that is gone owns the record lock.
THEOREM LockNotLeakedHolds == Spec => []LockNotLeaked
<1>1. TypeOK /\ LockInv => LockNotLeaked
  BY DEF TypeOK, LockInv, LockNotLeaked
<1>2. QED
  BY <1>1, TypeCorrect, LockInvariant, PTL

\* An invocation gives up only while another one, still alive, owns the lock.
THEOREM GiveUpOnlyIfOwnedHolds == Spec => GiveUpOnlyIfOwned
<1> DEFINE Good == \A p \in Proc : pc[p] # "exit2" /\ pc'[p] = "exit2"
                     => lockOwner \in Proc \ {p} /\ pc[lockOwner] \in Alive
<1>1. TypeOK /\ LockInv /\ [Next]_vars => [Good]_vars
  <2> SUFFICES ASSUME TypeOK, LockInv, Next, NEW q \in Proc,
                      pc[q] # "exit2", pc'[q] = "exit2"
               PROVE  lockOwner \in Proc \ {q} /\ pc[lockOwner] \in Alive
    OBVIOUS
  <2> USE DEF TypeOK, Goto
  <2>1. GiveUp(q)
    <3>1. ASSUME NEW p \in Proc, Start(p) \/ Kill(p) PROVE FALSE
      BY <3>1 DEF Start, Kill
    <3>2. ASSUME NEW p \in Proc, Script(p) PROVE FALSE
      BY <3>2 DEF Script, ScriptCopy, ScriptRename, ScriptFails
    <3>3. ASSUME NEW p \in Proc, Invocation(p) PROVE GiveUp(q)
      <4>1. GiveUp(p)
        BY <3>3 DEF Invocation, OpenLockFile, OpenFails, Acquire, Retry, Wake,
                    FcntlFails, RunCmd, RunCmdFails, Reap, Exit
      <4>2. p = q
        BY <4>1 DEF GiveUp
      <4>3. QED
        BY <4>1, <4>2
    <3>4. QED
      BY <3>1, <3>2, <3>3 DEF Next
  <2>2. QED
    BY <2>1 DEF GiveUp, LockInv, Alive
<1>2. QED
  BY <1>1, TypeCorrect, LockInvariant, PTL DEF Spec, GiveUpOnlyIfOwned

\* Every step keeps the scripts of invocations that hold the lock apart.
LEMMA ScriptStep ==
  ASSUME TypeOK, LockInv, ScriptInv, Next
  PROVE  ScriptInv'
<1> SUFFICES ASSUME ~overlapped' PROVE ScriptInv'
  BY DEF ScriptInv
<1> USE DEF TypeOK, ScriptInv, Goto, lockVars, scriptVars
<1>1. PICK p \in Proc : Start(p) \/ Polls(p) \/ Works(p) \/ Ends(p) \/ Script(p)
  BY OneAtATime
<1>2. Start(p) => ScriptInv'
  BY DEF Start, Gone
<1>3. Polls(p) => ScriptInv'
  <2>1. Acquire(p) => ScriptInv'
    BY DEF Acquire
  <2>2. OpenLockFile(p) \/ Retry(p) \/ Wake(p) => ScriptInv'
    BY DEF OpenLockFile, Retry, Wake
  <2> QED
    BY <2>1, <2>2 DEF Polls
<1>4. Works(p) => ScriptInv'
  <2>1. OpenFails(p) \/ FcntlFails(p) => ScriptInv'
    BY DEF OpenFails, FcntlFails
  <2>2. RunCmd(p) => ScriptInv'
    BY DEF RunCmd
  <2>3. RunCmdFails(p) \/ Reap(p) => ScriptInv'
    BY DEF RunCmdFails, Reap
  <2> QED
    BY <2>1, <2>2, <2>3 DEF Works
<1>5. Ends(p) => ScriptInv'
  <2>1. GiveUp(p) \/ Exit(p) => ScriptInv'
    BY DEF GiveUp, Exit, Release
  <2>2. Kill(p) => ScriptInv'
    BY DEF Kill, Release
  <2> QED
    BY <2>1, <2>2 DEF Ends
<1>6. ASSUME Script(p) PROVE ScriptInv'
  <2>1. \A q \in Proc : script[q] # "none" => q = p
    BY <1>6 DEF LockInv, Script, ScriptCopy, ScriptRename, ScriptFails
  <2>2. ScriptCopy(p) => ScriptInv'
    BY DEF ScriptCopy
  <2>3. CASE ScriptRename(p)
    BY <2>1, <2>3 DEF ScriptRename
  <2>4. ScriptFails(p) => ScriptInv'
    BY DEF ScriptFails
  <2> QED
    BY <1>6, <2>2, <2>3, <2>4 DEF Script
<1> QED
  BY ONLY <1>1, <1>2, <1>3, <1>4, <1>5, <1>6

\* Unless a script overlapped, no invocation's update of the file is ever lost.
THEOREM NoLostUpdateHolds == Spec => []NoLostUpdate
<1>1. Init => ScriptInv
  BY DEF Init, ScriptInv
<1>2. ScriptInv => NoLostUpdate
  BY DEF ScriptInv, NoLostUpdate
<1>3. ASSUME ScriptInv, UNCHANGED vars PROVE ScriptInv'
  BY <1>3 DEF ScriptInv, vars
<1> QED
  BY <1>1, <1>2, <1>3, ScriptStep, TypeCorrect, LockInvariant, PTL DEF Spec

\* The record lock implements the abstract mutex: a step of an invocation enters it,
\* leaves it, or does not change who is inside.
THEOREM RefinesMutex == Spec => ImplementsMutex
<1>1. Init => M!Init
  BY DEF Init, M!Init, Inside
<1>2. TypeOK /\ LockInv /\ Next => [M!Next]_Inside
  <2> SUFFICES ASSUME TypeOK, LockInv, Next PROVE [M!Next]_Inside
    OBVIOUS
  <2> USE DEF TypeOK, Inside, Goto, lockVars, scriptVars
  <2>1. ASSUME NEW p \in Proc, Acquire(p) PROVE M!Enter(p)
    <3>1. Inside = {}
      BY <2>1 DEF Acquire, LockInv
    <3>2. Inside' = {p}
      BY <2>1, <3>1 DEF Acquire
    <3>3. QED
      BY <3>1, <3>2 DEF M!Enter
  <2>2. ASSUME NEW p \in Proc, Release(p) PROVE M!Leave(p) \/ UNCHANGED Inside
    <3>1. CASE guard[p] = "locked"
      <4>1. Inside = {p}
        BY <3>1 DEF LockInv
      <4>2. Inside' = {}
        BY <2>2, <4>1 DEF Release
      <4>3. QED
        BY <4>1, <4>2 DEF M!Leave
    <3>2. CASE guard[p] # "locked"
      BY <2>2, <3>2 DEF Release
    <3>3. QED
      BY <3>1, <3>2
  <2>3. ASSUME NEW p \in Proc, OpenFails(p) \/ FcntlFails(p) PROVE UNCHANGED Inside
    BY <2>3 DEF OpenFails, FcntlFails, LockInv
  <2>4. ASSUME NEW p \in Proc,
               Start(p) \/ OpenLockFile(p) \/ Retry(p) \/ Wake(p) \/ RunCmd(p)
                 \/ RunCmdFails(p) \/ Reap(p) \/ Script(p)
        PROVE  UNCHANGED Inside
    BY <2>4 DEF Start, OpenLockFile, Retry, Wake, RunCmd, RunCmdFails, Reap, Script,
                ScriptCopy, ScriptRename, ScriptFails
  <2>5. ASSUME NEW p \in Proc, GiveUp(p) \/ Exit(p) \/ Kill(p) PROVE Release(p)
    BY <2>5 DEF GiveUp, Exit, Kill
  <2>6. PICK p \in Proc : Start(p) \/ Polls(p) \/ Works(p) \/ Ends(p) \/ Script(p)
    BY OneAtATime
  <2> QED
    BY <2>1, <2>2, <2>3, <2>4, <2>5, <2>6 DEF Polls, Works, Ends, M!Next
<1>3. UNCHANGED vars => UNCHANGED Inside
  BY DEF vars, Inside
<1> QED
  BY <1>1, <1>2, <1>3, TypeCorrect, LockInvariant, PTL DEF Spec, ImplementsMutex, M!Spec
=============================================================================
