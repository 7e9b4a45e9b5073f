-------------------------- MODULE WinAppLockProofs --------------------------
(***************************************************************************)
(* Proofs about WinAppLock for every set of invocations and every          *)
(* combination of faults.                                                  *)
(***************************************************************************)
EXTENDS WinAppLock, TLAPS

USE ProcAssumption

\* The owner of the mutex is the invocation at work or one about to exit(2), with the
\* object open; an abandoned object is one that somebody still has open.
OwnerInv ==
  /\ \A p \in Proc :
       /\ pc[p] = "work" => owner = p
       /\ pc[p] \in {"waiting", "work"} => p \in handles
       /\ pc[p] \in {"create", "gone", "exit2"} => p \notin handles
  /\ owner # NoProc => owner \in handles /\ pc[owner] \in {"work", "refused"}
  /\ abandoned => handles # {} /\ owner = NoProc

\* A doomed invocation that still waits has the abandonment before it, or a refused
\* invocation that is about to renew it.
DoomedInv ==
  /\ doomed \subseteq {p \in Proc : pc[p] \in {"waiting", "refused"}}
  /\ \A p \in doomed : pc[p] = "waiting"
       => abandoned \/ (owner # NoProc /\ pc[owner] = "refused")

IInv == TypeOK /\ OwnerInv /\ DoomedInv

LEMMA InitHolds == Init => IInv
BY DEF Init, IInv, TypeOK, OwnerInv, DoomedInv, Gone, Alive

LEMMA StepHolds == IInv /\ [Next]_vars => IInv'
<1> SUFFICES ASSUME IInv, [Next]_vars PROVE IInv'
  OBVIOUS
<1> USE DEF IInv, TypeOK, OwnerInv, DoomedInv, Gone, Alive, Goto
<1>1. ASSUME NEW p \in Proc, Start(p) PROVE IInv'
  BY <1>1 DEF Start
<1>2. ASSUME NEW p \in Proc, Invocation(p) PROVE IInv'
  <2>1. CASE CreateMutex(p)
    BY <2>1 DEF CreateMutex
  <2>2. CASE CreateMutexFails(p)
    BY <2>2 DEF CreateMutexFails
  <2>3. CASE WaitObject(p)
    BY <2>3 DEF WaitObject
  <2>4. CASE WaitAbandoned(p)
    BY <2>4 DEF WaitAbandoned
  <2>5. CASE WaitTimeout(p)
    BY <2>5 DEF WaitTimeout
  <2>6. CASE Exit2(p)
    BY <2>6 DEF Exit2, CloseHandles
  <2>7. CASE Unlock(p)
    BY <2>7 DEF Unlock
  <2>8. CASE Exit(p)
    BY <2>8 DEF Exit, CloseHandles
  <2>9. QED
    BY <1>2, <2>1, <2>2, <2>3, <2>4, <2>5, <2>6, <2>7, <2>8 DEF Invocation, Wait
<1>3. ASSUME NEW p \in Proc, Kill(p) PROVE IInv'
  BY <1>3 DEF Kill, CloseHandles, Waiting
<1>4. ASSUME NEW p \in Proc, WaitFails(p) PROVE IInv'
  BY <1>4 DEF WaitFails
<1>5. CASE UNCHANGED vars
  BY <1>5 DEF vars
<1>6. QED
  BY <1>1, <1>2, <1>3, <1>4, <1>5 DEF Next

THEOREM Invariant == Spec => []IInv
BY InitHolds, StepHolds, PTL DEF Spec

\* Type correctness of the named mutex and its users.
THEOREM TypeCorrect == Spec => []TypeOK
<1>1. IInv => TypeOK
  BY DEF IInv
<1>2. QED
  BY <1>1, Invariant, PTL

\* Two invocations that waited for the mutex never work at the same time.
THEOREM MutualExclusionHolds == Spec => []MutualExclusion
<1>1. IInv => MutualExclusion
  BY DEF IInv, OwnerInv, MutualExclusion, Inside
<1>2. QED
  BY <1>1, Invariant, PTL

\* No invocation that waited while a worker was killed ever works.
THEOREM DoomedNeverWorkHolds == Spec => []DoomedNeverWork
<1>1. IInv => DoomedNeverWork
  BY DEF IInv, DoomedInv, DoomedNeverWork
<1>2. QED
  BY <1>1, Invariant, PTL

\* With every handle closed nothing is left of an owner or of an abandonment.
THEOREM FreshWhenUnusedHolds == Spec => []FreshWhenUnused
<1>1. IInv => FreshWhenUnused
  BY DEF IInv, OwnerInv, FreshWhenUnused
<1>2. QED
  BY <1>1, Invariant, PTL

\* The named mutex implements the same abstract mutex as the record lock on Unix, whatever
\* is killed and abandoned: an invocation goes in only when nobody is inside, and only
\* the one that is inside comes out, by single_app_unlock() or by its end.
THEOREM RefinesMutex == Spec => ImplementsMutex
<1>1. Init => M!Init
  BY DEF Init, M!Init, Inside
<1>2. IInv /\ [Next]_vars => [M!Next]_Inside
  <2> SUFFICES ASSUME IInv, [Next]_vars PROVE [M!Next]_Inside
    OBVIOUS
  <2> USE DEF IInv, TypeOK, Inside, Goto
  <2>1. ASSUME NEW p \in Proc, WaitObject(p) PROVE M!Enter(p)
    <3>1. Inside = {}
      BY <2>1 DEF WaitObject, OwnerInv
    <3>2. Inside' = {p}
      BY <2>1, <3>1 DEF WaitObject
    <3>3. QED
      BY <3>1, <3>2 DEF M!Enter
  <2>2. ASSUME NEW p \in Proc, Unlock(p) \/ Kill(p)
        PROVE  M!Leave(p) \/ UNCHANGED Inside
    <3>1. CASE pc[p] = "work"
      <4>1. Inside = {p}
        BY <3>1 DEF OwnerInv
      <4>2. Inside' = {}
        BY <2>2, <4>1 DEF Unlock, Kill
      <4>3. QED
        BY <4>1, <4>2 DEF M!Leave
    <3>2. CASE pc[p] # "work"
      BY <2>2, <3>2 DEF Unlock, Kill
    <3>3. QED
      BY <3>1, <3>2
  <2>3. ASSUME NEW p \in Proc,
               Start(p) \/ CreateMutex(p) \/ CreateMutexFails(p) \/ WaitAbandoned(p)
                 \/ WaitTimeout(p) \/ WaitFails(p) \/ Exit2(p) \/ Exit(p)
        PROVE  UNCHANGED Inside
    BY <2>3 DEF Start, CreateMutex, CreateMutexFails, WaitAbandoned, WaitTimeout,
                WaitFails, Exit2, Exit, Gone
  <2>4. CASE UNCHANGED vars
    BY <2>4 DEF vars
  <2>5. QED
    BY <2>1, <2>2, <2>3, <2>4 DEF Next, Invocation, Wait, M!Next
<1>3. QED
  BY <1>1, <1>2, Invariant, PTL DEF Spec, ImplementsMutex, M!Spec
=============================================================================
