------------------------- MODULE AdapterStateProofs -------------------------
(***************************************************************************)
(* Proofs about AdapterState for every set of adapters, both builds and    *)
(* every number of faults.                                                 *)
(***************************************************************************)
EXTENDS AdapterState, TLAPS

USE AdapterAssumption, BuildsAssumption, FaultsAssumption

\* The operations that record, turn off and forget an adapter come in an order that
\* keeps the record: a name is in the list before netsh is asked to turn it off.
RecordInv ==
  RegistryWorks =>
    /\ toolDown \subseteq reg
    /\ act = "disable" => cur \in reg
    /\ act = "forget" => cur \notin toolDown

\* Runs that a missing record cannot have misled: none was killed, or the registry works.
Covered == "kill" \notin faults.seen \/ RegistryWorks

\* Why an adapter may be off on the program's account.
Accounted(a) ==
  \/ a \in refused \cup disabled
  \/ act \in {"enable", "enableUuid"} /\ cur = a
  \/ phase \in {"killed", "start"} /\ "kill" \in faults.seen
  \/ phase = "restore" /\ a \in todo

\* Every adapter that is off on the program's account is marked in memory, is being
\* enabled, has been refused or is waiting to be restored; the marks are on adapters the
\* last loop will visit.
MarkInv ==
  /\ Covered => \A a \in toolDown : Accounted(a)
  /\ act \in {"save", "disable"} => cur \in disabled /\ phase \in {"apply", "finish"}
  /\ act = "enable" => cur \notin disabled
  /\ act # "none" => phase \in {"restore", "missing", "apply", "finish"}
  /\ phase = "killed" => "kill" \in faults.seen
  /\ phase = "apply" => disabled \subseteq listed /\ todo \subseteq listed
  /\ phase = "finish" => disabled \subseteq todo
  /\ phase \notin {"apply", "finish"} => disabled = {}

\* Type correctness of the program's adapter handling.
THEOREM TypeCorrect == Spec => []TypeOK
<1>1. Init => TypeOK
  BY DEF Init, TypeOK
<1>2. TypeOK /\ [Next]_vars => TypeOK'
  <2> SUFFICES ASSUME TypeOK, [Next]_vars PROVE TypeOK'
    OBVIOUS
  <2> USE DEF TypeOK, Begin, End, runVars, Fault
  <2>1. CASE EnableAdapterName
    BY <2>1 DEF EnableAdapterName, Save, SaveReadFails, SaveWriteFails, Disable,
                DisableFails, Enable, EnableFails, Forget, ForgetFails
  <2>2. CASE Start
    BY <2>2 DEF Start
  <2>3. CASE ReadRecords \/ ReadRecordsFails \/ RestoreDone \/ MissingDone \/ Exit
    BY <2>3 DEF ReadRecords, ReadRecordsFails, RestoreDone, MissingDone, Exit
  <2>4. CASE ListDevices
    BY <2>4 DEF ListDevices
  <2>5. CASE ApplyDone
    BY <2>5 DEF ApplyDone
  <2>6. ASSUME NEW a \in Adapter,
               RestoreNext(a) \/ MissingNext(a) \/ ApplyNext(a)
        PROVE  TypeOK'
    BY <2>6 DEF RestoreNext, MissingNext, ApplyNext
  <2>7. ASSUME NEW a \in Adapter,
               FinishDisable(a) \/ FinishEnable(a) \/ FinishSkip(a)
        PROVE  TypeOK'
    BY <2>7 DEF FinishDisable, FinishEnable, FinishSkip
  <2>8. CASE Kill
    BY <2>8 DEF Kill
  <2>9. ASSUME NEW a \in Adapter, UserToggle(a) PROVE TypeOK'
    BY <2>9 DEF UserToggle
  <2>10. CASE UNCHANGED vars
    BY <2>10 DEF vars
  <2>11. QED
    BY <2>1, <2>2, <2>3, <2>4, <2>5, <2>6, <2>7, <2>8, <2>9, <2>10 DEF Next, Run
<1>3. QED
  BY <1>1, <1>2, PTL DEF Spec

\* Every step keeps the record.
LEMMA RecordStep == TypeOK /\ RecordInv /\ [Next]_vars => RecordInv'
<1> SUFFICES ASSUME TypeOK, RecordInv, [Next]_vars PROVE RecordInv'
  OBVIOUS
<1> USE DEF TypeOK, RecordInv, RegistryWorks, Begin, End, runVars
<1>1. CASE Save \/ Disable \/ DisableFails
  BY <1>1 DEF Save, Disable, DisableFails, Fault
<1>2. CASE SaveReadFails \/ SaveWriteFails \/ ForgetFails
  BY <1>2 DEF SaveReadFails, SaveWriteFails, ForgetFails, Fault
<1>3. CASE Enable \/ EnableFails \/ Forget
  BY <1>3 DEF Enable, EnableFails, Forget, Fault
<1>4. CASE Start \/ ReadRecords \/ ReadRecordsFails \/ RestoreDone \/ ListDevices
             \/ MissingDone \/ ApplyDone \/ Exit
  BY <1>4 DEF Start, ReadRecords, ReadRecordsFails, RestoreDone, ListDevices,
              MissingDone, ApplyDone, Exit, Fault, Idle
<1>5. ASSUME NEW a \in Adapter,
             RestoreNext(a) \/ MissingNext(a) \/ ApplyNext(a)
               \/ FinishDisable(a) \/ FinishEnable(a) \/ FinishSkip(a)
      PROVE  RecordInv'
  BY <1>5 DEF RestoreNext, MissingNext, ApplyNext, FinishDisable, FinishEnable, FinishSkip
<1>6. CASE Kill
  BY <1>6 DEF Kill, Fault
<1>7. ASSUME NEW a \in Adapter, UserToggle(a) PROVE RecordInv'
  BY <1>7 DEF UserToggle
<1>8. CASE UNCHANGED vars
  BY <1>8 DEF vars
<1>9. QED
  BY <1>1, <1>2, <1>3, <1>4, <1>5, <1>6, <1>7, <1>8 DEF Next, Run, EnableAdapterName

LEMMA RecordInvariant == Spec => []RecordInv
<1>1. Init => RecordInv
  BY DEF Init, RecordInv
<1>2. QED
  BY <1>1, RecordStep, TypeCorrect, PTL DEF Spec

\* As long as the registry could be read and written, an adapter the program left off is
\* recorded there, whenever a run is killed and whatever netsh refuses.
THEOREM DisabledIsRecordedHolds == Spec => []DisabledIsRecorded
<1>1. RecordInv => DisabledIsRecorded
  BY DEF RecordInv, DisabledIsRecorded
<1>2. QED
  BY <1>1, RecordInvariant, PTL

\* Every step keeps the account of the adapters that are off.
LEMMA MarkStep == TypeOK /\ RecordInv /\ MarkInv /\ [Next]_vars => MarkInv'
<1> SUFFICES ASSUME TypeOK, RecordInv, MarkInv, [Next]_vars PROVE MarkInv'
  OBVIOUS
<1> USE DEF TypeOK, MarkInv, Covered, Accounted, RegistryWorks, Begin, End, runVars, Idle
<1>1. CASE Save \/ SaveReadFails \/ SaveWriteFails
  BY <1>1 DEF Save, SaveReadFails, SaveWriteFails, Fault
<1>2. CASE Disable \/ DisableFails
  BY <1>2 DEF Disable, DisableFails, Fault
<1>3. CASE Enable \/ EnableFails
  BY <1>3 DEF Enable, EnableFails, Fault
<1>4. CASE Forget \/ ForgetFails
  BY <1>4 DEF Forget, ForgetFails, Fault
<1>5. CASE Start \/ RestoreDone \/ MissingDone
  BY <1>5 DEF Start, RestoreDone, MissingDone
<1>6. CASE ReadRecords \/ ReadRecordsFails
  BY <1>6 DEF ReadRecords, ReadRecordsFails, Fault, RecordInv
<1>7. CASE ListDevices
  BY <1>7 DEF ListDevices
<1>8. CASE ApplyDone \/ Exit
  BY <1>8 DEF ApplyDone, Exit
<1>9. ASSUME NEW a \in Adapter, RestoreNext(a) \/ MissingNext(a) \/ ApplyNext(a)
      PROVE  MarkInv'
  BY <1>9 DEF RestoreNext, MissingNext, ApplyNext
<1>10. ASSUME NEW a \in Adapter, FinishDisable(a) \/ FinishEnable(a) \/ FinishSkip(a)
      PROVE  MarkInv'
  BY <1>10 DEF FinishDisable, FinishEnable, FinishSkip
<1>11. CASE Kill
  BY <1>11 DEF Kill, Fault
<1>12. ASSUME NEW a \in Adapter, UserToggle(a) PROVE MarkInv'
  BY <1>12 DEF UserToggle
<1>13. CASE UNCHANGED vars
  BY <1>13 DEF vars
<1>14. QED
  BY <1>1, <1>2, <1>3, <1>4, <1>5, <1>6, <1>7, <1>8, <1>9, <1>10, <1>11, <1>12, <1>13
     DEF Next, Run, EnableAdapterName

LEMMA MarkInvariant == Spec => []MarkInv
<1>1. Init => MarkInv
  BY DEF Init, MarkInv
<1>2. QED
  BY <1>1, MarkStep, RecordInvariant, TypeCorrect, PTL DEF Spec

\* Unless a run was killed and the registry failed as well, a run that has ended leaves
\* off only adapters that netsh refused to enable.
THEOREM LeftDownOnlyIfRefusedHolds == Spec => []LeftDownOnlyIfRefused
<1>1. MarkInv => LeftDownOnlyIfRefused
  BY DEF MarkInv, Covered, Accounted, LeftDownOnlyIfRefused
<1>2. QED
  BY <1>1, MarkInvariant, PTL

\* When the devices are listed, what earlier runs left off is on again or was refused.
THEOREM RestoredBeforeListingHolds == Spec => []RestoredBeforeListing
<1>1. MarkInv => RestoredBeforeListing
  BY DEF MarkInv, Covered, Accounted, RestoredBeforeListing
<1>2. QED
  BY <1>1, MarkInvariant, PTL
=============================================================================
