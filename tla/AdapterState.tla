---------------------------- MODULE AdapterState ----------------------------
(***************************************************************************)
(* How the Windows build turns adapters off and on again around a change   *)
(* of their settings (nettool.c, apply_parameters; setnet.c, from          *)
(* save_adapter_disabled to enable_disabled_adapter).  The names of the    *)
(* adapters it has turned off are kept in a registry value, so that the    *)
(* next run can turn them on again if this one dies in between.            *)
(*                                                                         *)
(* One run at a time: the application lock (WinAppLock) sees to that.  A   *)
(* run may be killed between any two of its registry and netsh operations. *)
(***************************************************************************)
EXTENDS Naturals

CONSTANTS
  Adapter,      \* the guest's network adapters
  NoAdapter,    \* "none", for the adapter being operated on
  Builds,       \* values of NTDDI_VERSION >= NTDDI_LONGHORN considered
  Faults,       \* which of "kill", "netsh", "regread", "regwrite" may happen
  MaxFaults     \* bound: faults in one behaviour

ASSUME AdapterAssumption  == NoAdapter \notin Adapter
ASSUME BuildsAssumption   == Builds \subseteq BOOLEAN
ASSUME FaultsAssumption   == /\ Faults \subseteq {"kill", "netsh", "regread", "regwrite"}
                             /\ MaxFaults \in Nat

VARIABLES
  longhorn,    \* which build runs
  up,          \* adapters that are enabled
  reg,         \* names recorded under "prl_nettool_disabled"
  phase,       \* how far the run has come; "gone" and "killed": no run
  todo,        \* adapters the current loop has still to visit
  act, cur,    \* the operation under way inside enable_adapter_name(), on which adapter
  disabled,    \* netinfo.disabled: adapters this run has turned off
  listed,      \* adapters get_device_list() has found
  wanted,      \* adapters named by the options
  restart,     \* those whose change needs the adapter turned off and on
  configured,  \* adapters whose settings this run has applied
  toolDown,    \* history: adapters the program turned off and nobody turned on since
  refused,     \* history: adapters whose last ENABLE failed
  faults       \* faults left, and the kinds seen so far

runVars == <<phase, todo, listed, wanted, restart, configured>>
vars == <<longhorn, up, reg, phase, todo, act, cur, disabled, listed, wanted, restart,
          configured, toolDown, refused, faults>>

Idle == phase \in {"gone", "killed"}

TypeOK ==
  /\ up \subseteq Adapter
  /\ reg \subseteq Adapter
  /\ phase \in {"gone", "killed", "start", "restore", "list", "missing", "apply", "finish"}
  /\ todo \subseteq Adapter
  /\ act \in {"none", "save", "disable", "enable", "enableUuid", "forget"}
  /\ cur \in Adapter \cup {NoAdapter}
  /\ act # "none" => cur \in Adapter
  /\ disabled \subseteq Adapter
  /\ listed \subseteq Adapter
  /\ wanted \subseteq Adapter
  /\ restart \subseteq wanted
  /\ configured \subseteq wanted
  /\ toolDown \subseteq Adapter
  /\ refused \subseteq Adapter
  /\ longhorn \in Builds
  /\ faults \in [left: 0..MaxFaults, seen: SUBSET Faults]

\* Some adapters may have been turned off by the user; the program has not run yet.
Init ==
  /\ up \in SUBSET Adapter
  /\ reg = {}
  /\ phase = "gone"
  /\ todo = {}
  /\ act = "none" /\ cur = NoAdapter
  /\ disabled = {}
  /\ listed = {}
  /\ wanted = {} /\ restart = {} /\ configured = {}
  /\ toolDown = {}
  /\ refused = {}
  /\ longhorn \in Builds
  /\ faults = [left |-> MaxFaults, seen |-> {}]

Fault(kind) ==
  /\ kind \in Faults
  /\ faults.left > 0
  /\ faults' = [left |-> faults.left - 1, seen |-> faults.seen \cup {kind}]

Begin(kind, a) == act' = kind /\ cur' = a
End == act' = "none" /\ cur' = NoAdapter

(***************************************************************************)
(* enable_adapter_name(): what one call does, an operation at a time.      *)
(***************************************************************************)

\* save_adapter_disabled(name, 0): read the list, add the name, write the list.
Save ==
  /\ act = "save"
  /\ reg' = reg \cup {cur}
  /\ Begin("disable", cur)
  /\ UNCHANGED <<longhorn, up, runVars, disabled, toolDown, refused, faults>>

\* The list cannot be read; the error is ignored and the new list has one name.
SaveReadFails ==
  /\ act = "save"
  /\ Fault("regread")
  /\ reg' = {cur}
  /\ Begin("disable", cur)
  /\ UNCHANGED <<longhorn, up, runVars, disabled, toolDown, refused>>

\* The list cannot be written; enable_adapter_name() does not look at the result.
SaveWriteFails ==
  /\ act = "save"
  /\ Fault("regwrite")
  /\ Begin("disable", cur)
  /\ UNCHANGED <<longhorn, up, reg, runVars, disabled, toolDown, refused>>

\* netsh interface set interface ... DISABLE
Disable ==
  /\ act = "disable"
  /\ up' = up \ {cur}
  /\ toolDown' = toolDown \cup {cur}
  /\ End
  /\ UNCHANGED <<longhorn, reg, runVars, disabled, refused, faults>>

DisableFails ==
  /\ act = "disable"
  /\ Fault("netsh")
  /\ End
  /\ UNCHANGED <<longhorn, up, reg, runVars, disabled, toolDown, refused>>

\* netsh interface set interface ... ENABLE, for a name or for a device's UUID; only
\* names are in the list, so a UUID is not looked for again.
Enable ==
  /\ act \in {"enable", "enableUuid"}
  /\ up' = up \cup {cur}
  /\ toolDown' = toolDown \ {cur}
  /\ refused' = refused \ {cur}
  /\ IF act = "enable" THEN Begin("forget", cur) ELSE End
  /\ UNCHANGED <<longhorn, reg, runVars, disabled, faults>>

\* MUTANT of EnableFails: the name is forgotten without a look at netsh's result.
EnableFailsForgets ==
  /\ act \in {"enable", "enableUuid"}
  /\ Fault("netsh")
  /\ refused' = refused \cup {cur}
  /\ Begin("forget", cur)
  /\ UNCHANGED <<longhorn, up, reg, runVars, disabled, toolDown>>

\* "save only if successfully enabled": the name stays in the list.
EnableFails ==
  /\ act \in {"enable", "enableUuid"}
  /\ Fault("netsh")
  /\ refused' = refused \cup {cur}
  /\ End
  /\ UNCHANGED <<longhorn, up, reg, runVars, disabled, toolDown>>

\* save_adapter_disabled(name, 1): read the list, remove the name, write the list.
Forget ==
  /\ act = "forget"
  /\ reg' = reg \ {cur}
  /\ End
  /\ UNCHANGED <<longhorn, up, runVars, disabled, toolDown, refused, faults>>

\* Unreadable, the list is taken for empty: the name is not found, nothing to do.
ForgetFails ==
  /\ act = "forget"
  /\ Fault("regread") \/ Fault("regwrite")
  /\ End
  /\ UNCHANGED <<longhorn, up, reg, runVars, disabled, toolDown, refused>>

(***************************************************************************)
(* The run.                                                                *)
(***************************************************************************)

Start ==
  /\ Idle
  /\ phase' = "start"
  /\ \E w \in SUBSET Adapter : \E r \in SUBSET w : wanted' = w /\ restart' = r
  /\ configured' = {}
  /\ UNCHANGED <<longhorn, up, reg, todo, act, cur, disabled, listed, toolDown, refused, faults>>

\* MUTANT of ReadRecords: a list of one name is taken for an empty one.
ReadRecordsMany ==
  /\ phase = "start"
  /\ todo' = IF \E a, b \in reg : a # b THEN reg ELSE {}
  /\ phase' = "restore"
  /\ UNCHANGED <<longhorn, up, reg, act, cur, disabled, listed, wanted, restart, configured,
                 toolDown, refused, faults>>

\* restore_adapter_state(): the adapters of the list are to be enabled.
ReadRecords ==
  /\ phase = "start"
  /\ todo' = reg
  /\ phase' = "restore"
  /\ UNCHANGED <<longhorn, up, reg, act, cur, disabled, listed, wanted, restart, configured,
                 toolDown, refused, faults>>

\* It returns 1, which do_work() ignores.
ReadRecordsFails ==
  /\ phase = "start"
  /\ Fault("regread")
  /\ phase' = "list"
  /\ UNCHANGED <<longhorn, up, reg, todo, act, cur, disabled, listed, wanted, restart, configured,
                 toolDown, refused>>

RestoreNext(a) ==
  /\ phase = "restore" /\ act = "none"
  /\ a \in todo
  /\ todo' = todo \ {a}
  /\ Begin("enable", a)
  /\ UNCHANGED <<longhorn, up, reg, phase, disabled, listed, wanted, restart, configured,
                 toolDown, refused, faults>>

RestoreDone ==
  /\ phase = "restore" /\ act = "none"
  /\ todo = {}
  /\ phase' = "list"
  /\ UNCHANGED <<longhorn, up, reg, todo, act, cur, disabled, listed, wanted, restart, configured,
                 toolDown, refused, faults>>

\* apply_parameters(): get_device_list() lists the enabled adapters, once.  From
\* Longhorn on, the missing ones the options name are looked for.
ListDevices ==
  /\ phase = "list"
  /\ listed' = up
  /\ IF longhorn
       THEN phase' = "missing" /\ todo' = wanted \ up
       ELSE phase' = "apply"   /\ todo' = restart \cap up
  /\ UNCHANGED <<longhorn, up, reg, act, cur, disabled, wanted, restart, configured,
                 toolDown, refused, faults>>

\* enable_disabled_adapter() enables the device by its UUID.
MissingNext(a) ==
  /\ phase = "missing" /\ act = "none"
  /\ a \in todo
  /\ todo' = todo \ {a}
  /\ Begin("enableUuid", a)
  /\ UNCHANGED <<longhorn, up, reg, phase, disabled, listed, wanted, restart, configured,
                 toolDown, refused, faults>>

\* It returns 0 whatever it found, so nothing is waited for and the list is kept.
MissingDone ==
  /\ phase = "missing" /\ act = "none"
  /\ todo = {}
  /\ phase' = "apply"
  /\ UNCHANGED <<longhorn, up, reg, todo, act, cur, disabled, listed, wanted, restart, configured,
                 toolDown, refused, faults>>

\* MUTANT of ApplyNext: the adapter is turned off without a mark in its netinfo.
ApplyNextUnmarked(a) ==
  /\ phase = "apply" /\ act = "none"
  /\ a \in todo
  /\ todo' = todo \ {a}
  /\ Begin("save", a)
  /\ UNCHANGED <<longhorn, up, reg, phase, disabled, listed, wanted, restart, configured,
                 toolDown, refused, faults>>

\* disable_adapter_if_needed(), before Longhorn: the adapter stays off while its
\* settings change.
ApplyNext(a) ==
  /\ phase = "apply" /\ act = "none"
  /\ a \in todo
  /\ todo' = todo \ {a}
  /\ disabled' = disabled \cup {a}
  /\ Begin("save", a)
  /\ UNCHANGED <<longhorn, up, reg, phase, listed, wanted, restart, configured,
                 toolDown, refused, faults>>

\* The options of adapters that are not in the list have been dropped.
ApplyDone ==
  /\ phase = "apply" /\ act = "none"
  /\ todo = {}
  /\ configured' = wanted \cap listed
  /\ phase' = "finish"
  /\ todo' = listed
  /\ UNCHANGED <<longhorn, up, reg, act, cur, disabled, listed, wanted, restart,
                 toolDown, refused, faults>>

\* do_disable_adapter() in the last loop, from Longhorn on: the DHCP setting of the
\* adapter changed.
FinishDisable(a) ==
  /\ phase = "finish" /\ act = "none"
  /\ longhorn
  /\ a \in todo \cap restart
  /\ a \notin disabled
  /\ disabled' = disabled \cup {a}
  /\ Begin("save", a)
  /\ UNCHANGED <<longhorn, up, reg, runVars, toolDown, refused, faults>>

\* enable_adapter_if_needed(): the mark is cleared whatever becomes of the ENABLE.
FinishEnable(a) ==
  /\ phase = "finish" /\ act = "none"
  /\ a \in todo \cap disabled
  /\ todo' = todo \ {a}
  /\ disabled' = disabled \ {a}
  /\ Begin("enable", a)
  /\ UNCHANGED <<longhorn, up, reg, phase, listed, wanted, restart, configured,
                 toolDown, refused, faults>>

FinishSkip(a) ==
  /\ phase = "finish" /\ act = "none"
  /\ a \in todo \ disabled
  /\ ~(longhorn /\ a \in restart)
  /\ todo' = todo \ {a}
  /\ UNCHANGED <<longhorn, up, reg, phase, act, cur, disabled, listed, wanted, restart, configured,
                 toolDown, refused, faults>>

Exit ==
  /\ phase = "finish" /\ act = "none"
  /\ todo = {}
  /\ phase' = "gone"
  /\ listed' = {}
  /\ UNCHANGED <<longhorn, up, reg, todo, act, cur, disabled, wanted, restart, configured,
                 toolDown, refused, faults>>

\* The process is terminated: what it knew is lost, the registry stays.
Kill ==
  /\ ~Idle
  /\ Fault("kill")
  /\ phase' = "killed"
  /\ todo' = {} /\ disabled' = {} /\ listed' = {}
  /\ wanted' = {} /\ restart' = {} /\ configured' = {}
  /\ End
  /\ UNCHANGED <<longhorn, up, reg, toolDown, refused>>

\* Between runs the user turns an adapter off or on.
UserToggle(a) ==
  /\ Idle
  /\ up' = IF a \in up THEN up \ {a} ELSE up \cup {a}
  /\ toolDown' = toolDown \ {a}
  /\ refused' = refused \ {a}
  /\ UNCHANGED <<longhorn, reg, runVars, act, cur, disabled, faults>>

EnableAdapterName ==
  \/ Save \/ SaveReadFails \/ SaveWriteFails \/ Disable \/ DisableFails
  \/ Enable \/ EnableFails \/ Forget \/ ForgetFails

Run ==
  \/ Start \/ ReadRecords \/ ReadRecordsFails \/ RestoreDone \/ ListDevices
  \/ MissingDone \/ ApplyDone \/ Exit
  \/ \E a \in Adapter :
       \/ RestoreNext(a) \/ MissingNext(a) \/ ApplyNext(a)
       \/ FinishDisable(a) \/ FinishEnable(a) \/ FinishSkip(a)
  \/ EnableAdapterName

Next == Run \/ Kill \/ \E a \in Adapter : UserToggle(a)

\* The program is run again and again (prl_tools calls it for every change), and a run
\* goes on until it is killed.
Spec == Init /\ [][Next]_vars
FairSpec == Spec /\ WF_vars(Run)

(***************************************************************************)
(* Properties.                                                             *)
(***************************************************************************)


RegistryWorks == faults.seen \cap {"regread", "regwrite"} = {}

\* Whatever moment a run is killed at, and whatever netsh refuses, an adapter that the
\* program has left turned off is recorded in the registry, as long as the registry
\* could be read and written.
DisabledIsRecorded == RegistryWorks => toolDown \subseteq reg

\* A run that ends by itself leaves an adapter off only if netsh refused to enable it.
\* The marks in memory need no registry, and what killed runs left off needs nothing else.
LeftDownOnlyIfRefused ==
  phase = "gone" /\ ("kill" \notin faults.seen \/ RegistryWorks) => toolDown \subseteq refused

\* "first - restore adapters" (do_work): when the devices are listed, what earlier runs
\* left off is on again, unless netsh refused, so their options are not dropped.
RestoredBeforeListing == phase = "list" /\ RegistryWorks => toolDown \subseteq refused

\* An adapter the program turned off is turned on again, by this run or, after a kill,
\* by a later one, unless the record of it could not be kept.
EventuallyEnabled == \A a \in Adapter : a \in toolDown ~> a \notin toolDown \/ ~RegistryWorks
=============================================================================
