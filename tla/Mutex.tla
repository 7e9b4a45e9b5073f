------------------------------- MODULE Mutex -------------------------------
(***************************************************************************)
(* What single_app_lock() promises the rest of nettool.c: of the           *)
(* invocations that hold the application lock, at most one is working.     *)
(* Both implementations of the lock, the fcntl record lock (AppLock) and   *)
(* the named kernel mutex (WinAppLock), are shown to implement this module.*)
(***************************************************************************)
CONSTANT Proc       \* invocations of prl_nettool

VARIABLE inside     \* invocations working under the lock

Init == inside = {}

Enter(p) == /\ inside = {}
            /\ inside' = {p}

Leave(p) == /\ inside = {p}
            /\ inside' = {}

Next == \E p \in Proc : Enter(p) \/ Leave(p)

Spec == Init /\ [][Next]_inside
=============================================================================
