--------------------------- MODULE MCWaitForStart ---------------------------
(***************************************************************************)
(* Indices for WaitForStart.  "m0" is a device whose MAC begins 00: (the   *)
(* vendor prefix of virtual machines' adapters is 00:1c:42), "m8" and "m9" *)
(* begin 08: and 09:.                                                      *)
(***************************************************************************)
EXTENDS WaitForStart

MacAtoi == [m \in Mac |-> CASE m = "m0" -> 0 [] m = "m8" -> 8 [] m = "m9" -> 9]

\* Windows: interface indices, none of them the number a requested MAC begins with.
WindowsIdx == [m \in Mac |-> CASE m = "m0" -> 11 [] m = "m8" -> 12 [] m = "m9" -> 13]
=============================================================================
