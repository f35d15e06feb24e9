--------------------- MODULE MCInterruptEventSupervisor ---------------------
(***************************************************************************)
(* Small guests for InterruptEventSupervisor.  Frame f1 holds p1 and p2,   *)
(* frame f2 holds p3.  Two processes, d1 and d2, have a breakpoint at p1   *)
(* (b1, b2: a shared library), b3 is a global breakpoint at p2 (a kernel   *)
(* function), and b4 is wanted at p3, where the guest's code has an INT3   *)
(* of its own; in b4's process the page behind f2 is f1, and p1 is within  *)
(* its first 16 bytes.                                                     *)
(***************************************************************************)
EXTENDS InterruptEventSupervisor, TLC

CONSTANTS p1, p2, p3, f1, f2, d1, d2, b1, b2, b3, b4

VcpuSymmetry == Permutations(VCPUs)

MCGFN      == (p1 :> f1) @@ (p2 :> f1) @@ (p3 :> f2)
MCTargetPA == (b1 :> p1) @@ (b2 :> p1) @@ (b3 :> p2) @@ (b4 :> p3)
MCFollowing == [b \in Breakpoints |-> IF b = b4 THEN {p1} ELSE {}]
MCDtbOf    == (b1 :> d1) @@ (b2 :> d2) @@ (b3 :> d1) @@ (b4 :> d2)
=============================================================================
