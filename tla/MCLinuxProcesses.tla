--------------------------- MODULE MCLinuxProcesses ---------------------------
(***************************************************************************)
(* Three tasks besides init_task (pid 0, at I).  first (pid 1, at A)       *)
(* leaves its pid to heir (pid 1, at B) and its address to tenant (pid 2,  *)
(* at A), which is a thread.                                               *)
(***************************************************************************)
EXTENDS LinuxProcesses, TLC

CONSTANTS idle, first, heir, tenant, I, A, B, shell, memfd, trap

MCPidOf    == (idle :> 0) @@ (first :> 1) @@ (heir :> 1) @@ (tenant :> 2)
MCStructOf == (idle :> I) @@ (first :> A) @@ (heir :> B) @@ (tenant :> A)
=============================================================================
