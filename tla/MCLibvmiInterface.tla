-------------------------- MODULE MCLibvmiInterface --------------------------
(***************************************************************************)
(* Two threads of the scanner beside the event thread, one page of guest   *)
(* memory, one vCPU, and four calls for each callback, each unload, each   *)
(* teardown and each scan.                                                 *)
(***************************************************************************)
EXTENDS LibvmiInterface, TLC
=============================================================================
