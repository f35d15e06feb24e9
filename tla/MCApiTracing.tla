---------------------------- MODULE MCApiTracing ----------------------------
(***************************************************************************)
(* Four processes.  parent (pid 2, at A) is traced together with its       *)
(* children, and child (pid 1, at B) is one of them.  next (pid 2, at B)   *)
(* gets the pid of parent and the address of child, last (pid 3, at A) the *)
(* address of parent; next is traced without its children.                 *)
(***************************************************************************)
EXTENDS ApiTracing, TLC

CONSTANTS parent, child, next, last, A, B, withChildren, alone

MCPidOf    == (parent :> 2) @@ (child :> 1) @@ (next :> 2) @@ (last :> 3)
MCBaseOf   == (parent :> A) @@ (child :> B) @@ (next :> B) @@ (last :> A)
MCParentOf == (parent :> None) @@ (child :> parent) @@ (next :> None) @@ (last :> next)
MCProfile  == (parent :> withChildren) @@ (child :> None) @@ (next :> alone) @@ (last :> alone)
=============================================================================
