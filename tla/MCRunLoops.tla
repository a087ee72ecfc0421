----------------------------- MODULE MCRunLoops ------------------------------
(***************************************************************************)
(* Instances of RunLoops: the names of the loop processes.                 *)
(***************************************************************************)
EXTENDS RunLoops

CONSTANTS initializer, manager, manager2, finisher
=============================================================================
