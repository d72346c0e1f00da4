------------------------------ MODULE MCLocks ------------------------------
(***************************************************************************)
(* All places of the three threads, without a bound.                       *)
(***************************************************************************)
EXTENDS Locks
=============================================================================
