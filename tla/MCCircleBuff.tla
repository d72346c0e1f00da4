---------------------------- MODULE MCCircleBuff ----------------------------
(***************************************************************************)
(* A ring of four slots and three byte values: small enough to visit every *)
(* position of both cursors with every content, large enough to wrap.      *)
(***************************************************************************)
EXTENDS CircleBuff

MCByte == 0 .. 2
=============================================================================
