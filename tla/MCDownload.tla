----------------------------- MODULE MCDownload -----------------------------
(***************************************************************************)
(* Two files of different lengths that share blocks, and a pointer of      *)
(* three bytes: the longer file has a flag that memset does not clear.     *)
(***************************************************************************)
EXTENDS Download, TLC

CONSTANTS f1, f2, a, b, c, junk

MCBlocks == f1 :> <<a, b, c>> @@ f2 :> <<b, c, a, a>>
=============================================================================
