----------------------------- MODULE MCDownlink -----------------------------
(***************************************************************************)
(* Messages of different lengths, one of them the bytes of a header and    *)
(* one too long for RecvBuff4treat but not for comBuff0.  With four values *)
(* to a byte the two ports have their real bytes, 3 1 and 1 2.             *)
(***************************************************************************)
EXTENDS DownlinkProperties

MCMsg == {<<1>>, <<0, 2>>, <<3, 1, 0>>, <<1, 2, 0, 1>>, <<2, 2, 2, 2, 2>>}
=============================================================================
