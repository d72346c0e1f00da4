--------------------------- MODULE MCDebugConsole ---------------------------
(***************************************************************************)
(* "debug" is two characters, the buffer three.  Datagrams are empty, too  *)
(* short, "debug" with and without its NUL, another text with its NUL, a   *)
(* longer one that starts with "debug", one with a character behind its    *)
(* NUL, and one longer than the buffer.                                    *)
(***************************************************************************)
EXTENDS DebugConsole

MCClient == {[port |-> 1, host |-> 1], [port |-> 2, host |-> 2]}
MCDebugText == <<1, 2>>
MCDatagram == {<< >>, <<1>>, <<1, 2>>, <<1, 2, 0>>, <<1, 0>>, <<1, 2, 1>>, <<1, 0, 2>>,
               <<1, 2, 1, 0>>}
=============================================================================
