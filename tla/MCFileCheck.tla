---------------------------- MODULE MCFileCheck ----------------------------
(***************************************************************************)
(* All lengths up to two groups, so every tail is met both in the first    *)
(* and in a later group; every single byte, so every entry of the table is *)
(* used; bytes whose bits make each part of a character and of a byte all  *)
(* zeros and all ones; and the text "123456789", on which CRCs are usually *)
(* compared.                                                               *)
(***************************************************************************)
EXTENDS FileCheck

Tuples(n, B) == [1 .. n -> B]

MCInputs == UNION {Tuples(n, {0, 255}) : n \in 0 .. 6}
              \cup UNION {Tuples(n, {3, 60, 170, 195}) : n \in 2 .. 4}
              \cup Tuples(1, 0 .. 255)
              \cup {<<b, 90, 255 - b>> : b \in 0 .. 255}
              \cup {<<49, 50, 51, 52, 53, 54, 55, 56, 57>>}
MCFiles == {AsFile(s) : s \in MCInputs}
=============================================================================
