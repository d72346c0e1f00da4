----------------------------- MODULE FileCheck -----------------------------
(***************************************************************************)
(* What parseJson (comTreat.c) does with the bytes of a file: the server   *)
(* encodes them, base64_decode gets them back, and caculate_crc runs over  *)
(* them.  The loops share no state; the checksum comes after the decoding, *)
(* so that DecodesBack and CrcIsRemainder together say that the checksum   *)
(* is that of the bytes the server encoded.                                *)
(***************************************************************************)
EXTENDS Base64, Crc32Properties

fileVars == <<base64Vars, crcVars>>

\* A byte, a number in Base64, is the set of its ones in Crc32.
Ones(byte) == {b \in 0 .. 7 : (byte \div 2 ^ b) % 2 = 1}
AsFile(bytes) == [k \in DOMAIN bytes |-> Ones(bytes[k])]

ASSUME SameInputsAssumption == \A s \in Inputs : AsFile(s) \in Files

FileInit == Base64Init /\ CrcInit /\ string = AsFile(bin)

Decode == Base64Next /\ UNCHANGED crcVars
Check == phase = "done" /\ CrcNext /\ UNCHANGED base64Vars

FileSpec == FileInit /\ [][Decode \/ Check]_fileVars
=============================================================================
