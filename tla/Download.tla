------------------------------ MODULE Download ------------------------------
(***************************************************************************)
(* The transfer of a file to the device (parseJson in comTreat.c).  The    *)
(* server announces a file with a filestart message and sends its blocks   *)
(* in fileData messages; Downlink may lose messages and repeat them, and   *)
(* the server may repeat a block or the announcement, send the blocks in   *)
(* any order or turn to another file.  The device stores blocks in         *)
(* g_fileTmp, marks them in g_filePkOk and, when the last block is marked  *)
(* and all the others are, writes the file and exits.  The file comes to   *)
(* the disk in parts, and the program may end between any two of them.     *)
(*                                                                         *)
(* A block is one value: the base64 text that base64_decode turns into at  *)
(* most maxblocklen bytes at its place in g_fileTmp.                       *)
(***************************************************************************)
EXTENDS Integers, Sequences

CONSTANTS File,         \* the files the server can send
          Blocks,       \* the blocks of each file, in order
          Content,      \* what a block can hold
          NoFile,       \* the name before any announcement
          Junk,         \* what g_fileTmp holds where no block was stored
          SizeofPtr,    \* the bytes that sizeof(g_filePkOk) makes memset clear
          MaxRestarts   \* bound: how often the program is started again

ASSUME FileAssumption == /\ Blocks \in [File -> Seq(Content)]
                         /\ \A f \in File : Blocks[f] # << >>
ASSUME JunkAssumption == Junk \notin Content /\ NoFile \notin File
ASSUME PtrAssumption == SizeofPtr \in Nat
ASSUME RestartAssumption == MaxRestarts \in Nat

VARIABLES curState,   \* g_dlState.curState
          pkSum,      \* g_dlState.pkSum
          dlName,     \* g_dlState.dlName: the file that was announced
          pkOk,       \* g_filePkOk
          tmp,        \* g_fileTmp
          proc,       \* where the program is
          disk,       \* the blocks in each file on disk, whole ones only
          sending,    \* the file the server is sending
          mixed,      \* history: a block of another file was stored
          restarts    \* how often the program was started again

dlVars == <<curState, pkSum, dlName, pkOk, tmp>>
vars == <<curState, pkSum, dlName, pkOk, tmp, proc, disk, sending, mixed,
          restarts>>

Index(n) == 0 .. n - 1
Block(f, i) == Blocks[f][i + 1]

Running == proc = "run"

\* A file that does not exist, or was opened for writing and not yet written.
Empty == << >>

-----------------------------------------------------------------------------
(***************************************************************************)
(* filestart.                                                              *)
(***************************************************************************)
\* A slip: the flags are not cleared at all.
FreshFlagsUncleared(n) == [Index(n) -> {0, 1}]

\* The contents of g_filePkOk after malloc and memset: only the first
\* SizeofPtr flags are cleared, the others are what the memory held.
FreshFlags(n) == {ok \in [Index(n) -> {0, 1}] :
                    \A i \in Index(n) : i < SizeofPtr => ok[i] = 0}

FileStart(f) ==
  /\ Running /\ curState = 0
  /\ sending' = f
  /\ curState' = 1
  /\ pkSum' = Len(Blocks[f])
  /\ dlName' = f
  /\ pkOk' \in FreshFlags(pkSum')
  /\ tmp' = [i \in Index(pkSum') |-> Junk]
  /\ mixed' = FALSE
  /\ UNCHANGED <<proc, disk, restarts>>

\* malloc fails: exit(EXIT_FAILURE).
FileStartNoMemory(f) ==
  /\ Running /\ curState = 0
  /\ sending' = f
  /\ proc' = "failed"
  /\ UNCHANGED <<dlVars, disk, mixed, restarts>>

\* The announcement is lost on the way, or ignored because a download is in
\* progress: the server goes on to send the blocks.
FileStartIgnored(f) ==
  /\ sending' = f
  /\ UNCHANGED <<dlVars, proc, disk, mixed, restarts>>

-----------------------------------------------------------------------------
(***************************************************************************)
(* fileData.                                                               *)
(***************************************************************************)
AllThere(ok, n) == \A i \in Index(n) : ok[i] = 1

\* A slip: a download whose last block came early is never completed.
FileDataOnce(i) ==
  /\ Running /\ curState = 1
  /\ i \in Index(Len(Blocks[sending])) \cap Index(pkSum)
  /\ pkOk[i] = 0
  /\ pkOk' = [pkOk EXCEPT ![i] = 1]
  /\ tmp' = [tmp EXCEPT ![i] = Block(sending, i)]
  /\ mixed' = (mixed \/ sending # dlName)
  /\ IF i = pkSum - 1 /\ AllThere(pkOk', pkSum)
     THEN curState' = 2 /\ proc' = "open"
     ELSE UNCHANGED <<curState, proc>>
  /\ UNCHANGED <<pkSum, dlName, disk, sending, restarts>>

\* A slip: a second message after the last block could complete it again.
FileDataKeepsState(i) ==
  /\ Running /\ curState = 1
  /\ i \in Index(Len(Blocks[sending])) \cap Index(pkSum)
  /\ pkOk' = [pkOk EXCEPT ![i] = 1]
  /\ tmp' = [tmp EXCEPT ![i] = Block(sending, i)]
  /\ mixed' = (mixed \/ sending # dlName)
  /\ IF i = pkSum - 1 /\ AllThere(pkOk', pkSum)
     THEN proc' = "open"
     ELSE UNCHANGED proc
  /\ UNCHANGED <<curState, pkSum, dlName, disk, sending, restarts>>

\* Completeness is tested only when the last block comes in, and the checksum
\* is computed and printed but not compared.
FileData(i) ==
  /\ Running /\ curState = 1
  /\ i \in Index(Len(Blocks[sending])) \cap Index(pkSum)
  /\ pkOk' = [pkOk EXCEPT ![i] = 1]
  /\ tmp' = [tmp EXCEPT ![i] = Block(sending, i)]
  /\ mixed' = (mixed \/ sending # dlName)
  /\ IF i = pkSum - 1 /\ AllThere(pkOk', pkSum)
     THEN curState' = 2 /\ proc' = "open"
     ELSE UNCHANGED <<curState, proc>>
  /\ UNCHANGED <<pkSum, dlName, disk, sending, restarts>>

\* The sequence number is not checked: a block beyond pkSum is stored outside
\* the two buffers, after which nothing is promised.
FileDataOutside ==
  /\ Running /\ curState = 1
  /\ Len(Blocks[sending]) > pkSum
  /\ mixed' = TRUE
  /\ proc' \in {"run", "exited"}
  /\ UNCHANGED <<dlVars, disk, sending, restarts>>

\* fopen with "w+" empties an existing file.
OpenFile ==
  /\ proc = "open"
  /\ disk' = [disk EXCEPT ![dlName] = Empty]
  /\ proc' = "write"
  /\ UNCHANGED <<dlVars, sending, mixed, restarts>>

\* fopen fails: its NULL result is used, which ends the program.
OpenFileFails ==
  /\ proc = "open"
  /\ proc' = "failed"
  /\ UNCHANGED <<dlVars, disk, sending, mixed, restarts>>

\* The first k blocks of g_fileTmp.
Part(k) == [n \in 1 .. k |-> tmp[n - 1]]

\* fwrite and fclose hand over more of the file.
WritePart ==
  /\ proc = "write"
  /\ \E k \in 1 .. pkSum : /\ Len(disk[dlName]) < k
                          /\ disk' = [disk EXCEPT ![dlName] = Part(k)]
  /\ UNCHANGED <<dlVars, proc, sending, mixed, restarts>>

\* A slip: the last block is left out.
WriteFileShort ==
  /\ proc = "write"
  /\ disk' = [disk EXCEPT ![dlName] = Part(pkSum - 1)]
  /\ proc' = "exited"
  /\ UNCHANGED <<dlVars, sending, mixed, restarts>>

\* All of it is there: exit(0).
WriteFile ==
  /\ proc = "write"
  /\ disk' = [disk EXCEPT ![dlName] = Part(pkSum)]
  /\ proc' = "exited"
  /\ UNCHANGED <<dlVars, sending, mixed, restarts>>

\* The disk is full: nobody looks at what fwrite and fclose return, and the
\* program exits as if the file were there.
WriteFails ==
  /\ proc = "write" /\ Len(disk[dlName]) < pkSum
  /\ proc' = "short"
  /\ UNCHANGED <<dlVars, disk, sending, mixed, restarts>>

-----------------------------------------------------------------------------
\* The program is started again after it ended or was killed, at any time.
Restart ==
  /\ restarts < MaxRestarts
  /\ restarts' = restarts + 1
  /\ curState' = 0
  /\ pkSum' = 0
  /\ dlName' = NoFile
  /\ pkOk' = << >>
  /\ tmp' = << >>
  /\ mixed' = FALSE
  /\ proc' = "run"
  /\ UNCHANGED <<disk, sending>>

Init == /\ curState = 0
        /\ pkSum = 0
        /\ dlName = NoFile
        /\ pkOk = << >>
        /\ tmp = << >>
        /\ proc = "run"
        /\ disk = [f \in File |-> Empty]
        /\ sending \in File
        /\ mixed = FALSE
        /\ restarts = 0

Next == \/ \E f \in File : FileStart(f)
        \/ \E f \in File : FileStartNoMemory(f)
        \/ \E f \in File : FileStartIgnored(f)
        \/ \E i \in Index(pkSum) : FileData(i)
        \/ FileDataOutside
        \/ OpenFile
        \/ OpenFileFails
        \/ WritePart
        \/ WriteFile
        \/ WriteFails
        \/ Restart

Spec == Init /\ [][Next]_vars

\* A server that goes on announcing the file and sending each of its blocks.
Fairness == /\ WF_vars(OpenFile) /\ WF_vars(WriteFile)
            /\ \A f \in File : /\ WF_vars(FileStart(f))
                              /\ \A i \in Index(Len(Blocks[f])) :
                                   WF_vars(FileData(i))

FairSpec == Spec /\ Fairness

-----------------------------------------------------------------------------
(***************************************************************************)
(* The flags and the blocks are those of one announced file, and the       *)
(* program writes only what it completed.                                  *)
(***************************************************************************)
TypeOK == /\ curState \in {0, 1, 2}
          /\ pkSum \in Nat
          /\ dlName \in File \cup {NoFile}
          /\ pkOk \in [Index(pkSum) -> {0, 1}]
          /\ tmp \in [Index(pkSum) -> Content \cup {Junk}]
          /\ proc \in {"run", "open", "write", "exited", "short",
                       "failed"}
          /\ disk \in [File -> Seq(Content \cup {Junk})]
          /\ sending \in File
          /\ mixed \in BOOLEAN
          /\ restarts \in 0 .. MaxRestarts
          /\ curState # 0 => dlName \in File /\ pkSum = Len(Blocks[dlName])
          /\ proc \in {"open", "write"} => curState = 2

\* A block whose flag was cleared by memset, or the one that is tested last.
Tracked(i) == i < SizeofPtr \/ i = pkSum - 1

(***************************************************************************)
(* However blocks are lost, repeated and reordered, a download that is     *)
(* declared complete holds every block the flags can tell apart.  Blocks   *)
(* from SizeofPtr on may be missing: memset clears sizeof(pointer) flags.  *)
(***************************************************************************)
CompleteIsComplete ==
  curState = 2 /\ ~mixed =>
    \A i \in Index(pkSum) : Tracked(i) => tmp[i] = Block(dlName, i)

\* The blocks are those of the announced file, and memset cleared their flags.
Clean == ~mixed /\ pkSum <= SizeofPtr

Parts(s) == {SubSeq(s, 1, k) : k \in 0 .. Len(s)}

(***************************************************************************)
(* Whatever the order of the blocks, and wherever the program is killed or *)
(* the disk fills up: what comes into a file of at most SizeofPtr blocks   *)
(* is a beginning of what was announced for it, without a gap and without  *)
(* a block of another file; and where no write fails the program does not  *)
(* exit before all of it is there.                                         *)
(***************************************************************************)
DiskGetsParts ==
  [][Clean =>
       /\ \A f \in File : disk'[f] \in {disk[f]} \cup Parts(Blocks[f])
       /\ proc = "write" /\ proc' = "exited" =>
            disk'[dlName] = Blocks[dlName]]_vars

(***************************************************************************)
(* A server that in the end stays with a file of at most SizeofPtr blocks  *)
(* gets it onto the disk, whatever the order in which the blocks arrive,   *)
(* whatever it sent before, whatever part of the file is there and         *)
(* whenever the device restarts; but not if malloc, fopen or a write       *)
(* failed, or the device has taken up another file.                        *)
(***************************************************************************)
StaysWith(f) == /\ sending = f /\ dlName \in {NoFile, f}
                /\ ~mixed /\ proc \notin {"failed", "short"}

DownloadCompletes ==
  \A f \in File : Len(Blocks[f]) <= SizeofPtr /\ <>[]StaysWith(f)
                    => <>[](disk[f] = Blocks[f])
=============================================================================
