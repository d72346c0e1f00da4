----------------------------- MODULE MCSchedule -----------------------------
(***************************************************************************)
(* Seven rows of devData; the last one is never taken over, so results of *)
(* fewer rows leave out others.  A row that carries two others, of which   *)
(* one has period 0 and one a period of its own; a row reported by itself; *)
(* one whose period is no multiple of ten; rows that belong to none.       *)
(* devCfg has rows of all settings, of all but the two the topics are made *)
(* of, or of those two only.                                               *)
(***************************************************************************)
EXTENDS Schedule

Devices == << [oid |-> 20, period |-> 20, belongs |-> 1],
              [oid |-> 21, period |-> 15, belongs |-> 20],
              [oid |-> 22, period |-> 30, belongs |-> 0],
              [oid |-> 23, period |-> 0,  belongs |-> 20],
              [oid |-> 24, period |-> 7,  belongs |-> 1],
              [oid |-> 25, period |-> 10, belongs |-> 99],
              [oid |-> 26, period |-> 10, belongs |-> 24] >>

MCDevData ==
  [r \in 1 .. 7 |-> [c \in 0 .. 16 |->
     CASE c = 0 -> Devices[r].oid
       [] c = 7 -> Devices[r].period
       [] c = 8 -> IF r = 3 THEN ALM_20 ELSE 1
       [] c = 9 -> Devices[r].belongs
       [] OTHER -> 0]]

MCDevCfgs == {1 .. 5, {1, 4, 5}, {2, 3}}
=============================================================================
