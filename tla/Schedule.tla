------------------------------ MODULE Schedule ------------------------------
(***************************************************************************)
(* Which rows are reported when, and in which report (sample.c), on the    *)
(* table that sqTable_init left, whole or not: data_classification, then   *)
(* in every cycle dataReport_treat, which calls getJson for each row that  *)
(* is due.  How a report then reaches the broker is module Uplink's.       *)
(*                                                                         *)
(* A report is, for each row of the table, how often getJson puts its      *)
(* value into the text.  A cycle is one step: no other thread changes the  *)
(* table or the counter.                                                   *)
(***************************************************************************)
EXTENDS DeviceTable

CONSTANTS UIntWidth,  \* the values of g_reportTimeCnt: 2^32
          SinceBound  \* bound: where the history since stops to count

ASSUME CounterAssumption == UIntWidth \in Nat /\ UIntWidth > 10
\* The columns the schedule reads are among those taken over, and no period is
\* negative.
ASSUME ColumnAssumption == /\ NField > 9
                           /\ \A r \in 1 .. MaxRows : DevData[r][7] >= 0
ASSUME SinceAssumption == SinceBound \in Nat /\ SinceBound * 10 >= UIntWidth

VARIABLES cnt,      \* g_reportTimeCnt
          alarm,    \* the rows in pAlmOidIdx
          sampling, \* sampleDataThread is in its loop
          reports,  \* the reports formed in this cycle, by their row
          since,    \* history: cycles since a row was in a report
          wrapped   \* history: the counter has wrapped

sampleVars == <<cnt, alarm, sampling, reports, since, wrapped>>
scheduleVars == <<vars, sampleVars>>

\* The loops run to g_tabLen, whatever was written.
Row == 1 .. tabLen

\* What the table holds of a row.
Value(k, column) == DevData[tab[k][column][1]][tab[k][column][2]]
Oid(k) == Value(k, 0)
UpSentPeriod(k) == Value(k, 7)
DataOption(k) == Value(k, 8)
BelongToOid(k) == Value(k, 9)

ALM_20 == 20

-----------------------------------------------------------------------------
\* data_classification, once: its array is read by nothing.
DataClassification ==
  /\ Started /\ ~sampling
  /\ sampling' = TRUE
  /\ alarm' = {k \in Row : DataOption(k) = ALM_20}
  /\ since' = [m \in Row |-> 0]
  /\ UNCHANGED <<vars, cnt, reports, wrapped>>

\* A slip: the period only sets how soon the first report comes.
DueLate(k, c) ==
  /\ UpSentPeriod(k) # 0
  /\ c >= UpSentPeriod(k)
  /\ BelongToOid(k) <= 10

Due(k, c) == /\ UpSentPeriod(k) # 0
             /\ c % UpSentPeriod(k) = 0
             /\ BelongToOid(k) <= 10

Times(condition) == IF condition THEN 1 ELSE 0

\* A slip: every row takes the rows that belong to it into its report.
GetJsonAlways(k) ==
  [m \in Row |-> Times(m = k) + Times(/\ UpSentPeriod(m) # 0
                                      /\ BelongToOid(m) = BelongToOid(k))]

\* A slip: the rows that belong to a reported row are left out.
GetJsonAlone(k) == [m \in Row |-> Times(m = k)]

\* getJson: a row of oid 1 carries the rows that belong to it.
GetJson(k) ==
  [m \in Row |-> Times(m = k) + Times(/\ BelongToOid(k) = 1
                                      /\ UpSentPeriod(m) # 0
                                      /\ BelongToOid(m) = Oid(k))]

InReport(m) == \E k \in DOMAIN reports : reports[k][m] > 0

\* One turn of the loop of sampleDataThread.
Cycle ==
  /\ Started /\ sampling
  /\ cnt' = (cnt + 10) % UIntWidth
  /\ reports' = [k \in {n \in Row : Due(n, cnt')} |-> GetJson(k)]
  /\ wrapped' = (wrapped \/ cnt' < cnt)
  /\ since' = [m \in Row |-> CASE InReport(m)' -> 0
                               [] since[m] = SinceBound -> SinceBound
                               [] OTHER -> since[m] + 1]
  /\ UNCHANGED <<vars, alarm, sampling>>

ScheduleInit == /\ Init
                /\ cnt = 0 /\ alarm = {} /\ sampling = FALSE
                /\ reports = << >> /\ since = << >>
                /\ wrapped = FALSE

\* The threads start when sqTable_init is over.
ScheduleNext == \/ Next /\ UNCHANGED sampleVars
                \/ DataClassification
                \/ Cycle

ScheduleSpec == /\ ScheduleInit /\ [][ScheduleNext]_scheduleVars
                /\ WF_scheduleVars(DataClassification)
                /\ WF_scheduleVars(Cycle)

-----------------------------------------------------------------------------
\* The types of the state: reports are of rows of the table, and the histories
\* speak of exactly these rows.
ScheduleTypeOK ==
  /\ TypeOK
  /\ cnt \in 0 .. UIntWidth - 1
  /\ alarm \subseteq Row
  /\ sampling \in BOOLEAN /\ wrapped \in BOOLEAN
  /\ DOMAIN reports \subseteq Row
  /\ \A k \in DOMAIN reports : reports[k] \in [Row -> 0 .. 2]
  /\ since \in [IF sampling THEN Row ELSE {} -> 0 .. SinceBound]
  /\ sampling => Started

\* The rows whose reports carry the value of row m: itself, or the row of oid 1
\* that it belongs to.
Carriers(m) == {k \in Row : /\ UpSentPeriod(k) # 0
                            /\ BelongToOid(k) <= 10
                            /\ \/ k = m
                               \/ /\ BelongToOid(k) = 1
                                  /\ BelongToOid(m) = Oid(k)
                                  /\ UpSentPeriod(m) # 0}

\* The cycles from one multiple of a period to the next, in steps of ten.
Interval(p) == CHOOSE n \in 1 .. p : /\ (10 * n) % p = 0
                                     /\ \A l \in 1 .. n - 1 : (10 * l) % p # 0

\* g_reportTimeCnt and dataReport_treat: until the counter wraps a row is in a
\* report exactly once in the interval of the row that carries it, also when its
\* own period is another; afterwards nothing of the kind holds, because 2^32 is
\* no multiple of the periods.
PunctualUntilWrap ==
  sampling /\ ~wrapped =>
    \A m, k \in Row :
      Carriers(m) = {k} => since[m] = (cnt \div 10) % Interval(UpSentPeriod(k))

\* The oids tell the rows apart, and are none of the small numbers that mark a
\* row as reported by itself.
OidsTellApart == /\ \A k \in Row : Oid(k) > 10
                 /\ \A k, m \in Row : Oid(k) = Oid(m) => k = m

\* dataReport_treat and getJson: in one cycle no value is reported twice, be it
\* in two reports or in one, however rows belong to each other.
NoRowTwice ==
  sampling /\ OidsTellApart =>
    /\ \A k \in DOMAIN reports, m \in Row : reports[k][m] <= 1
    /\ \A k, l \in DOMAIN reports, m \in Row :
         reports[k][m] > 0 /\ reports[l][m] > 0 => k = l

\* sampleDataThread: every row that some row carries is reported again and again,
\* also after the counter has wrapped.
EveryRowReported ==
  \A m \in 1 .. MaxRows :
    (sampling /\ m \in Row /\ Carriers(m) # {}) ~> (m \in Row /\ InReport(m))
=============================================================================
