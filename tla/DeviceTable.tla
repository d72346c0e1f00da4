---------------------------- MODULE DeviceTable ----------------------------
(***************************************************************************)
(* The start of the program: main (monitor.c) calls sqTable_init, which    *)
(* reads the device table and five settings from the database, and then    *)
(* starts the threads, whatever sqTable_init came back with.               *)
(*                                                                         *)
(* pResult is SQLite's flat array of cells, the names of the columns       *)
(* first; a cell is its row and column, and a result without a row has     *)
(* neither names nor cells.  The database is the environment: every query  *)
(* can fail, and devCfg need not have a row of each setting.  A cell is    *)
(* never NULL: the program would end in atoi or strcpy.                    *)
(***************************************************************************)
EXTENDS Integers, Sequences

CONSTANTS MaxRows,  \* a bound on the rows of devData
          NCol,     \* the columns of devData
          NField,   \* the columns sqTable_init takes over: 16
          DevData,  \* the cells of devData, by row and column
          DevCfgs   \* the settings the table devCfg may have rows of

ASSUME SizeAssumption == /\ MaxRows \in Nat \ {0}
                         /\ NField \in Nat \ {0}
                         /\ NCol \in Nat /\ NField <= NCol
ASSUME DevDataAssumption == DevData \in [1 .. MaxRows -> [0 .. NCol - 1 -> Int]]

\* The settings, in the order of their queries.
Setting == <<"mqComVer", "coLtdId", "transRoomId", "mqServer", "clentId">>

ASSUME DevCfgsAssumption == DevCfgs \subseteq SUBSET DOMAIN Setting

VARIABLES step,      \* what sqTable_init does next: a query, the loop, ...
          nRow,      \* the rows of the devData result
          i, nIndex, \* of the loop over the result
          tab,       \* g_devDataTab, the rows written so far
          tabLen,    \* g_tabLen
          setting,   \* what each setting holds
          topics,    \* g_mqTopicReport and g_mqTopicCtrl are built
          devCfg,    \* the settings the table devCfg has a row of
          failed     \* history: a query failed

loopVars == <<nRow, i, nIndex, tab, tabLen>>
cfgVars == <<setting, topics, devCfg, failed>>
vars == <<step, nRow, i, nIndex, tab, tabLen, setting, topics, devCfg, failed>>

Field == 0 .. NField - 1

\* A result of n rows has n + 1 times NCol cells.
Cells(n) == 0 .. (n + 1) * NCol - 1
Cell(k) == <<k \div NCol, k % NCol>>

Init == /\ step = "open"
        /\ nRow = 0 /\ i = 0 /\ nIndex = 0
        /\ tab = << >>
        /\ tabLen = 0
        /\ setting = [k \in DOMAIN Setting |-> "empty"]
        /\ topics = FALSE
        /\ devCfg \in DevCfgs
        /\ failed = FALSE

\* sqlite3_open_v2; without the database the program ends.
OpenDatabase == /\ step = "open"
                /\ step' \in {"devData", "exit"}
                /\ UNCHANGED <<loopVars, cfgVars>>

\* "select * from devData"; a failure leaves sqTable_init at once.
QueryDevData ==
  /\ step = "devData"
  /\ \/ /\ step' = "threads"
        /\ failed' = TRUE
        /\ UNCHANGED loopVars
     \/ /\ step' = "rows"
        /\ nRow' \in 0 .. MaxRows
        /\ nIndex' = NCol
        /\ i' = 0
        /\ tabLen' = nRow' - 1
        /\ UNCHANGED <<tab, failed>>
  /\ UNCHANGED <<setting, topics, devCfg>>

\* malloc of g_devDataTab fails: exit(EXIT_FAILURE).
NoMemory == /\ step = "rows" /\ i = 0
            /\ step' = "exit"
            /\ UNCHANGED <<loopVars, cfgVars>>

\* A slip: the index moves by the columns taken over, not by all columns.
CopyRowShort ==
  /\ step = "rows" /\ i < nRow - 1
  /\ tab' = Append(tab, [f \in Field |-> Cell(nIndex + f)])
  /\ nIndex' = nIndex + NField
  /\ i' = i + 1
  /\ UNCHANGED <<step, nRow, tabLen, cfgVars>>

\* A slip: as many rows as there are lines in the result.
CopyRowTooMany ==
  /\ step = "rows" /\ i < nRow + 1
  /\ tab' = Append(tab, [f \in Field |-> Cell(nIndex + f)])
  /\ nIndex' = nIndex + NCol
  /\ i' = i + 1
  /\ UNCHANGED <<step, nRow, tabLen, cfgVars>>

\* One row of the result into one row of the table.
CopyRow ==
  /\ step = "rows" /\ i < nRow - 1
  /\ tab' = Append(tab, [f \in Field |-> Cell(nIndex + f)])
  /\ nIndex' = nIndex + NCol
  /\ i' = i + 1
  /\ UNCHANGED <<step, nRow, tabLen, cfgVars>>

\* A slip: the loop ends one row early.
RowsEndEarly == /\ step = "rows" /\ i >= nRow - 2
                /\ step' = Setting[1]
                /\ UNCHANGED <<loopVars, cfgVars>>

RowsEnd == /\ step = "rows" /\ i >= nRow - 1
           /\ step' = Setting[1]
           /\ UNCHANGED <<loopVars, cfgVars>>

\* What the query of setting k leaves: without a row pResult[nCol] lies behind
\* the end of the result, and what is read there is used.
Content(k) == IF k \in devCfg THEN "value" ELSE "outside"

AfterSetting(k) == IF k < Len(Setting) THEN Setting[k + 1] ELSE "topics"

\* A slip: a failed query goes on with the next one.
QuerySettingGoOn(k) ==
  /\ step = Setting[k]
  /\ step' = AfterSetting(k)
  /\ \/ failed' = TRUE /\ UNCHANGED setting
     \/ setting' = [setting EXCEPT ![k] = Content(k)] /\ UNCHANGED failed
  /\ UNCHANGED <<loopVars, topics, devCfg>>

\* One setting; a failure goes to the end.
QuerySetting(k) ==
  /\ step = Setting[k]
  /\ \/ /\ step' = "threads"
        /\ failed' = TRUE
        /\ UNCHANGED setting
     \/ /\ step' = AfterSetting(k)
        /\ setting' = [setting EXCEPT ![k] = Content(k)]
        /\ UNCHANGED failed
  /\ UNCHANGED <<loopVars, topics, devCfg>>

\* The identifiers and topics are put together from the settings.
BuildTopics == /\ step = "topics"
               /\ topics' = TRUE
               /\ step' = "threads"
               /\ UNCHANGED <<loopVars, setting, devCfg, failed>>

Next == \/ OpenDatabase \/ QueryDevData \/ NoMemory \/ CopyRow \/ RowsEnd
        \/ \E k \in DOMAIN Setting : QuerySetting(k)
        \/ BuildTopics

Spec == Init /\ [][Next]_vars

-----------------------------------------------------------------------------
\* The threads run on these.
Started == step = "threads"

\* The types of the state; the table has no row beyond g_tabLen.
TypeOK ==
  /\ step \in {"open", "devData", "rows", "topics", "threads", "exit"}
                \cup {Setting[k] : k \in DOMAIN Setting}
  /\ nRow \in 0 .. MaxRows /\ i \in 0 .. MaxRows /\ nIndex \in Nat
  /\ tab \in Seq([Field -> Int \X Int])
  /\ tabLen \in -1 .. MaxRows - 1
  /\ setting \in [DOMAIN Setting -> {"empty", "value", "outside"}]
  /\ topics \in BOOLEAN /\ failed \in BOOLEAN
  /\ devCfg \subseteq DOMAIN Setting
  /\ Len(tab) = i /\ i <= IF tabLen > 0 THEN tabLen ELSE 0

\* sqTable_init: row k of the table holds the cells of row k of devData, column
\* by column, and the next row to be read lies inside the result.
RowsInPlace ==
  /\ \A k \in DOMAIN tab : tab[k] = [f \in Field |-> <<k, f>>]
  /\ step = "rows" /\ i < nRow - 1 =>
       \A f \in Field : nIndex + f \in Cells(nRow)

\* The other threads loop over g_tabLen rows and read each of them: when they
\* start, as many rows have been written.
TableIsWritten == Started => Len(tab) = IF tabLen > 0 THEN tabLen ELSE 0

\* The threads start whatever sqTable_init came back with, and mqttPubThread
\* connects to, subscribes to and publishes on what the settings tell it.  They
\* start with the topics if and only if no query failed, and with the settings of
\* the database if and only if, besides, devCfg has a row of each.  If it has not,
\* a setting is what lies behind a result, and so may the topics be.
SettingsComplete ==
  Started =>
    /\ topics <=> ~failed
    /\ (\A k \in DOMAIN Setting : setting[k] = "value")
         <=> topics /\ devCfg = DOMAIN Setting

\* sqlite3.h:2405 says of a result of N rows and M columns "There are (N+1)*M
\* elements in the array.  The first M pointers point to zero-terminated strings
\* that contain the names of the columns": N does not count the line of names,
\* so when the threads start the table has every row of devData.
EveryRowLoaded == Started /\ nRow > 0 => tabLen = nRow
=============================================================================
