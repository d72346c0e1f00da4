--------------------------- MODULE ScheduleProofs ---------------------------
(***************************************************************************)
(* Proofs about the device table and the schedule of the reports, for any  *)
(* table, any width of the counter and whichever query fails.              *)
(***************************************************************************)
EXTENDS Schedule, WellFoundedInduction, TLAPS

\* Quotient and remainder are unique.
LEMMA DivMod ==
  ASSUME NEW p \in Nat \ {0}, NEW n \in Int, NEW f \in 0 .. p - 1
  PROVE  (p * n + f) \div p = n /\ (p * n + f) % p = f
<1> DEFINE x == p * n + f
           q == x \div p
           r == x % p
<1>1. /\ p * n \in Int /\ x \in Int
      /\ q \in Int /\ r \in 0 .. p - 1
      /\ x = p * q + r
  OBVIOUS
<1> HIDE DEF q, r
<1>2. p * n + f = p * q + r
  BY <1>1
<1>3. q = n
  <2>1. CASE q >= n + 1
    <3>1. p * q >= p * n + p
      BY <1>1, <2>1
    <3> QED BY <1>1, <1>2, <3>1
  <2>2. CASE q <= n - 1
    <3>1. p * q <= p * n - p
      BY <1>1, <2>2
    <3> QED BY <1>1, <1>2, <3>1
  <2> QED BY <1>1, <2>1, <2>2
<1>4. r = f
  BY <1>1, <1>2, <1>3
<1> QED BY <1>3, <1>4 DEF q, r, x

LEMMA Multiple ==
  ASSUME NEW p \in Nat \ {0}, NEW c \in Int
  PROVE  (p * c) % p = 0
<1>1. (p * c + 0) % p = 0
  BY DivMod
<1> QED BY <1>1

\* A cell of row n of the flat result is found in row n.
LEMMA CellOfRow ==
  ASSUME NEW n \in Nat, NEW f \in 0 .. NCol - 1
  PROVE  Cell(NCol * n + f) = <<n, f>>
BY SizeAssumption, DivMod DEF Cell

-----------------------------------------------------------------------------
\* The rows that were written, and where the loop is.
Written == \A k \in DOMAIN tab : tab[k] = [f \in Field |-> <<k, f>>]

TableInv ==
  /\ TypeOK
  /\ Written
  /\ step \in {"open", "devData"} => i = 0 /\ tabLen = 0
  /\ step = "rows" => /\ nIndex = NCol * (i + 1)
                      /\ tabLen = nRow - 1
  /\ step \notin {"open", "devData", "rows", "exit"} =>
       Len(tab) = IF tabLen > 0 THEN tabLen ELSE 0

LEMMA TableInit == Init => TableInv
<1> SUFFICES ASSUME Init PROVE TableInv
  OBVIOUS
<1>1. tab \in Seq([Field -> Int \X Int]) /\ Len(tab) = 0 /\ DOMAIN tab = {}
  BY DEF Init
<1>2. setting \in [DOMAIN Setting -> {"empty", "value", "outside"}]
  BY DEF Init
<1>3. TypeOK
  <2>1. /\ step = "open" /\ nRow = 0 /\ i = 0 /\ nIndex = 0 /\ tabLen = 0
        /\ topics \in BOOLEAN /\ failed \in BOOLEAN
        /\ devCfg \subseteq DOMAIN Setting
    BY DevCfgsAssumption DEF Init
  <2>2. 0 \in 0 .. MaxRows /\ 0 \in -1 .. MaxRows - 1
    BY SizeAssumption
  <2> QED BY <1>1, <1>2, <2>1, <2>2 DEF TypeOK
<1>4. Written
  BY <1>1 DEF Written
<1> QED BY <1>3, <1>4 DEF Init, TableInv

LEMMA CopyRowKeeps ==
  ASSUME TableInv, CopyRow
  PROVE  TableInv'
<1> DEFINE new == [f \in Field |-> Cell(nIndex + f)]
<1>1. /\ step = "rows" /\ step' = "rows" /\ i < nRow - 1
      /\ tab' = Append(tab, new) /\ nIndex' = nIndex + NCol /\ i' = i + 1
      /\ nRow' = nRow /\ tabLen' = tabLen /\ UNCHANGED cfgVars
  BY DEF CopyRow
<1>2. /\ tab \in Seq([Field -> Int \X Int]) /\ Len(tab) = i
      /\ i \in Nat /\ nRow \in 0 .. MaxRows /\ nIndex = NCol * (i + 1)
      /\ tabLen = nRow - 1 /\ MaxRows \in Nat /\ NCol \in Nat
  BY <1>1, SizeAssumption DEF TableInv, TypeOK
<1>3. Field \subseteq 0 .. NCol - 1
  BY SizeAssumption DEF Field
<1>4. new = [f \in Field |-> <<i + 1, f>>]
  <2>1. ASSUME NEW f \in Field
        PROVE  Cell(nIndex + f) = <<i + 1, f>>
    <3>1. i + 1 \in Nat /\ f \in 0 .. NCol - 1
      BY <1>2, <1>3
    <3> QED BY <3>1, <1>2, CellOfRow
  <2> QED BY <2>1
<1>5. new \in [Field -> Int \X Int]
  <2>1. ASSUME NEW f \in Field
        PROVE  <<i + 1, f>> \in Int \X Int
    BY <1>2, <1>3
  <2> QED BY <1>4, <2>1
<1> HIDE DEF new
<1>6. /\ tab' \in Seq([Field -> Int \X Int]) /\ Len(tab') = i + 1
      /\ \A k \in 1 .. i : tab'[k] = tab[k]
      /\ tab'[i + 1] = new
  BY <1>1, <1>2, <1>5
<1>7. Written'
  <2> SUFFICES ASSUME NEW k \in DOMAIN tab'
               PROVE  tab'[k] = [f \in Field |-> <<k, f>>]
    BY DEF Written, Field
  <2>1. k \in 1 .. i + 1
    BY <1>6, <1>2
  <2>2. CASE k = i + 1
    BY <2>2, <1>4, <1>6
  <2>3. CASE k \in 1 .. i
    BY <2>3, <1>2, <1>6 DEF TableInv, Written
  <2> QED BY <2>1, <2>2, <2>3, <1>2
<1>8. nIndex' = NCol * (i' + 1) /\ nIndex' \in Nat
  BY <1>1, <1>2
<1>9. TypeOK'
  <2>1. /\ i' \in 0 .. MaxRows
        /\ i' <= IF tabLen' > 0 THEN tabLen' ELSE 0
        /\ Len(tab') = i'
    BY <1>1, <1>2, <1>6
  <2>2. /\ nRow' \in 0 .. MaxRows /\ tabLen' \in -1 .. MaxRows - 1
        /\ setting' \in [DOMAIN Setting -> {"empty", "value", "outside"}]
        /\ topics' \in BOOLEAN /\ failed' \in BOOLEAN
        /\ devCfg' \subseteq DOMAIN Setting
    BY <1>1 DEF TableInv, TypeOK, cfgVars
  <2> QED BY <1>1, <1>6, <1>8, <2>1, <2>2 DEF TypeOK, Field
<1> QED BY <1>1, <1>2, <1>6, <1>7, <1>8, <1>9 DEF TableInv

\* The steps that leave the table and the loop alone.
LEMMA TableUntouched ==
  ASSUME TableInv, UNCHANGED loopVars,
         step' \notin {"open", "rows"}, step' = "devData" => step = "open",
         step \in {"open", "devData"} => step' \in {"devData", "threads", "exit"},
         step = "rows" => i >= nRow - 1 \/ step' = "exit",
         step = "exit" => step' = "exit",
         step' \in {"devData", "topics", "threads", "exit"} \cup {Setting[k] : k \in DOMAIN Setting},
         setting' \in [DOMAIN Setting -> {"empty", "value", "outside"}],
         topics' \in BOOLEAN, failed' \in BOOLEAN, devCfg' \subseteq DOMAIN Setting
  PROVE  TableInv'
<1>1. /\ nRow' = nRow /\ i' = i /\ nIndex' = nIndex /\ tab' = tab /\ tabLen' = tabLen
  BY DEF loopVars
<1>2. TypeOK'
  BY <1>1 DEF TableInv, TypeOK, Field
<1>3. Written'
  BY <1>1 DEF TableInv, Written, Field
<1>4. step' \in {"open", "devData"} => i' = 0 /\ tabLen' = 0
  BY <1>1 DEF TableInv
<1>5. /\ Len(tab) = i /\ i \in Int /\ nRow \in Int /\ tabLen \in Int
      /\ i <= IF tabLen > 0 THEN tabLen ELSE 0
      /\ i >= 0
  BY SizeAssumption DEF TableInv, TypeOK
<1>6. step' \notin {"open", "devData", "rows", "exit"} =>
        Len(tab') = IF tabLen' > 0 THEN tabLen' ELSE 0
  <2> SUFFICES ASSUME step' \notin {"open", "devData", "rows", "exit"}
               PROVE  Len(tab) = IF tabLen > 0 THEN tabLen ELSE 0
    BY <1>1
  <2>1. CASE step \in {"open", "devData"}
    BY <2>1, <1>5 DEF TableInv
  <2>2. CASE step = "rows"
    BY <2>2, <1>5 DEF TableInv
  <2>3. CASE step \notin {"open", "devData", "rows"}
    BY <2>3 DEF TableInv
  <2> QED BY <2>1, <2>2, <2>3
<1> QED BY <1>2, <1>3, <1>4, <1>6 DEF TableInv

LEMMA SettingNames ==
  /\ DOMAIN Setting = 1 .. 5 /\ Len(Setting) = 5
  /\ \A k \in DOMAIN Setting :
       Setting[k] \notin {"open", "devData", "rows", "topics", "threads", "exit"}
  /\ \A k, l \in DOMAIN Setting : Setting[k] = Setting[l] => k = l
<1>1. DOMAIN Setting = 1 .. 5 /\ Len(Setting) = 5
  BY DEF Setting
<1>2. \A k \in 1 .. 5 : k = 1 \/ k = 2 \/ k = 3 \/ k = 4 \/ k = 5
  BY SMT
<1>3. /\ Setting[1] = "mqComVer" /\ Setting[2] = "coLtdId"
      /\ Setting[3] = "transRoomId" /\ Setting[4] = "mqServer"
      /\ Setting[5] = "clentId"
  BY DEF Setting
<1>4. \A k \in 1 .. 5 :
        Setting[k] \notin {"open", "devData", "rows", "topics", "threads", "exit"}
  BY <1>2, <1>3
<1>5. \A k, l \in 1 .. 5 : Setting[k] = Setting[l] => k = l
  BY <1>2, <1>3
<1> QED BY <1>1, <1>4, <1>5

LEMMA TableNext == TableInv /\ [Next]_vars => TableInv'
<1> SUFFICES ASSUME TableInv, [Next]_vars PROVE TableInv'
  OBVIOUS
<1>t. /\ setting \in [DOMAIN Setting -> {"empty", "value", "outside"}]
      /\ topics \in BOOLEAN /\ failed \in BOOLEAN
      /\ devCfg \subseteq DOMAIN Setting
  BY DEF TableInv, TypeOK
<1>1. CASE OpenDatabase
  BY <1>1, <1>t, TableUntouched DEF OpenDatabase, cfgVars
<1>2. CASE QueryDevData
  <2>1. CASE step' = "threads"
    BY <1>2, <2>1, <1>t, TableUntouched DEF QueryDevData
  <2>2. CASE step' = "rows"
    <3>1. /\ step = "devData" /\ nRow' \in 0 .. MaxRows /\ nIndex' = NCol /\ i' = 0
          /\ tabLen' = nRow' - 1 /\ tab' = tab
          /\ setting' = setting /\ topics' = topics
          /\ devCfg' = devCfg /\ failed' = failed
      BY <1>2, <2>2 DEF QueryDevData, loopVars
    <3>2. Len(tab) = 0 /\ tab \in Seq([Field -> Int \X Int])
      BY <3>1 DEF TableInv, TypeOK
    <3>3. /\ tabLen' \in -1 .. MaxRows - 1 /\ i' \in 0 .. MaxRows /\ nIndex' \in Nat
          /\ 0 <= IF tabLen' > 0 THEN tabLen' ELSE 0
      <4>1. \A n \in 0 .. MaxRows :
              n - 1 \in -1 .. MaxRows - 1 /\ 0 <= IF n - 1 > 0 THEN n - 1 ELSE 0
        BY SizeAssumption
      <4>2. i' \in 0 .. MaxRows /\ nIndex' \in Nat
        BY <3>1, SizeAssumption
      <4> QED BY <3>1, <4>1, <4>2
    <3>6. nIndex' = NCol * (i' + 1)
      <4>1. i' + 1 = 1 /\ NCol * 1 = NCol
        BY <3>1, SizeAssumption
      <4> QED BY <3>1, <4>1
    <3>4. TypeOK'
      BY <2>2, <3>1, <3>2, <3>3, <1>t DEF TypeOK, Field
    <3>5. Written'
      BY <3>1 DEF TableInv, Written, Field
    <3> QED BY <2>2, <3>1, <3>4, <3>5, <3>6 DEF TableInv
  <2> QED BY <1>2, <2>1, <2>2 DEF QueryDevData
<1>3. CASE NoMemory
  BY <1>3, <1>t, TableUntouched DEF NoMemory, cfgVars
<1>4. CASE CopyRow
  BY <1>4, CopyRowKeeps
<1>5. CASE RowsEnd
  <2>1. 1 \in DOMAIN Setting
    BY SettingNames
  <2>2. Setting[1] \notin {"open", "rows", "devData"}
    BY <2>1, SettingNames
  <2> QED BY <1>5, <1>t, <2>1, <2>2, TableUntouched DEF RowsEnd, cfgVars
<1>6. ASSUME NEW k \in DOMAIN Setting, QuerySetting(k)
      PROVE  TableInv'
  <2>1. /\ step \notin {"open", "devData", "rows", "exit"}
        /\ step' \in {"topics", "threads"} \cup {Setting[l] : l \in DOMAIN Setting}
        /\ step' \notin {"open", "rows", "devData"}
    <3>1. k < Len(Setting) => k + 1 \in DOMAIN Setting
      BY SettingNames
    <3> QED BY <1>6, <3>1, SettingNames DEF QuerySetting, AfterSetting
  <2>2. /\ setting' \in [DOMAIN Setting -> {"empty", "value", "outside"}]
        /\ topics' \in BOOLEAN /\ failed' \in BOOLEAN
        /\ devCfg' \subseteq DOMAIN Setting
    BY <1>6, <1>t DEF QuerySetting, Content
  <2>3. UNCHANGED loopVars
    BY <1>6 DEF QuerySetting
  <2> QED BY <2>1, <2>2, <2>3, TableUntouched
<1>7. CASE BuildTopics
  BY <1>7, <1>t, TableUntouched DEF BuildTopics
<1>8. CASE UNCHANGED vars
  BY <1>8 DEF vars, TableInv, TypeOK, Written, Field
<1> QED BY <1>1, <1>2, <1>3, <1>4, <1>5, <1>6, <1>7, <1>8 DEF Next
-----------------------------------------------------------------------------
\* A step of the schedule is a step of sqTable_init or leaves its state alone.
LEMMA ScheduleStep == [ScheduleNext]_scheduleVars => [Next]_vars
BY DEF ScheduleNext, scheduleVars, DataClassification, Cycle

\* When sqTable_init is over it does nothing any more.
LEMMA StartedStops == Started /\ [Next]_vars => UNCHANGED vars
<1> SUFFICES ASSUME step = "threads", Next PROVE FALSE
  BY DEF Started
<1>1. ASSUME NEW k \in DOMAIN Setting, QuerySetting(k) PROVE FALSE
  BY <1>1, SettingNames DEF QuerySetting
<1> QED BY <1>1 DEF Next, OpenDatabase, QueryDevData, NoMemory, CopyRow, RowsEnd,
                    BuildTopics

LEMMA TableInvariant == ScheduleSpec => []TableInv
<1>1. ScheduleInit => TableInv
  BY TableInit DEF ScheduleInit
<1>2. TableInv /\ [ScheduleNext]_scheduleVars => TableInv'
  BY TableNext, ScheduleStep
<1> QED BY <1>1, <1>2, PTL DEF ScheduleSpec

\* sqTable_init: every cell is read inside the result and lands in its row and
\* column, whatever the number of rows and columns.
THEOREM RowsStayInPlace == ScheduleSpec => []RowsInPlace
<1>1. TableInv => RowsInPlace
  <2> SUFFICES ASSUME TableInv PROVE RowsInPlace
    OBVIOUS
  <2>1. ASSUME step = "rows", i < nRow - 1, NEW f \in Field
        PROVE  nIndex + f \in Cells(nRow)
    <3>1. /\ i \in Nat /\ nRow \in Nat /\ NCol \in Nat
          /\ f \in 0 .. NCol - 1 /\ nIndex = NCol * (i + 1)
      BY <2>1, SizeAssumption DEF TableInv, TypeOK, Field
    <3>2. NCol * (i + 1) + NCol <= (nRow + 1) * NCol
      <4>1. i + 2 <= nRow + 1
        BY <2>1, <3>1
      <4>2. NCol * (i + 2) <= NCol * (nRow + 1)
        BY <4>1, <3>1
      <4>3. NCol * (i + 2) = NCol * (i + 1) + NCol /\ NCol * (nRow + 1) = (nRow + 1) * NCol
        BY <3>1
      <4> QED BY <4>2, <4>3, <3>1
    <3>3. NCol * (i + 1) \in Nat /\ (nRow + 1) * NCol \in Nat
      BY <3>1
    <3> QED BY <3>1, <3>2, <3>3 DEF Cells
  <2> QED BY <2>1 DEF RowsInPlace, TableInv, Written
<1> QED BY <1>1, TableInvariant, PTL

\* The rows the threads loop over have all been written when they start, also
\* when a query failed.
THEOREM TableWritten == ScheduleSpec => []TableIsWritten
<1>1. TableInv => TableIsWritten
  BY DEF TableInv, TableIsWritten, Started
<1> QED BY <1>1, TableInvariant, PTL

-----------------------------------------------------------------------------
\* Where sqTable_init is among the settings tells what they hold: as far as the
\* queries have come, what the database holds of them.
Queried(n) ==
  \A l \in DOMAIN Setting : setting[l] = IF l < n THEN Content(l) ELSE "empty"

SettingsInv ==
  /\ setting \in [DOMAIN Setting -> {"empty", "value", "outside"}]
  /\ devCfg \subseteq DOMAIN Setting
  /\ step \in {"open", "devData", "rows"} => ~failed /\ ~topics /\ Queried(1)
  /\ \A k \in DOMAIN Setting :
       step = Setting[k] => ~failed /\ ~topics /\ Queried(k)
  /\ step = "topics" => ~failed /\ ~topics /\ Queried(Len(Setting) + 1)
  /\ step = "threads" =>
       /\ topics => ~failed /\ Queried(Len(Setting) + 1)
       /\ ~topics => failed /\ \E l \in DOMAIN Setting : setting[l] = "empty"

LEMMA SettingsInit == Init => SettingsInv
<1> SUFFICES ASSUME Init PROVE SettingsInv
  OBVIOUS
<1>1. /\ setting \in [DOMAIN Setting -> {"empty", "value", "outside"}]
      /\ \A l \in DOMAIN Setting : setting[l] = "empty"
      /\ step = "open" /\ topics = FALSE /\ failed = FALSE
      /\ devCfg \subseteq DOMAIN Setting
  BY DevCfgsAssumption DEF Init
<1>2. \A k \in DOMAIN Setting : step # Setting[k]
  BY <1>1, SettingNames
<1>3. Queried(1)
  BY <1>1, SettingNames DEF Queried
<1> QED BY <1>1, <1>2, <1>3 DEF SettingsInv

LEMMA SettingsNext == SettingsInv /\ [Next]_vars => SettingsInv'
<1> SUFFICES ASSUME SettingsInv, [Next]_vars PROVE SettingsInv'
  OBVIOUS
<1>n. \A k \in DOMAIN Setting :
        Setting[k] \notin {"open", "devData", "rows", "topics", "threads", "exit"}
  BY SettingNames
<1>d. DOMAIN Setting = 1 .. 5 /\ Len(Setting) = 5
  BY SettingNames
<1>t. /\ setting \in [DOMAIN Setting -> {"empty", "value", "outside"}]
      /\ devCfg \subseteq DOMAIN Setting
  BY DEF SettingsInv
<1>q. ASSUME UNCHANGED <<setting, devCfg>>, NEW n \in Nat, Queried(n)
      PROVE  Queried(n)'
  BY <1>q DEF Queried, Content
<1>1. ASSUME UNCHANGED cfgVars,
             step' \in {"rows", "devData"} => step \in {"open", "devData", "rows"},
             step' \in {"rows", "devData", "exit"}
      PROVE  SettingsInv'
  BY <1>1, <1>n DEF SettingsInv, Queried, Content, cfgVars
<1>2. CASE OpenDatabase
  BY <1>1, <1>2 DEF OpenDatabase
<1>3. CASE QueryDevData
  <2>1. /\ step = "devData" /\ step' \in {"threads", "rows"}
        /\ step' = "threads" => failed'
        /\ step' = "rows" => failed' = failed
        /\ setting' = setting /\ topics' = topics /\ devCfg' = devCfg
    BY <1>3 DEF QueryDevData
  <2>2. ~topics /\ Queried(1)
    BY <2>1 DEF SettingsInv
  <2>3. CASE step' = "threads"
    <3>1. 1 \in DOMAIN Setting /\ setting'[1] = "empty"
      BY <1>d, <2>1, <2>2 DEF Queried
    <3> QED BY <1>n, <1>t, <2>1, <2>2, <2>3, <3>1 DEF SettingsInv
  <2>4. CASE step' = "rows"
    <3>1. UNCHANGED cfgVars
      BY <2>1, <2>4 DEF cfgVars
    <3> QED BY <1>1, <2>1, <2>4, <3>1
  <2> QED BY <2>1, <2>3, <2>4
<1>4. CASE NoMemory
  BY <1>1, <1>4 DEF NoMemory
<1>5. CASE CopyRow
  BY <1>1, <1>5 DEF CopyRow
<1>6. CASE RowsEnd
  <2>1. /\ step = "rows" /\ step' = Setting[1] /\ 1 \in DOMAIN Setting
        /\ UNCHANGED <<setting, topics, devCfg, failed>>
    BY <1>6, <1>d DEF RowsEnd, cfgVars
  <2>2. ~failed' /\ ~topics' /\ Queried(1)'
    BY <1>q, <2>1 DEF SettingsInv
  <2>3. \A k \in DOMAIN Setting : step' = Setting[k] => k = 1
    BY <2>1, SettingNames
  <2>4. step' \notin {"open", "devData", "rows", "topics", "threads", "exit"}
    BY <1>n, <2>1
  <2> QED BY <1>t, <2>1, <2>2, <2>3, <2>4 DEF SettingsInv
<1>7. ASSUME NEW k \in DOMAIN Setting, QuerySetting(k)
      PROVE  SettingsInv'
  <2>1. /\ k \in 1 .. 5 /\ step = Setting[k] /\ topics' = topics /\ devCfg' = devCfg
        /\ ~failed /\ ~topics /\ Queried(k)
    BY <1>7, <1>d DEF SettingsInv, QuerySetting
  <2>2. CASE step' = "threads" /\ failed' = TRUE /\ UNCHANGED setting
    <3>1. setting'[k] = "empty"
      BY <2>1, <2>2 DEF Queried
    <3> QED BY <1>n, <1>t, <2>1, <2>2, <3>1 DEF SettingsInv
  <2>3. CASE /\ step' = AfterSetting(k) /\ UNCHANGED failed
             /\ setting' = [setting EXCEPT ![k] = Content(k)]
    <3>1. /\ setting' \in [DOMAIN Setting -> {"empty", "value", "outside"}]
          /\ devCfg' \subseteq DOMAIN Setting
      BY <1>t, <2>1, <2>3 DEF Content
    <3>2. Queried(k + 1)'
      <4> SUFFICES ASSUME NEW l \in 1 .. 5
                   PROVE  setting'[l] = IF l < k + 1 THEN Content(l)' ELSE "empty"
        BY <1>d DEF Queried
      <4>1. Content(l)' = Content(l)
        BY <2>1 DEF Content
      <4>2. CASE l = k
        BY <1>d, <1>t, <2>1, <2>3, <4>1, <4>2
      <4>3. CASE l # k
        <5>1. setting'[l] = setting[l]
          BY <1>d, <1>t, <2>3, <4>3
        <5>2. l < k + 1 <=> l < k
          BY <2>1, <4>3
        <5> QED BY <1>d, <2>1, <4>1, <5>1, <5>2 DEF Queried
      <4> QED BY <4>2, <4>3
    <3>3. ~failed' /\ ~topics'
      BY <2>1, <2>3
    <3>4. CASE k < 5
      <4>1. step' = Setting[k + 1] /\ k + 1 \in DOMAIN Setting
        BY <1>d, <2>1, <2>3, <3>4 DEF AfterSetting
      <4>2. \A l \in DOMAIN Setting : step' = Setting[l] => l = k + 1
        BY <4>1, SettingNames
      <4>3. step' \notin {"open", "devData", "rows", "topics", "threads", "exit"}
        BY <1>n, <4>1
      <4> QED BY <3>1, <3>2, <3>3, <4>2, <4>3 DEF SettingsInv
    <3>5. CASE k = 5
      <4>1. step' = "topics"
        BY <1>d, <2>3, <3>5 DEF AfterSetting
      <4>2. Queried(Len(Setting) + 1)'
        BY <1>d, <3>2, <3>5
      <4> QED BY <1>n, <3>1, <3>3, <4>1, <4>2 DEF SettingsInv
    <3> QED BY <2>1, <3>4, <3>5
  <2> QED BY <1>7, <2>2, <2>3 DEF QuerySetting
<1>8. CASE BuildTopics
  <2>1. /\ step = "topics" /\ step' = "threads" /\ topics' = TRUE
        /\ UNCHANGED <<setting, devCfg, failed>>
    BY <1>8 DEF BuildTopics
  <2>2. ~failed' /\ Queried(Len(Setting) + 1)'
    BY <1>d, <1>q, <2>1 DEF SettingsInv
  <2> QED BY <1>n, <1>t, <2>1, <2>2 DEF SettingsInv
<1>9. CASE UNCHANGED vars
  BY <1>9 DEF vars, SettingsInv, Queried, Content
<1> QED BY <1>2, <1>3, <1>4, <1>5, <1>6, <1>7, <1>8, <1>9 DEF Next

\* The threads start with the topics exactly when no query failed, and with all
\* settings of the database exactly when, besides, none was missing from it,
\* whatever devCfg holds and whichever query fails (sqTable_init).
THEOREM StartTellsSettings == ScheduleSpec => []SettingsComplete
<1>1. ScheduleInit => SettingsInv
  BY SettingsInit DEF ScheduleInit
<1>2. SettingsInv /\ [ScheduleNext]_scheduleVars => SettingsInv'
  BY SettingsNext, ScheduleStep
<1>3. SettingsInv => SettingsComplete
  <2> SUFFICES ASSUME SettingsInv, step = "threads" PROVE SettingsComplete
    BY DEF SettingsComplete, Started
  <2>1. CASE topics
    <3>1. ~failed /\ \A l \in DOMAIN Setting : setting[l] = Content(l)
      BY <2>1, SettingNames DEF SettingsInv, Queried
    <3>2. (\A l \in DOMAIN Setting : setting[l] = "value") <=> devCfg = DOMAIN Setting
      BY <3>1 DEF SettingsInv, Content
    <3> QED BY <2>1, <3>1, <3>2 DEF SettingsComplete
  <2>2. CASE ~topics
    BY <2>2 DEF SettingsInv, SettingsComplete
  <2> QED BY <2>1, <2>2
<1> QED BY <1>1, <1>2, <1>3, PTL DEF ScheduleSpec

-----------------------------------------------------------------------------
\* The rows the schedule loops over hold the numbers of devData.
LEMMA RowCells ==
  ASSUME TableInv, Started
  PROVE  /\ Row \subseteq 1 .. MaxRows
         /\ \A k \in Row : /\ Oid(k) \in Int
                          /\ UpSentPeriod(k) \in Nat
                          /\ BelongToOid(k) \in Int
<1>1. /\ tabLen \in -1 .. MaxRows - 1 /\ MaxRows \in Nat
      /\ Len(tab) = IF tabLen > 0 THEN tabLen ELSE 0
      /\ tab \in Seq([Field -> Int \X Int])
  BY SizeAssumption DEF TableInv, TypeOK, Started
<1>2. Row \subseteq 1 .. MaxRows /\ Row \subseteq DOMAIN tab
  BY <1>1 DEF Row
<1>3. {0, 7, 9} \subseteq Field /\ Field \subseteq 0 .. NCol - 1
  BY SizeAssumption, ColumnAssumption DEF Field
<1>4. ASSUME NEW k \in Row, NEW c \in Field
      PROVE  Value(k, c) = DevData[k][c] /\ DevData[k][c] \in Int
  <2>1. tab[k] = [f \in Field |-> <<k, f>>]
    BY <1>2 DEF TableInv, Written
  <2>2. tab[k][c] = <<k, c>>
    BY <2>1
  <2>3. DevData[k] \in [0 .. NCol - 1 -> Int] /\ c \in 0 .. NCol - 1
    BY <1>2, <1>3, DevDataAssumption
  <2>4. tab[k][c][1] = k /\ tab[k][c][2] = c
    BY <2>2
  <2>5. Value(k, c) = DevData[k][c]
    BY <2>4 DEF Value
  <2> QED BY <2>3, <2>5
<1>5. ASSUME NEW k \in Row
      PROVE  /\ Oid(k) \in Int /\ UpSentPeriod(k) \in Nat /\ BelongToOid(k) \in Int
  <2>1. DevData[k][7] >= 0
    BY <1>2, ColumnAssumption
  <2>2. UpSentPeriod(k) = DevData[k][7] /\ DevData[k][7] \in Int
    BY <1>3, <1>4 DEF UpSentPeriod
  <2>3. Oid(k) \in Int /\ BelongToOid(k) \in Int
    BY <1>3, <1>4 DEF Oid, BelongToOid
  <2> QED BY <2>1, <2>2, <2>3
<1> QED BY <1>2, <1>5

\* What the state of the sampling thread is made of.
SamplingInv ==
  /\ cnt \in 0 .. UIntWidth - 1
  /\ alarm \subseteq Row
  /\ sampling \in BOOLEAN /\ wrapped \in BOOLEAN
  /\ DOMAIN reports \subseteq Row
  /\ \A k \in DOMAIN reports : reports[k] \in [Row -> 0 .. 2]
  /\ since \in [IF sampling THEN Row ELSE {} -> 0 .. SinceBound]
  /\ sampling => Started
  /\ ~sampling => alarm = {} /\ reports = << >> /\ cnt = 0 /\ ~wrapped

LEMMA SamplingInit == ScheduleInit => SamplingInv
<1> SUFFICES ASSUME ScheduleInit PROVE SamplingInv
  OBVIOUS
<1>1. since \in [{} -> 0 .. SinceBound] /\ DOMAIN reports = {}
  BY DEF ScheduleInit
<1>2. 0 \in 0 .. UIntWidth - 1
  BY CounterAssumption
<1> QED BY <1>1, <1>2 DEF ScheduleInit, SamplingInv

LEMMA SamplingNext ==
  ASSUME TableInv, SamplingInv, [ScheduleNext]_scheduleVars
  PROVE  SamplingInv'
<1>1. CASE Next /\ UNCHANGED sampleVars
  <2>0. /\ cnt' = cnt /\ alarm' = alarm /\ sampling' = sampling
        /\ reports' = reports /\ since' = since /\ wrapped' = wrapped
    BY <1>1 DEF sampleVars
  <2>1. CASE sampling
    <3>1. UNCHANGED vars
      BY <1>1, <2>1, StartedStops DEF SamplingInv
    <3> QED BY <2>0, <3>1 DEF vars, SamplingInv, Row, Started
  <2>2. CASE ~sampling
    <3>1. alarm' = {} /\ reports' = << >> /\ DOMAIN reports' = {}
      BY <2>0, <2>2 DEF SamplingInv
    <3> QED BY <2>0, <2>2, <3>1 DEF SamplingInv, Row, Started
  <2> QED BY <2>1, <2>2
<1>2. CASE DataClassification
  <2>1. /\ Started /\ ~sampling /\ sampling' = TRUE /\ cnt' = cnt
        /\ reports' = reports /\ wrapped' = wrapped /\ reports = << >>
        /\ tabLen' = tabLen /\ step' = step
    BY <1>2 DEF DataClassification, vars, SamplingInv
  <2>2. Row' = Row /\ Started'
    BY <2>1 DEF Row, Started
  <2>3. alarm' \subseteq Row
    BY <1>2 DEF DataClassification
  <2>4. since' \in [Row -> 0 .. SinceBound]
    <3>1. since' = [m \in Row |-> 0] /\ 0 \in 0 .. SinceBound
      BY <1>2, SinceAssumption DEF DataClassification
    <3> QED BY <3>1
  <2>5. DOMAIN reports' = {}
    BY <2>1
  <2> QED BY <2>1, <2>2, <2>3, <2>4, <2>5 DEF SamplingInv
<1>3. CASE Cycle
  <2>1. /\ Started /\ sampling /\ sampling' = sampling /\ alarm' = alarm
        /\ tabLen' = tabLen /\ step' = step
        /\ cnt' = (cnt + 10) % UIntWidth /\ wrapped' = (wrapped \/ cnt' < cnt)
    BY <1>3 DEF Cycle, vars
  <2>2. Row' = Row /\ Started'
    BY <2>1 DEF Row, Started
  <2>3. cnt' \in 0 .. UIntWidth - 1
    <3>1. \A c \in 0 .. UIntWidth - 1 : (c + 10) % UIntWidth \in 0 .. UIntWidth - 1
      BY CounterAssumption
    <3> QED BY <2>1, <3>1 DEF SamplingInv
  <2>4. /\ DOMAIN reports' \subseteq Row
        /\ \A k \in DOMAIN reports' : reports'[k] = GetJson(k)
    BY <1>3 DEF Cycle
  <2>5. \A k : GetJson(k) \in [Row -> 0 .. 2]
    <3>1. \A a, b \in {0, 1} : a + b \in 0 .. 2
      OBVIOUS
    <3>2. ASSUME NEW P, NEW Q
          PROVE  Times(P) + Times(Q) \in 0 .. 2
      BY <3>1 DEF Times
    <3> QED BY <3>2 DEF GetJson
  <2>6. since' \in [Row -> 0 .. SinceBound]
    <3>1. ASSUME NEW n \in 0 .. SinceBound, n # SinceBound
          PROVE  n + 1 \in 0 .. SinceBound
      BY <3>1, SinceAssumption
    <3>2. 0 \in 0 .. SinceBound /\ SinceBound \in 0 .. SinceBound
      BY SinceAssumption
    <3>3. since \in [Row -> 0 .. SinceBound]
      BY <2>1 DEF SamplingInv
    <3>4. ASSUME NEW m \in Row
          PROVE  (CASE InReport(m)' -> 0
                    [] since[m] = SinceBound -> SinceBound
                    [] OTHER -> since[m] + 1) \in 0 .. SinceBound
      <4>1. CASE InReport(m)' /\ since[m] = SinceBound
        BY <4>1, <3>2
      <4>2. CASE InReport(m)' /\ since[m] # SinceBound
        BY <4>2, <3>2
      <4>3. CASE ~InReport(m)' /\ since[m] = SinceBound
        BY <4>3, <3>2
      <4>4. CASE ~InReport(m)' /\ since[m] # SinceBound
        BY <4>4, <3>1, <3>3
      <4> QED BY <4>1, <4>2, <4>3, <4>4
    <3>5. since' = [m \in Row |-> CASE InReport(m)' -> 0
                                 [] since[m] = SinceBound -> SinceBound
                                 [] OTHER -> since[m] + 1]
      BY <1>3 DEF Cycle
    <3> QED BY <3>4, <3>5
  <2>7. wrapped' \in BOOLEAN
    BY <2>1
  <2> QED BY <2>1, <2>2, <2>3, <2>4, <2>5, <2>6, <2>7 DEF SamplingInv
<1>4. CASE UNCHANGED scheduleVars
  BY <1>4 DEF scheduleVars, vars, sampleVars, SamplingInv, Row, Started
<1> QED BY <1>1, <1>2, <1>3, <1>4 DEF ScheduleNext

LEMMA SamplingInvariant == ScheduleSpec => []SamplingInv
<1>1. SamplingInv /\ TableInv /\ [ScheduleNext]_scheduleVars => SamplingInv'
  BY SamplingNext
<1> QED BY <1>1, SamplingInit, TableInvariant, PTL DEF ScheduleSpec

\* The types of the table's and the schedule's state.
THEOREM ScheduleTypes == ScheduleSpec => []ScheduleTypeOK
<1>1. TableInv /\ SamplingInv => ScheduleTypeOK
  BY DEF TableInv, SamplingInv, ScheduleTypeOK
<1> QED BY <1>1, TableInvariant, SamplingInvariant, PTL

-----------------------------------------------------------------------------
\* Every period has an interval: the numbers are well-founded.
LEMMA IntervalIs ==
  ASSUME NEW p \in Nat \ {0}
  PROVE  /\ Interval(p) \in 1 .. p
         /\ (10 * Interval(p)) % p = 0
         /\ \A l \in 1 .. Interval(p) - 1 : (10 * l) % p # 0
<1> DEFINE T == {n \in 1 .. p : (10 * n) % p = 0}
<1>1. T \subseteq Nat /\ p \in T
  <2>1. (p * 10 + 0) % p = 0
    BY DivMod
  <2>2. (10 * p) % p = 0
    BY <2>1
  <2> QED BY <2>2
<1>2. PICK x \in T : \A y \in T : ~ (<<y, x>> \in OpToRel(<, Nat))
  BY <1>1, NatLessThanWellFounded, WFMin
<1>3. \A y \in T : ~ (y < x)
  BY <1>1, <1>2 DEF OpToRel
<1>4. x \in 1 .. p /\ (10 * x) % p = 0 /\ \A l \in 1 .. x - 1 : (10 * l) % p # 0
  <2>1. ASSUME NEW l \in 1 .. x - 1, (10 * l) % p = 0
        PROVE  FALSE
    <3>1. l \in T /\ l < x
      BY <2>1
    <3> QED BY <3>1, <1>3
  <2> QED BY <2>1
<1> QED BY <1>4 DEF Interval

\* A counter of tens is a multiple of a period when its interval has passed.
LEMMA IntervalDivides ==
  ASSUME NEW p \in Nat \ {0}, NEW t \in Nat
  PROVE  (10 * t) % p = 0 <=> t % Interval(p) = 0
<1> DEFINE n == Interval(p)
           q == t \div n
           r == t % n
           a == (10 * n) \div p
           b == (10 * t) \div p
<1>1. n \in Nat \ {0} /\ n \in 1 .. p
  BY IntervalIs
<1>2. (10 * n) % p = 0 /\ \A l \in 1 .. n - 1 : (10 * l) % p # 0
  BY IntervalIs
<1> HIDE DEF n
<1>3. q \in Nat /\ r \in 0 .. n - 1 /\ t = n * q + r
  BY <1>1
<1>4. a \in Int /\ 10 * n = p * a
  <2>1. 10 * n = p * ((10 * n) \div p) + ((10 * n) % p)
    BY <1>1
  <2> QED BY <1>1, <1>2, <2>1
<1>5. b \in Int /\ ((10 * t) % p = 0 => 10 * t = p * b)
  BY SMT
<1> HIDE DEF q, r, a, b
<1> DEFINE c == a * q
           d == b - c
<1>6. c \in Int /\ 10 * t = p * c + 10 * r
  <2>1. 10 * t = (10 * n) * q + 10 * r
    BY <1>1, <1>3
  <2>2. (p * a) * q = p * c /\ c \in Int
    BY <1>3, <1>4
  <2> QED BY <1>4, <2>1, <2>2
<1> HIDE DEF c
<1>7. d \in Int /\ p * d = p * b - p * c
  BY <1>5, <1>6
<1> HIDE DEF d
<1>8. CASE r = 0
  <2>1. 10 * t = p * c
    BY <1>6, <1>8
  <2> QED BY <1>6, <1>8, <2>1, Multiple DEF r, n
<1>9. CASE r # 0
  <2> SUFFICES ASSUME (10 * t) % p = 0 PROVE FALSE
    BY <1>9 DEF r, n
  <2>1. 10 * r = p * d
    BY <1>3, <1>5, <1>6, <1>7
  <2>2. (10 * r) % p = 0
    BY <1>7, <2>1, Multiple
  <2> QED BY <1>1, <1>2, <1>3, <1>9, <2>2
<1> QED BY <1>8, <1>9

\* How a remainder counts on.
LEMMA RemainderCounts ==
  ASSUME NEW n \in Nat \ {0}, NEW t \in Nat
  PROVE  /\ t % n \in 0 .. n - 1 /\ t % n <= t
         /\ (t + 1) % n # 0 => (t + 1) % n = (t % n) + 1
<1> DEFINE q == t \div n
           r == t % n
<1>1. q \in Nat /\ r \in 0 .. n - 1 /\ t = n * q + r
  OBVIOUS
<1> HIDE DEF q, r
<1>2. r <= t
  <2>1. n * q >= 0 /\ n * q \in Int
    BY <1>1
  <2> QED BY <1>1, <2>1
<1>3. CASE r + 1 \in 0 .. n - 1
  <2>1. t + 1 = n * q + (r + 1)
    BY <1>1
  <2>2. (t + 1) % n = r + 1
    BY <1>1, <1>3, <2>1, DivMod
  <2> QED BY <1>1, <1>2, <2>2 DEF r
<1>4. CASE r = n - 1
  <2>1. t + 1 = n * (q + 1) + 0 /\ q + 1 \in Int /\ 0 \in 0 .. n - 1
    BY <1>1, <1>4
  <2>2. (n * (q + 1) + 0) % n = 0
    BY <2>1, DivMod
  <2> QED BY <1>1, <1>2, <2>1, <2>2 DEF r
<1> QED BY <1>1, <1>3, <1>4

\* What the report of row k holds: itself, and the rows that belong to it if its
\* oid is 1 ...
BelongsTo(m, k) == /\ BelongToOid(k) = 1
                   /\ UpSentPeriod(m) # 0
                   /\ BelongToOid(m) = Oid(k)

LEMMA Reported ==
  ASSUME NEW k \in Row, NEW m \in Row
  PROVE  /\ GetJson(k)[m] > 0 <=> m = k \/ BelongsTo(m, k)
         /\ ~(m = k /\ BelongsTo(m, k)) => GetJson(k)[m] <= 1
<1>1. GetJson(k)[m] = Times(m = k) + Times(BelongsTo(m, k))
  BY DEF GetJson, BelongsTo
<1>2. CASE m = k /\ ~BelongsTo(m, k)
  <2>1. Times(m = k) = 1 /\ Times(BelongsTo(m, k)) = 0
    BY <1>2 DEF Times
  <2>2. GetJson(k)[m] = 1
    BY <1>1, <2>1
  <2> QED BY <1>2, <2>2
<1>3. CASE m # k /\ BelongsTo(m, k)
  <2>1. Times(m = k) = 0 /\ Times(BelongsTo(m, k)) = 1
    BY <1>3 DEF Times
  <2>2. GetJson(k)[m] = 1
    BY <1>1, <2>1
  <2> QED BY <1>3, <2>2
<1>4. CASE m # k /\ ~BelongsTo(m, k)
  <2>1. Times(m = k) = 0 /\ Times(BelongsTo(m, k)) = 0
    BY <1>4 DEF Times
  <2>2. GetJson(k)[m] = 0
    BY <1>1, <2>1
  <2> QED BY <1>4, <2>2
<1>5. CASE m = k /\ BelongsTo(m, k)
  <2>1. Times(m = k) = 1 /\ Times(BelongsTo(m, k)) = 1
    BY <1>5 DEF Times
  <2>2. GetJson(k)[m] = 2
    BY <1>1, <2>1
  <2> QED BY <1>5, <2>2
<1> QED BY <1>2, <1>3, <1>4, <1>5

\* ... never twice, as the oids are none of the small numbers.
LEMMA BelongsToAnother ==
  ASSUME TableInv, Started, OidsTellApart, NEW k \in Row
  PROVE  ~BelongsTo(k, k)
<1>1. Oid(k) \in Int /\ Oid(k) > 10
  BY RowCells DEF OidsTellApart
<1> QED BY <1>1 DEF BelongsTo

LEMMA NoRowTwiceNext ==
  ASSUME TableInv, SamplingInv, NoRowTwice, [ScheduleNext]_scheduleVars
  PROVE  NoRowTwice'
<1>1. ASSUME UNCHANGED <<vars, reports>>, sampling
      PROVE  NoRowTwice'
  BY <1>1 DEF vars, NoRowTwice, OidsTellApart, Row, Oid, Value
<1>2. CASE Next /\ UNCHANGED sampleVars
  <2>1. CASE sampling
    BY <1>1, <1>2, <2>1, StartedStops DEF SamplingInv, sampleVars
  <2>2. CASE ~sampling
    BY <1>2, <2>2 DEF sampleVars, NoRowTwice
  <2> QED BY <2>1, <2>2
<1>3. CASE DataClassification
  <2>1. reports' = << >> /\ DOMAIN reports' = {}
    BY <1>3 DEF DataClassification, SamplingInv
  <2> QED BY <2>1 DEF NoRowTwice
<1>4. CASE Cycle
  <2>1. /\ Started /\ UNCHANGED vars
        /\ reports' = [k \in {n \in Row : Due(n, cnt')} |-> GetJson(k)]
    BY <1>4 DEF Cycle
  <2>2. Row' = Row /\ (OidsTellApart' <=> OidsTellApart)
    BY <2>1 DEF vars, OidsTellApart, Row, Oid, Value
  <2> SUFFICES ASSUME OidsTellApart
               PROVE  NoRowTwice'
    BY <2>2 DEF NoRowTwice
  <2>3. ASSUME NEW k \in DOMAIN reports'
        PROVE  k \in Row /\ BelongToOid(k) <= 10 /\ reports'[k] = GetJson(k)
    BY <2>1, <2>3 DEF Due
  <2>4. ASSUME NEW k \in DOMAIN reports', NEW m \in Row
        PROVE  reports'[k][m] <= 1
    BY <2>1, <2>3, <2>4, Reported, BelongsToAnother
  <2>5. ASSUME NEW k \in DOMAIN reports', NEW l \in DOMAIN reports', NEW m \in Row,
               reports'[k][m] > 0, reports'[l][m] > 0
        PROVE  k = l
    <3>1. /\ k \in Row /\ BelongToOid(k) <= 10
          /\ l \in Row /\ BelongToOid(l) <= 10
          /\ reports'[k] = GetJson(k) /\ reports'[l] = GetJson(l)
      BY <2>3
    <3>2. /\ Oid(k) \in Int /\ Oid(k) > 10 /\ Oid(l) \in Int /\ Oid(l) > 10
          /\ BelongToOid(k) \in Int /\ BelongToOid(l) \in Int
          /\ Oid(k) = Oid(l) => k = l
      BY <2>1, <3>1, RowCells DEF OidsTellApart
    <3>3. m = k \/ BelongToOid(m) = Oid(k)
      BY <2>5, <3>1, Reported DEF BelongsTo
    <3>4. m = l \/ BelongToOid(m) = Oid(l)
      BY <2>5, <3>1, Reported DEF BelongsTo
    <3> QED BY <3>1, <3>2, <3>3, <3>4
  <2> QED BY <2>2, <2>4, <2>5 DEF NoRowTwice
<1>5. CASE UNCHANGED scheduleVars
  BY <1>1, <1>5 DEF scheduleVars, sampleVars, NoRowTwice
<1> QED BY <1>2, <1>3, <1>4, <1>5 DEF ScheduleNext

\* No value is in two reports of a cycle nor twice in one, for every table whose
\* oids tell its rows apart.
THEOREM NoRowReportedTwice == ScheduleSpec => []NoRowTwice
<1>1. ScheduleInit => NoRowTwice
  BY DEF ScheduleInit, NoRowTwice
<1>2. TableInv /\ SamplingInv /\ NoRowTwice /\ [ScheduleNext]_scheduleVars
        => NoRowTwice'
  BY NoRowTwiceNext
<1> QED BY <1>1, <1>2, TableInvariant, SamplingInvariant, PTL DEF ScheduleSpec

-----------------------------------------------------------------------------
Punctual == sampling /\ ~wrapped => cnt % 10 = 0 /\ PunctualUntilWrap

\* A row carried by k alone is reported when the period of k divides the counter.
LEMMA CarriedBy ==
  ASSUME Cycle, NEW m \in Row, NEW k \in Row, Carriers(m) = {k}
  PROVE  /\ UpSentPeriod(k) # 0
         /\ InReport(m)' <=> cnt' % UpSentPeriod(k) = 0
<1>1. /\ DOMAIN reports' = {n \in Row : Due(n, cnt')}
      /\ \A n \in DOMAIN reports' : reports'[n] = GetJson(n)
  BY DEF Cycle
<1>2. \A n \in Row : n \in Carriers(m) <=> /\ UpSentPeriod(n) # 0
                                         /\ BelongToOid(n) <= 10
                                         /\ GetJson(n)[m] > 0
  BY Reported DEF Carriers, BelongsTo
<1>3. InReport(m)' <=> \E n \in Row : Due(n, cnt') /\ GetJson(n)[m] > 0
  BY <1>1 DEF InReport
<1>4. InReport(m)' <=> \E n \in Carriers(m) : cnt' % UpSentPeriod(n) = 0
  BY <1>2, <1>3 DEF Due, Carriers
<1> QED BY <1>2, <1>4

LEMMA PunctualNext ==
  ASSUME TableInv, SamplingInv, Punctual, [ScheduleNext]_scheduleVars
  PROVE  Punctual'
<1>1. ASSUME UNCHANGED <<vars, cnt, since, wrapped>>, sampling
      PROVE  Punctual'
  <2>1. UNCHANGED <<tab, tabLen, cnt, since, wrapped>>
    BY <1>1 DEF vars
  <2>2. /\ Row' = Row /\ \A m : Carriers(m)' = Carriers(m)
        /\ \A k \in Row : UpSentPeriod(k)' = UpSentPeriod(k)
    BY <2>1 DEF Row, Carriers, Oid, UpSentPeriod, BelongToOid, Value
  <2> QED BY <1>1, <2>1, <2>2 DEF Punctual, PunctualUntilWrap
<1>2. CASE Next /\ UNCHANGED sampleVars
  <2>1. CASE sampling
    BY <1>1, <1>2, <2>1, StartedStops DEF SamplingInv, sampleVars
  <2>2. CASE ~sampling
    BY <1>2, <2>2 DEF sampleVars, Punctual
  <2> QED BY <2>1, <2>2
<1>3. CASE DataClassification
  <2>1. /\ cnt' = 0 /\ UNCHANGED vars /\ since' = [m \in Row |-> 0]
        /\ Started
    BY <1>3 DEF DataClassification, SamplingInv
  <2>2. Row' = Row /\ \A m : Carriers(m)' = Carriers(m)
    BY <2>1 DEF vars, Row, Carriers, Oid, UpSentPeriod, BelongToOid, Value
  <2>3. \A k \in Row : UpSentPeriod(k)' = UpSentPeriod(k)
    BY <2>1 DEF vars, UpSentPeriod, Value
  <2>4. 0 % 10 = 0 /\ 0 \div 10 = 0
    OBVIOUS
  <2>5. ASSUME NEW m \in Row, NEW k \in Row, Carriers(m) = {k}
        PROVE  0 = (0 \div 10) % Interval(UpSentPeriod(k))
    <3>1. UpSentPeriod(k) \in Nat \ {0}
      BY <2>1, <2>5, RowCells DEF Carriers
    <3>2. Interval(UpSentPeriod(k)) \in Nat \ {0}
      BY <3>1, IntervalIs
    <3> QED BY <2>4, <3>2
  <2> QED BY <2>1, <2>2, <2>3, <2>4, <2>5 DEF Punctual, PunctualUntilWrap
<1>4. CASE Cycle
  <2>1. /\ Started /\ sampling /\ sampling' = sampling /\ UNCHANGED vars
        /\ cnt' = (cnt + 10) % UIntWidth /\ wrapped' = (wrapped \/ cnt' < cnt)
    BY <1>4 DEF Cycle
  <2>2. Row' = Row /\ \A m : Carriers(m)' = Carriers(m)
    BY <2>1 DEF vars, Row, Carriers, Oid, UpSentPeriod, BelongToOid, Value
  <2>3. \A k \in Row : UpSentPeriod(k)' = UpSentPeriod(k)
    BY <2>1 DEF vars, UpSentPeriod, Value
  <2> SUFFICES ASSUME ~wrapped'
               PROVE  cnt' % 10 = 0 /\ PunctualUntilWrap'
    BY DEF Punctual
  <2> DEFINE t == cnt \div 10
  <2>4. ~wrapped /\ ~(cnt' < cnt)
    BY <2>1 DEF SamplingInv
  <2>5. /\ t \in Nat /\ cnt = 10 * t
        /\ cnt' = 10 * (t + 1) /\ cnt' < UIntWidth
    <3>1. ASSUME NEW c \in 0 .. UIntWidth - 1, ~((c + 10) % UIntWidth < c)
          PROVE  (c + 10) % UIntWidth = c + 10 /\ c + 10 < UIntWidth
      BY <3>1, CounterAssumption
    <3>2. cnt' = cnt + 10 /\ cnt' < UIntWidth
      BY <2>1, <2>4, <3>1 DEF SamplingInv
    <3>3. cnt % 10 = 0 /\ cnt \in Nat
      BY <2>1, <2>4, CounterAssumption DEF Punctual, SamplingInv
    <3> QED BY <3>2, <3>3
  <2> HIDE DEF t
  <2>6. cnt' % 10 = 0 /\ cnt' \div 10 = t + 1
    BY <2>5
  <2>7. t < SinceBound /\ SinceBound \in Nat
    BY <2>5, CounterAssumption, SinceAssumption
  <2>8. ASSUME NEW m \in Row, NEW k \in Row, Carriers(m) = {k}
        PROVE  since'[m] = (t + 1) % Interval(UpSentPeriod(k))
    <3> DEFINE n == Interval(UpSentPeriod(k))
    <3>1. UpSentPeriod(k) \in Nat \ {0}
      BY <1>4, <2>1, <2>8, RowCells, CarriedBy
    <3>2. n \in Nat \ {0}
      BY <3>1, IntervalIs
    <3>3. since[m] = t % n
      BY <2>1, <2>4, <2>8 DEF Punctual, PunctualUntilWrap, t
    <3>4. InReport(m)' <=> (t + 1) % n = 0
      <4>1. InReport(m)' <=> (10 * (t + 1)) % UpSentPeriod(k) = 0
        BY <1>4, <2>5, <2>8, CarriedBy
      <4> QED BY <2>5, <3>1, <4>1, IntervalDivides
    <3> HIDE DEF n
    <3>5. /\ t % n <= t /\ t % n \in Nat
          /\ (t + 1) % n # 0 => (t + 1) % n = (t % n) + 1
      <4>1. t % n \in 0 .. n - 1 /\ t % n <= t
        BY <2>5, <3>2, RemainderCounts
      <4>2. (t + 1) % n # 0 => (t + 1) % n = (t % n) + 1
        BY <2>5, <3>2, RemainderCounts
      <4>3. \A x \in 0 .. n - 1 : x \in Nat
        BY <3>2
      <4> QED BY <4>1, <4>2, <4>3
    <3>6. since[m] # SinceBound
      BY <2>5, <2>7, <3>3, <3>5
    <3>7. since'[m] = CASE InReport(m)' -> 0
                        [] since[m] = SinceBound -> SinceBound
                        [] OTHER -> since[m] + 1
      BY <1>4 DEF Cycle
    <3>8. CASE InReport(m)'
      BY <3>4, <3>6, <3>7, <3>8 DEF n
    <3>9. CASE ~InReport(m)'
      <4>1. since'[m] = since[m] + 1
        BY <3>6, <3>7, <3>9
      <4> QED BY <3>3, <3>4, <3>5, <3>9, <4>1 DEF n
    <3> QED BY <3>8, <3>9
  <2> QED BY <2>1, <2>2, <2>3, <2>6, <2>8 DEF PunctualUntilWrap
<1>5. CASE UNCHANGED scheduleVars
  BY <1>1, <1>5 DEF scheduleVars, sampleVars, Punctual
<1> QED BY <1>2, <1>3, <1>4, <1>5 DEF ScheduleNext

\* Until the counter wraps every row is reported exactly once in the interval of
\* the row that carries it, for every table, period and width of the counter.
THEOREM PunctualTillItWraps == ScheduleSpec => []PunctualUntilWrap
<1>1. ScheduleInit => Punctual
  BY DEF ScheduleInit, Punctual
<1>2. TableInv /\ SamplingInv /\ Punctual /\ [ScheduleNext]_scheduleVars
        => Punctual'
  BY PunctualNext
<1>3. Punctual => PunctualUntilWrap
  BY DEF Punctual, PunctualUntilWrap
<1> QED BY <1>1, <1>2, <1>3, TableInvariant, SamplingInvariant, PTL DEF ScheduleSpec
=============================================================================
