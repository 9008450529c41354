---------------------------- MODULE WorkerProofs ----------------------------
(***************************************************************************)
(* What the worker does for every network, backlog, clock and number of    *)
(* faults: its rows explain the chain, it passes over no day the backlog   *)
(* still reaches, the closures it asks for are granted, no day is lost to  *)
(* faults alone or to a short outage alone, one cell's failure stops no    *)
(* other cell, and the page of a policy explains how it ended.             *)
(*                                                                         *)
(* The argument: whatever may still be sent, or has been sent and may      *)
(* still land, has a row and leaves no reachable day between itself and    *)
(* the last record.  Both are settled when the row is written, and stay,   *)
(* because the log and the clock only move forwards.  What keeps a cell    *)
(* from its days is charged to the fault that did it, second half below.   *)
(***************************************************************************)
EXTENDS PolicyPage, DayRingProofs, Sums

(* The ring of a cell answers what was published, and no day past its last. *)
LogAgrees(c) ==
  /\ TracksLast(chain[c]) /\ OnlyWindowFilled(chain[c])
  /\ chain[c].last < today
  /\ \A d \in Days : published[c][d] # Unpublished => d <= chain[c].last
  /\ \A d \in chain[c].first .. chain[c].last :
       DayStateOf(chain[c], d) =
         IF published[c][d] = Unpublished THEN "NoCoverage" ELSE published[c][d]

LogsAgree == \A c \in CellIds : LogAgrees(c)

HasRow(c, d) == rows[c][d] # NoRow

(* The row comes before the transaction, and the transaction before the    *)
(* signature.                                                              *)
WrittenInOrder ==
  /\ pc \in {"send", "mark"} => HasRow(current[1], current[2])
  /\ pc = "mark" => published[current[1]][current[2]] = rows[current[1]][current[2]].label
  /\ \A tx \in flight : HasRow(tx.cell, tx.day)

(* A record of day d of cell c would pass over no day the backlog reaches. *)
Follows(c, d) == \A e \in chain[c].last + 1 .. d - 1 : e < OldestBacklogDay

(* The days between a cell's last record and an open day are old, open as  *)
(* well, or the one about to be sent.                                      *)
Queued(c, d) ==
  \A e \in chain[c].last + 1 .. d - 1 :
    e < OldestBacklogDay \/ <<c, e>> \in todo \/ (pc = "send" /\ current = <<c, e>>)

SentInOrder ==
  /\ pc = "send" => Follows(current[1], current[2])
  /\ \A tx \in flight : Follows(tx.cell, tx.day)
  /\ \A job \in todo : Queued(job[1], job[2])

Inv == TypeOK /\ LogsAgree /\ WrittenInOrder /\ RowsExplainTheChain /\ SentInOrder

-----------------------------------------------------------------------------
(* A day that is on record has a label, so what is sent of it is a record. *)
LEMMA RowsHaveLabels ==
  ASSUME TypeOK, NEW c \in CellIds, NEW d \in Days, HasRow(c, d)
  PROVE  rows[c][d] \in Rows /\ rows[c][d].label \in DayStates /\ rows[c][d].signed \in BOOLEAN
BY DEF TypeOK, HasRow, Rows

(* A job is a cell of the network and a day of the clock.                  *)
LEMMA JobsAreCellsAndDays ==
  ASSUME NEW job \in Jobs
  PROVE  job[1] \in CellIds /\ job[2] \in Days /\ job[2] \in Nat /\ job = <<job[1], job[2]>>
BY WorkerAssumption DEF Jobs, Days

(* What the cycle sends is a record of a cell, a day and a label.          *)
LEMMA RecordsAreTransactions ==
  ASSUME TypeOK, WrittenInOrder, pc = "send"
  PROVE  RecordOf(current) \in Transactions
<1>1. current \in Jobs
  BY DEF TypeOK
<1>2. HasRow(current[1], current[2])
  BY DEF WrittenInOrder
<1> QED BY <1>1, <1>2, JobsAreCellsAndDays, RowsHaveLabels DEF RecordOf, Transactions

(* The oldest day of the backlog is a day, and not ahead of today.         *)
LEMMA BacklogIsBehind ==
  ASSUME TypeOK
  PROVE  OldestBacklogDay \in Nat /\ OldestBacklogDay <= today
BY WorkerAssumption DEF TypeOK, Days, OldestBacklogDay

(* The clock alone moves the backlog, and forwards.                        *)
LEMMA BacklogMovesForwards ==
  ASSUME TypeOK, [Next]_vars
  PROVE  /\ today' \in {today, today + 1}
         /\ OldestBacklogDay \in Nat /\ OldestBacklogDay' \in Nat
         /\ OldestBacklogDay <= OldestBacklogDay'
<1>1. today' \in {today, today + 1}
  BY DEF Next, WorkerStep, FaultStep, StartCycle, SaveDay, SaveFails, SendDay, SendRefused,
         SendFails, MarkDaySubmitted, MarkFails, DaysDone, OpenPolicies, Dispatch,
         DispatchFails, SettleDone, CycleDone, Crash, Tick, FlightLands, FlightEnds,
         SomeoneElseActs, vars
<1>2. Backlog \in Nat /\ today \in Nat
  BY WorkerAssumption DEF TypeOK, Days
<1>3. today' = today => OldestBacklogDay' = OldestBacklogDay
  BY DEF OldestBacklogDay
<1>4. today' = today + 1 => OldestBacklogDay <= OldestBacklogDay'
  BY <1>2 DEF OldestBacklogDay
<1>5. OldestBacklogDay' \in Nat
  <2>1. today' \in Nat
    BY <1>1, <1>2
  <2>2. \A t \in Nat : (IF t > Backlog THEN t - Backlog ELSE 0) \in Nat
    BY <1>2
  <2> QED BY <2>1, <2>2 DEF OldestBacklogDay
<1> QED BY <1>1, <1>3, <1>4, <1>5, BacklogIsBehind

(* The log changes by a record landing, the worker's own or a late one.    *)
LEMMA ChainSteps ==
  ASSUME Inv, [Next]_vars
  PROVE  \/ UNCHANGED <<chain, published>>
         \/ SendDay /\ RecordOf(current) \in Transactions
         \/ \E tx \in flight : FlightLands(tx)
<1>1. SendDay => RecordOf(current) \in Transactions
  BY RecordsAreTransactions DEF Inv, SendDay
<1> QED
  BY <1>1
     DEF Next, WorkerStep, FaultStep, StartCycle, SaveDay, SaveFails, SendRefused,
         SendFails, MarkDaySubmitted, MarkFails, DaysDone, OpenPolicies, Dispatch,
         DispatchFails, SettleDone, CycleDone, Crash, Tick, FlightEnds,
         SomeoneElseActs, vars, world

(* The table changes by saveDay and markDaySubmitted.                      *)
LEMMA RowSteps ==
  ASSUME [Next]_vars
  PROVE  \/ UNCHANGED rows
         \/ \E job \in Jobs, label \in Labels : SaveDay(job, label)
         \/ MarkDaySubmitted
BY DEF Next, WorkerStep, FaultStep, StartCycle, SaveFails, SendDay, SendRefused,
       SendFails, MarkFails, DaysDone, OpenPolicies, Dispatch,
       DispatchFails, SettleDone, CycleDone, Crash, Tick, FlightLands, FlightEnds,
       SomeoneElseActs, vars

(* What a record that lands does to its cell, and leaves of the others.    *)
LEMMA LandReads ==
  ASSUME TypeOK, LogsAgree, NEW tx \in Transactions, Land(tx)
  PROVE  /\ chain' \in [CellIds -> Cells]
         /\ published' \in [CellIds -> [Days -> DayStates \cup {Unpublished}]]
         /\ published' = [published EXCEPT ![tx.cell][tx.day] = tx.label]
         /\ published'[tx.cell] = [published[tx.cell] EXCEPT ![tx.day] = tx.label]
         /\ \A c \in CellIds \ {tx.cell} : chain'[c] = chain[c] /\ published'[c] = published[c]
         /\ chain[tx.cell].last \in Int /\ chain[tx.cell].last < tx.day
         /\ chain[tx.cell].first \in Nat
         /\ tx.day < today /\ tx.day \in Nat
         /\ LET log == chain'[tx.cell] IN
            /\ log \in Cells /\ TracksLast(log) /\ OnlyWindowFilled(log)
            /\ log.last = tx.day /\ log.first >= chain[tx.cell].first
            /\ \A d \in log.first .. tx.day :
                 DayStateOf(log, d) =
                   IF d = tx.day THEN tx.label
                   ELSE IF HoldsDay(chain[tx.cell], d) THEN DayStateOf(chain[tx.cell], d)
                   ELSE "NoCoverage"
<1>1. /\ tx.cell \in CellIds /\ tx.day \in Days /\ tx.day \in Nat /\ tx.label \in DayStates
      /\ chain[tx.cell] \in Cells
      /\ TracksLast(chain[tx.cell]) /\ OnlyWindowFilled(chain[tx.cell])
      /\ IsNewer(chain[tx.cell], tx.day) /\ tx.day < today
  <2>1. tx.cell \in CellIds /\ tx.day \in Days /\ tx.day \in Nat /\ tx.label \in DayStates
    BY WorkerAssumption DEF Transactions, Days
  <2>2. chain[tx.cell] \in Cells
    BY <2>1 DEF TypeOK
  <2>3. TracksLast(chain[tx.cell]) /\ OnlyWindowFilled(chain[tx.cell])
    BY <2>1 DEF LogsAgree, LogAgrees
  <2> QED BY <2>1, <2>2, <2>3 DEF Land, Takes
<1>2. Voters(tx.label) \in SUBSET SensorSlots
  BY DEF Voters
<1>3. chain'[tx.cell] = RecordDay(chain[tx.cell], tx.day, tx.label, Voters(tx.label))
  BY <1>1 DEF Land, TypeOK
<1>4. LET log == chain'[tx.cell] IN
        /\ log \in Cells /\ TracksLast(log) /\ OnlyWindowFilled(log)
        /\ log.last = tx.day /\ log.first >= chain[tx.cell].first
        /\ \A d \in log.first .. tx.day :
             DayStateOf(log, d) =
               IF d = tx.day THEN tx.label
               ELSE IF HoldsDay(chain[tx.cell], d) THEN DayStateOf(chain[tx.cell], d)
               ELSE "NoCoverage"
  BY <1>1, <1>2, <1>3, RecordDayReads
<1>5. chain[tx.cell].last \in Int /\ chain[tx.cell].last < tx.day /\ chain[tx.cell].first \in Nat
  BY <1>1 DEF Cells, IsNewer, NoDay
<1>6. /\ published' = [published EXCEPT ![tx.cell][tx.day] = tx.label]
      /\ published'[tx.cell] = [published[tx.cell] EXCEPT ![tx.day] = tx.label]
      /\ published' \in [CellIds -> [Days -> DayStates \cup {Unpublished}]]
      /\ \A c \in CellIds \ {tx.cell} : chain'[c] = chain[c] /\ published'[c] = published[c]
  BY <1>1 DEF Land, TypeOK
<1>7. chain' \in [CellIds -> Cells]
  <2>1. RecordDay(chain[tx.cell], tx.day, tx.label, Voters(tx.label)) \in Cells
    BY <1>3, <1>4
  <2> QED BY <1>1, <2>1 DEF Land, TypeOK
<1> QED BY <1>1, <1>4, <1>5, <1>6, <1>7

-----------------------------------------------------------------------------
(* The worker begins well typed.                                           *)
LEMMA TypeInit == Init => TypeOK
<1> SUFFICES ASSUME Init PROVE TypeOK
  OBVIOUS
<1>1. MaxDay \in Nat /\ MaxFaults \in Nat /\ MaxMissed \in Nat
  BY WorkerAssumption
<1>2. 0 \in Days /\ 0 \in 0 .. MaxFaults /\ 0 \in 0 .. MaxMissed
  BY <1>1 DEF Days
<1>3. chain \in [CellIds -> Cells] /\ rows \in [CellIds -> [Days -> Rows \cup {NoRow}]]
  BY EmptyCellWellFormed DEF Init
<1> QED BY <1>2, <1>3 DEF Init, TypeOK

(* Every step keeps the types.  Only a record needs more than them: its    *)
(* label is the row's, and the log it makes is again a log.                *)
LEMMA TypeInv == Inv /\ [Next]_vars => TypeOK'
<1> SUFFICES ASSUME Inv, [Next]_vars PROVE TypeOK'
  OBVIOUS
<1>0. TypeOK /\ LogsAgree /\ WrittenInOrder
  BY DEF Inv
<1>1. /\ MaxDay \in Nat /\ MaxFaults \in Nat /\ MaxMissed \in Nat
      /\ faults \in Nat /\ missed \in Nat /\ today \in Nat
      /\ Labels \subseteq DayStates
  BY <1>0, WorkerAssumption DEF TypeOK, Days
<1>2. ASSUME Fault PROVE /\ faults' \in 0 .. MaxFaults /\ missed' \in 0 .. MaxMissed
                         /\ dirty' \in BOOLEAN /\ swept' \in BOOLEAN
  BY <1>0, <1>1, <1>2 DEF Fault, TypeOK
<1>3. \A job \in Jobs : StopCell(job) \subseteq todo
  BY DEF StopCell
<1>4. CASE StartCycle
  BY <1>0, <1>4 DEF StartCycle, OpenDays, TypeOK, world
<1>5. ASSUME NEW job \in Jobs, NEW label \in Labels, SaveDay(job, label)
      PROVE  TypeOK'
  <2>1. rows' \in [CellIds -> [Days -> Rows \cup {NoRow}]]
    <3>1. job[1] \in CellIds /\ job[2] \in Days
      BY JobsAreCellsAndDays
    <3>2. [label |-> label, signed |-> FALSE] \in Rows
      BY <1>1 DEF Rows
    <3> QED BY <1>0, <1>5, <3>1, <3>2 DEF SaveDay, TypeOK
  <2>2. pc' = "send" /\ current' = job /\ todo' \subseteq todo
    BY <1>5 DEF SaveDay
  <2> QED BY <1>0, <1>5, <2>1, <2>2 DEF SaveDay, TypeOK, world, tally
<1>6. ASSUME NEW job \in Jobs, SaveFails(job) PROVE TypeOK'
  BY <1>0, <1>2, <1>3, <1>6 DEF SaveFails, TypeOK, world
<1>7. CASE SendDay
  <2>1. RecordOf(current) \in Transactions
    BY <1>0, <1>7, RecordsAreTransactions DEF SendDay
  <2>2. /\ chain' \in [CellIds -> Cells]
        /\ published' \in [CellIds -> [Days -> DayStates \cup {Unpublished}]]
        /\ UNCHANGED policy
    BY <1>0, <1>7, <2>1, LandReads DEF SendDay, Land
  <2> QED BY <1>0, <1>7, <2>2 DEF SendDay, TypeOK, tally
<1>8. CASE SendRefused
  BY <1>0, <1>8, <1>3 DEF SendRefused, TypeOK, world, tally
<1>9. CASE SendFails
  <2>1. RecordOf(current) \in Transactions
    BY <1>0, <1>9, RecordsAreTransactions DEF SendFails
  <2>2. flight' \subseteq Transactions
    BY <1>0, <1>9, <2>1 DEF SendFails, TypeOK
  <2> QED BY <1>0, <1>2, <1>3, <1>9, <2>2 DEF SendFails, TypeOK
<1>10. CASE MarkDaySubmitted
  <2>1. current[1] \in CellIds /\ current[2] \in Days
    BY <1>0, <1>10, JobsAreCellsAndDays DEF MarkDaySubmitted, TypeOK
  <2>2. rows[current[1]][current[2]] \in Rows
    BY <1>0, <1>10, <2>1, RowsHaveLabels DEF MarkDaySubmitted, WrittenInOrder
  <2>3. rows' \in [CellIds -> [Days -> Rows \cup {NoRow}]]
    <3> DEFINE row == [rows[current[1]][current[2]] EXCEPT !.signed = TRUE]
    <3>1. row \in Rows
      BY <2>2 DEF Rows
    <3>2. rows' = [rows EXCEPT ![current[1]][current[2]] = row]
      BY <1>10 DEF MarkDaySubmitted
    <3> HIDE DEF row
    <3> QED BY <1>0, <2>1, <3>1, <3>2 DEF TypeOK
  <2>4. fresh' \subseteq CellIds
    BY <1>0, <1>10, <2>1 DEF MarkDaySubmitted, TypeOK
  <2> QED BY <1>0, <1>10, <2>3, <2>4 DEF MarkDaySubmitted, TypeOK, world, tally
<1>11. CASE MarkFails
  BY <1>0, <1>2, <1>3, <1>11 DEF MarkFails, TypeOK, world
<1>12. CASE DaysDone
  BY <1>0, <1>12 DEF DaysDone, TypeOK, world, tally
<1>13. ASSUME NEW c \in CellIds, OpenPolicies(c) PROVE TypeOK'
  BY <1>0, <1>13 DEF OpenPolicies, TypeOK, world, tally
<1>14. ASSUME NEW p \in PolicyIds, Dispatch(p) PROVE TypeOK'
  <2>1. policy' \in [PolicyIds -> {"Active", "Settled", "Closed"}]
    BY <1>0, <1>14 DEF Dispatch, Call, TypeOK
  <2> QED BY <1>0, <1>14, <2>1 DEF Dispatch, TypeOK, tally
<1>15. ASSUME NEW p \in PolicyIds, DispatchFails(p) PROVE TypeOK'
  BY <1>0, <1>2, <1>15 DEF DispatchFails, TypeOK, world
<1>16. CASE SettleDone
  BY <1>0, <1>16 DEF SettleDone, TypeOK, world, tally
<1>17. CASE CycleDone
  BY <1>0, <1>17 DEF CycleDone, TypeOK, world
<1>18. CASE Crash
  <2>1. flight' \subseteq Transactions
    <3>1. pc = "send" => RecordOf(current) \in Transactions
      BY <1>0, RecordsAreTransactions
    <3> QED BY <1>0, <1>18, <3>1 DEF Crash, TypeOK
  <2> QED BY <1>0, <1>2, <1>18, <2>1 DEF Crash, TypeOK
<1>19. CASE Tick
  <2>1. today' \in Days
    BY <1>1, <1>19 DEF Tick, Days
  <2>2. /\ missed' \in 0 .. MaxMissed
        /\ dirty' \in BOOLEAN /\ swept' \in BOOLEAN
        /\ UNCHANGED <<world, rows, memory, faults>>
    <3>1. missed \in 0 .. MaxMissed
      BY <1>0 DEF TypeOK
    <3>2. swept => missed' = missed
      BY <1>19 DEF Tick
    <3>3. ~swept => missed' = missed + 1 /\ missed < MaxMissed
      BY <1>19 DEF Tick
    <3>4. missed' \in 0 .. MaxMissed
      BY <1>1, <3>1, <3>2, <3>3
    <3>5. dirty' = (pc # "idle") /\ swept' = FALSE /\ UNCHANGED <<world, rows, memory, faults>>
      BY <1>19 DEF Tick
    <3> QED BY <3>4, <3>5
  <2> QED BY <1>0, <2>1, <2>2 DEF TypeOK, world, memory
<1>20. ASSUME NEW tx \in flight, FlightLands(tx) PROVE TypeOK'
  <2>1. tx \in Transactions
    BY <1>0 DEF TypeOK
  <2>2. /\ chain' \in [CellIds -> Cells]
        /\ published' \in [CellIds -> [Days -> DayStates \cup {Unpublished}]]
        /\ UNCHANGED policy
    BY <1>0, <1>20, <2>1, LandReads DEF FlightLands, Land
  <2> QED BY <1>0, <1>20, <2>2 DEF FlightLands, TypeOK, memory, tally
<1>21. ASSUME NEW tx \in flight, FlightEnds(tx) PROVE TypeOK'
  BY <1>0, <1>21 DEF FlightEnds, TypeOK, memory, tally
<1>22. ASSUME NEW p \in PolicyIds, SomeoneElseActs(p) PROVE TypeOK'
  <2>1. policy' \in [PolicyIds -> {"Active", "Settled", "Closed"}]
    BY <1>0, <1>22 DEF SomeoneElseActs, TypeOK
  <2> QED BY <1>0, <1>22, <2>1 DEF SomeoneElseActs, TypeOK, memory, tally
<1>23. CASE UNCHANGED vars
  BY <1>0, <1>23 DEF vars, world, memory, tally, TypeOK
<1> QED
  BY <1>4, <1>5, <1>6, <1>7, <1>8, <1>9, <1>10, <1>11, <1>12, <1>13, <1>14, <1>15, <1>16,
     <1>17, <1>18, <1>19, <1>20, <1>21, <1>22, <1>23
     DEF Next, WorkerStep, FaultStep

-----------------------------------------------------------------------------
(* A record that lands keeps the logs and the published days in agreement. *)
LEMMA LandAgrees ==
  ASSUME TypeOK, LogsAgree, NEW tx \in Transactions, Land(tx), today' = today
  PROVE  LogsAgree'
<1> DEFINE k    == tx.cell
           log  == chain'[k]
           last == chain[k].last
<1>1. /\ k \in CellIds /\ tx.day \in Nat /\ tx.day < today /\ tx.label \in DayStates
      /\ last \in Int /\ last < tx.day /\ chain[k].first \in Nat
      /\ published'[k] = [published[k] EXCEPT ![tx.day] = tx.label]
      /\ published[k] \in [Days -> DayStates \cup {Unpublished}]
      /\ \A c \in CellIds \ {k} : chain'[c] = chain[c] /\ published'[c] = published[c]
      /\ log \in Cells /\ TracksLast(log) /\ OnlyWindowFilled(log) /\ log.last = tx.day
      /\ log.first >= chain[k].first
      /\ \A d \in log.first .. tx.day :
           DayStateOf(log, d) = IF d = tx.day THEN tx.label
                                ELSE IF HoldsDay(chain[k], d) THEN DayStateOf(chain[k], d)
                                ELSE "NoCoverage"
  BY LandReads DEF Transactions, TypeOK
<1>2. /\ \A d \in Days : published[k][d] # Unpublished => d <= last
      /\ \A d \in chain[k].first .. last :
           DayStateOf(chain[k], d) =
             IF published[k][d] = Unpublished THEN "NoCoverage" ELSE published[k][d]
  BY <1>1 DEF LogsAgree, LogAgrees
<1> HIDE DEF k, log, last
<1>3. today \in Days /\ MaxDay \in Nat /\ log.first \in Nat
  BY <1>1, WorkerAssumption DEF TypeOK, Cells
<1>4. ASSUME NEW d \in log.first .. tx.day
      PROVE  DayStateOf(log, d) =
               IF published'[k][d] = Unpublished THEN "NoCoverage" ELSE published'[k][d]
  <2>1. d \in Days /\ d <= tx.day
    BY <1>1, <1>3, <1>4 DEF Days
  <2>2. CASE d = tx.day
    BY <1>1, <2>1, <2>2 DEF DayStates, Unpublished
  <2>3. CASE d # tx.day /\ HoldsDay(chain[k], d)
    <3>1. d \in chain[k].first .. last
      BY <1>1, <2>1, <2>3 DEF HoldsDay, Days, last
    <3> QED BY <1>1, <1>2, <2>1, <2>3, <3>1
  <2>4. CASE d # tx.day /\ ~HoldsDay(chain[k], d)
    <3>1. d > last
      BY <1>1, <1>3, <1>4, <2>4 DEF HoldsDay, NoDay, last
    <3>2. published[k][d] = Unpublished
      BY <1>1, <1>2, <2>1, <3>1 DEF Days
    <3> QED BY <1>1, <2>1, <2>4, <3>2
  <2> QED BY <2>2, <2>3, <2>4
<1>5. ASSUME NEW d \in Days, published'[k][d] # Unpublished PROVE d <= log.last
  <2>1. d # tx.day => d <= last
    BY <1>1, <1>2, <1>5
  <2> QED BY <1>1, <2>1 DEF Days
<1>6. LogAgrees(k)'
  BY <1>1, <1>4, <1>5 DEF LogAgrees, log
<1>7. ASSUME NEW c \in CellIds \ {k} PROVE LogAgrees(c)'
  BY <1>1, <1>7 DEF LogsAgree, LogAgrees
<1> QED BY <1>6, <1>7 DEF LogsAgree

(* So no step parts them: only records change a log, and the clock only    *)
(* leaves it further behind.                                               *)
LEMMA LogInv == Inv /\ [Next]_vars => LogsAgree'
<1> SUFFICES ASSUME Inv, [Next]_vars PROVE LogsAgree'
  OBVIOUS
<1>0. TypeOK /\ LogsAgree
  BY DEF Inv
<1>1. CASE UNCHANGED <<chain, published>>
  <2>1. today' >= today /\ today \in Nat
    BY <1>0, BacklogMovesForwards, WorkerAssumption DEF TypeOK, Days
  <2>2. today' \in Int
    BY <1>0, <2>1, BacklogMovesForwards
  <2>3. \A c \in CellIds : chain[c].last \in Int
    BY <1>0 DEF TypeOK, Cells, NoDay
  <2> QED BY <1>0, <1>1, <2>1, <2>2, <2>3 DEF LogsAgree, LogAgrees
<1>2. CASE SendDay /\ RecordOf(current) \in Transactions
  BY <1>0, <1>2, LandAgrees DEF SendDay
<1>3. ASSUME NEW tx \in flight, FlightLands(tx) PROVE LogsAgree'
  <2>1. tx \in Transactions
    BY <1>0 DEF TypeOK
  <2> QED BY <1>0, <1>3, <2>1, LandAgrees DEF FlightLands
<1> QED BY <1>1, <1>2, <1>3, ChainSteps

(* The log only moves forwards, what it has published stays, and what it   *)
(* publishes anew is the row of the moment or a transaction on its way.    *)
LEMMA PublishedStays ==
  ASSUME Inv, [Next]_vars, NEW c \in CellIds
  PROVE  /\ chain[c].last \in Int /\ chain'[c].last \in Int /\ chain[c].last <= chain'[c].last
         /\ \A d \in Days :
              published[c][d] # Unpublished => published'[c][d] = published[c][d]
         /\ \A d \in Days : published'[c][d] # Unpublished => published[c][d] # Unpublished \/ HasRow(c, d)
<1>0. TypeOK /\ LogsAgree /\ WrittenInOrder
  BY DEF Inv
<1>1. chain[c].last \in Int
  BY <1>0 DEF TypeOK, Cells, NoDay
<1>2. CASE UNCHANGED <<chain, published>>
  BY <1>1, <1>2
<1>3. ASSUME NEW tx \in Transactions, Land(tx), HasRow(tx.cell, tx.day)
      PROVE  /\ chain'[c].last \in Int /\ chain[c].last <= chain'[c].last
             /\ \A d \in Days :
                  published[c][d] # Unpublished => published'[c][d] = published[c][d]
             /\ \A d \in Days :
                  published'[c][d] # Unpublished => published[c][d] # Unpublished \/ HasRow(c, d)
  <2>1. CASE c # tx.cell
    <3>1. chain'[c] = chain[c] /\ published'[c] = published[c]
      BY <1>0, <1>3, <2>1, LandReads
    <3> QED BY <1>1, <3>1
  <2>2. CASE c = tx.cell
    <3>1. /\ chain'[c].last = tx.day /\ tx.day \in Nat /\ chain[c].last < tx.day
          /\ published'[c] = [published[c] EXCEPT ![tx.day] = tx.label]
      BY <1>0, <1>3, <2>2, LandReads
    <3>2. /\ published[c] \in [Days -> DayStates \cup {Unpublished}]
          /\ \A d \in Days : published[c][d] # Unpublished => d <= chain[c].last
      BY <1>0 DEF TypeOK, LogsAgree, LogAgrees
    <3>3. \A d \in Days : published[c][d] # Unpublished => d # tx.day
      BY <1>1, <3>1, <3>2
    <3> QED BY <1>1, <1>3, <2>2, <3>1, <3>2, <3>3
  <2> QED BY <2>1, <2>2
<1>4. CASE SendDay /\ RecordOf(current) \in Transactions
  BY <1>0, <1>1, <1>3, <1>4 DEF SendDay, WrittenInOrder, RecordOf
<1>5. ASSUME NEW tx \in flight, FlightLands(tx)
      PROVE  tx \in Transactions /\ Land(tx) /\ HasRow(tx.cell, tx.day)
  BY <1>0, <1>5 DEF TypeOK, WrittenInOrder, FlightLands
<1> QED BY <1>1, <1>2, <1>3, <1>4, <1>5, ChainSteps

-----------------------------------------------------------------------------
(* How a row changes: computed anew and unsigned, or signed as it is while *)
(* the cycle is at it.  No row is ever removed.                            *)
LEMMA RowsMove ==
  ASSUME Inv, [Next]_vars, NEW c \in CellIds, NEW d \in Days
  PROVE  \/ rows'[c][d] = rows[c][d]
         \/ HasRow(c, d)' /\ ~Signed(c, d)' /\ pc' = "send" /\ current' = <<c, d>>
         \/ /\ HasRow(c, d) /\ HasRow(c, d)'
            /\ pc = "mark" /\ current = <<c, d>> /\ rows'[c][d].label = rows[c][d].label
<1>0. TypeOK /\ WrittenInOrder
  BY DEF Inv
<1>1. CASE UNCHANGED rows
  BY <1>1
<1>2. ASSUME NEW job \in Jobs, NEW label \in Labels, SaveDay(job, label)
      PROVE  \/ rows'[c][d] = rows[c][d]
             \/ HasRow(c, d)' /\ ~Signed(c, d)' /\ pc' = "send" /\ current' = <<c, d>>
  <2> DEFINE row == [label |-> label, signed |-> FALSE]
  <2>1. row # NoRow /\ row.signed = FALSE
    <3>1. label # "None"
      BY WorkerAssumption DEF DayStates
    <3>2. row.label = label /\ NoRow.label = "None"
      BY DEF NoRow
    <3> QED BY <3>1, <3>2
  <2>2. /\ job[1] \in CellIds /\ job[2] \in Days /\ job = <<job[1], job[2]>>
        /\ rows' = [rows EXCEPT ![job[1]][job[2]] = row]
        /\ pc' = "send" /\ current' = job
    BY <1>2, JobsAreCellsAndDays DEF SaveDay
  <2> HIDE DEF row
  <2>3. CASE job = <<c, d>>
    <3>1. rows'[c][d] = row
      BY <1>0, <2>2, <2>3 DEF TypeOK
    <3> QED BY <2>1, <2>2, <2>3, <3>1 DEF HasRow, Signed
  <2>4. CASE job # <<c, d>>
    BY <1>0, <2>2, <2>4 DEF TypeOK
  <2> QED BY <2>3, <2>4
<1>3. CASE MarkDaySubmitted
  <2> DEFINE old == rows[current[1]][current[2]]
             row == [old EXCEPT !.signed = TRUE]
  <2>1. /\ current \in Jobs /\ pc = "mark" /\ HasRow(current[1], current[2])
        /\ current[1] \in CellIds /\ current[2] \in Days /\ current = <<current[1], current[2]>>
        /\ rows' = [rows EXCEPT ![current[1]][current[2]] = row]
    BY <1>0, <1>3, JobsAreCellsAndDays DEF MarkDaySubmitted, TypeOK, WrittenInOrder
  <2>2. row.label = old.label /\ row # NoRow
    <3>1. old \in Rows /\ old.label \in DayStates
      BY <1>0, <2>1, RowsHaveLabels
    <3>2. row.label = old.label
      BY <3>1 DEF Rows
    <3>3. row.label # "None" /\ NoRow.label = "None"
      BY <3>1, <3>2 DEF NoRow, DayStates
    <3> QED BY <3>2, <3>3
  <2> HIDE DEF row
  <2>3. CASE current = <<c, d>>
    <3>1. rows'[c][d] = row /\ old = rows[c][d]
      BY <1>0, <2>1, <2>3 DEF TypeOK
    <3> QED BY <2>1, <2>2, <2>3, <3>1 DEF HasRow
  <2>4. CASE current # <<c, d>>
    BY <1>0, <2>1, <2>4 DEF TypeOK
  <2> QED BY <2>3, <2>4
<1> QED BY <1>1, <1>2, <1>3, RowSteps

(* A day once on record stays on record.                                   *)
LEMMA RowsStay ==
  ASSUME Inv, [Next]_vars, NEW c \in CellIds, NEW d \in Days, HasRow(c, d)
  PROVE  HasRow(c, d)'
BY RowsMove DEF HasRow

(* How the cycle comes to a transaction and to a signature.                *)
LEMMA MemorySteps ==
  ASSUME [Next]_vars
  PROVE  /\ pc' = "send" => \/ pc = "send" /\ current' = current
                            \/ \E job \in Jobs, label \in Labels : SaveDay(job, label)
         /\ pc' = "mark" => \/ pc = "mark" /\ current' = current /\ rows' = rows
                            \/ SendDay
         /\ \A tx \in flight' : tx \in flight \/ (pc = "send" /\ tx = RecordOf(current))
BY DEF Next, WorkerStep, FaultStep, StartCycle, SaveDay, SaveFails, SendDay, SendRefused,
       SendFails, MarkDaySubmitted, MarkFails, DaysDone, OpenPolicies, Dispatch,
       DispatchFails, SettleDone, CycleDone, Crash, Tick, FlightLands, FlightEnds,
       SomeoneElseActs, vars, world, memory

(* The row stays ahead of the transaction and the transaction ahead of the *)
(* signature, at every step of closeCellDay and through every failure.     *)
LEMMA OrderInv == Inv /\ [Next]_vars => WrittenInOrder'
<1> SUFFICES ASSUME Inv, [Next]_vars PROVE WrittenInOrder'
  OBVIOUS
<1>0. TypeOK /\ LogsAgree /\ WrittenInOrder
  BY DEF Inv
<1>1. pc \in {"send", "mark"} =>
        current[1] \in CellIds /\ current[2] \in Days /\ HasRow(current[1], current[2])
  BY <1>0, JobsAreCellsAndDays DEF TypeOK, WrittenInOrder
<1>2. ASSUME NEW job \in Jobs, NEW label \in Labels, SaveDay(job, label)
      PROVE  HasRow(current[1], current[2])'
  <2>1. job[1] \in CellIds /\ job[2] \in Days /\ current' = job
    BY <1>2, JobsAreCellsAndDays DEF SaveDay
  <2>2. rows'[job[1]][job[2]] = [label |-> label, signed |-> FALSE]
    BY <1>0, <1>2, <2>1 DEF SaveDay, TypeOK
  <2>3. rows'[job[1]][job[2]].label # "None" /\ NoRow.label = "None"
    BY <2>2, WorkerAssumption DEF DayStates, NoRow
  <2> QED BY <2>1, <2>3 DEF HasRow
<1>3. ASSUME SendDay
      PROVE  published'[current'[1]][current'[2]] = rows'[current'[1]][current'[2]].label
  <2>1. /\ pc = "send" /\ rows' = rows /\ current' = current
        /\ Land(RecordOf(current)) /\ RecordOf(current) \in Transactions
    BY <1>0, <1>3, RecordsAreTransactions DEF SendDay
  <2>2. published'[current[1]] =
          [published[current[1]] EXCEPT ![current[2]] = rows[current[1]][current[2]].label]
    BY <1>0, <2>1, LandReads DEF RecordOf
  <2>3. published'[current[1]][current[2]] = rows[current[1]][current[2]].label
    BY <1>0, <1>1, <2>1, <2>2 DEF TypeOK
  <2> QED BY <2>1, <2>3
<1>4. ASSUME NEW tx \in flight' PROVE HasRow(tx.cell, tx.day)'
  <2>1. tx.cell \in CellIds /\ tx.day \in Days /\ HasRow(tx.cell, tx.day)
    <3>1. CASE tx \in flight
      BY <1>0, <3>1 DEF TypeOK, Transactions, WrittenInOrder
    <3>2. CASE pc = "send" /\ tx = RecordOf(current)
      <4>1. tx.cell = current[1] /\ tx.day = current[2]
        BY <3>2 DEF RecordOf
      <4> QED BY <1>1, <3>2, <4>1
    <3> QED BY <3>1, <3>2, MemorySteps
  <2> QED BY <2>1, RowsStay
<1>5. pc' \in {"send", "mark"} => HasRow(current[1], current[2])'
  <2>1. CASE pc \in {"send", "mark"} /\ current' = current
    BY <1>1, <2>1, RowsStay
  <2> QED BY <1>2, <2>1, MemorySteps DEF SendDay
<1>6. pc' = "mark" => published'[current'[1]][current'[2]] = rows'[current'[1]][current'[2]].label
  <2>1. CASE pc = "mark" /\ current' = current /\ rows' = rows
    <3>1. published[current[1]][current[2]] = rows[current[1]][current[2]].label
      BY <1>0, <2>1 DEF WrittenInOrder
    <3>2. published[current[1]][current[2]] # Unpublished
      BY <1>0, <1>1, <2>1, <3>1, RowsHaveLabels DEF DayStates, Unpublished
    <3> QED BY <1>1, <2>1, <3>1, <3>2, PublishedStays
  <2> QED BY <1>3, <2>1, MemorySteps
<1> QED BY <1>4, <1>5, <1>6 DEF WrittenInOrder

(* A record lands of a row that is there, and a signature is written of a  *)
(* row whose label the chain took.                                         *)
LEMMA RowsInv == Inv /\ [Next]_vars => RowsExplainTheChain'
<1> SUFFICES ASSUME Inv, [Next]_vars, NEW c \in CellIds, NEW d \in Days
             PROVE  /\ published'[c][d] # Unpublished => rows'[c][d] # NoRow
                    /\ Signed(c, d)' => published'[c][d] = rows'[c][d].label
  BY DEF RowsExplainTheChain
<1>0. TypeOK /\ LogsAgree /\ WrittenInOrder /\ RowsExplainTheChain
  BY DEF Inv
<1>1. published'[c][d] # Unpublished => HasRow(c, d)
  BY <1>0, PublishedStays DEF RowsExplainTheChain, HasRow
<1>2. published'[c][d] # Unpublished => rows'[c][d] # NoRow
  BY <1>1, RowsStay DEF HasRow
<1>3. CASE rows'[c][d] = rows[c][d]
  <2> SUFFICES ASSUME Signed(c, d) PROVE published'[c][d] = rows[c][d].label
    BY <1>2, <1>3 DEF Signed
  <2>1. published[c][d] = rows[c][d].label /\ HasRow(c, d)
    BY <1>0 DEF RowsExplainTheChain, Signed, HasRow, NoRow
  <2>2. published[c][d] # Unpublished
    BY <1>0, <2>1, RowsHaveLabels DEF DayStates, Unpublished
  <2> QED BY <2>1, <2>2, PublishedStays
<1>4. CASE ~Signed(c, d)'
  BY <1>2, <1>4
<1>5. CASE /\ HasRow(c, d) /\ HasRow(c, d)'
           /\ pc = "mark" /\ current = <<c, d>> /\ rows'[c][d].label = rows[c][d].label
  <2>1. published[c][d] = rows[c][d].label
    BY <1>0, <1>5 DEF WrittenInOrder
  <2>2. published[c][d] # Unpublished
    BY <1>0, <1>5, <2>1, RowsHaveLabels DEF DayStates, Unpublished
  <2> QED BY <1>2, <1>5, <2>1, <2>2, PublishedStays
<1> QED BY <1>3, <1>4, <1>5, RowsMove

-----------------------------------------------------------------------------
(* The days left to close: all forgotten, all found, one cell's dropped,   *)
(* the first of them taken up, or left as they are.                        *)
LEMMA TodoSteps ==
  ASSUME [Next]_vars
  PROVE  \/ todo' = {}
         \/ StartCycle
         \/ \E job : todo' = StopCell(job) /\ (pc = "send" => job = current)
         \/ \E job \in Jobs, label \in Labels : SaveDay(job, label)
         \/ UNCHANGED todo /\ (pc = "send" => pc' = "send" /\ current' = current)
         \/ SendDay
BY DEF Next, WorkerStep, FaultStep, StartCycle, SaveDay, SaveFails, SendRefused,
       SendFails, MarkDaySubmitted, MarkFails, DaysDone, OpenPolicies, Dispatch,
       DispatchFails, SettleDone, CycleDone, Crash, Tick, FlightLands, FlightEnds,
       SomeoneElseActs, vars, memory

(* What once passed over no reachable day never will: the log and the      *)
(* backlog only move forwards.                                             *)
LEMMA FollowsStays ==
  ASSUME Inv, [Next]_vars, NEW c \in CellIds, NEW d \in Days, Follows(c, d)
  PROVE  Follows(c, d)'
<1>1. /\ chain[c].last \in Int /\ chain'[c].last \in Int /\ chain[c].last <= chain'[c].last
      /\ d \in Nat
  BY PublishedStays, WorkerAssumption DEF Days
<1>2. OldestBacklogDay \in Nat /\ OldestBacklogDay' \in Nat /\ OldestBacklogDay <= OldestBacklogDay'
  BY BacklogMovesForwards DEF Inv
<1>3. \A e \in chain'[c].last + 1 .. d - 1 : e \in chain[c].last + 1 .. d - 1
  BY <1>1
<1>4. \A e \in chain'[c].last + 1 .. d - 1 : e \in Int
  BY <1>1
<1> QED BY <1>2, <1>3, <1>4 DEF Follows

(* The days of a cell are taken in order, and its first failure drops the  *)
(* rest of them: what is sent never overtakes a day that could have been.  *)
LEMMA SentInv == Inv /\ [Next]_vars => SentInOrder'
<1> SUFFICES ASSUME Inv, [Next]_vars PROVE SentInOrder'
  OBVIOUS
<1>0. TypeOK /\ LogsAgree /\ WrittenInOrder /\ RowsExplainTheChain /\ SentInOrder
  BY DEF Inv
<1>1. pc = "send" => current[1] \in CellIds /\ current[2] \in Days /\ current = <<current[1], current[2]>>
  BY <1>0, JobsAreCellsAndDays DEF TypeOK
<1>2. ASSUME NEW job \in Jobs, NEW label \in Labels, SaveDay(job, label)
      PROVE  Follows(job[1], job[2])
  <2>1. job[1] \in CellIds /\ job[2] \in Days /\ job[2] \in Nat
    BY JobsAreCellsAndDays
  <2>2. pc = "days" /\ job \in todo
    BY <1>2 DEF SaveDay, IsNext
  <2>3. chain[job[1]].last \in Int
    BY <2>1, PublishedStays
  <2> SUFFICES ASSUME NEW e \in chain[job[1]].last + 1 .. job[2] - 1, <<job[1], e>> \in todo
               PROVE  FALSE
    BY <1>0, <2>2 DEF SentInOrder, Queued, Follows
  <2>4. e < job[2] /\ e \in Int /\ job[1] \in Nat
    <3>1. job[1] \in Nat
      BY <2>1, WorkerAssumption
    <3> QED BY <2>1, <2>3, <3>1
  <2>5. job[1] < job[1] \/ (job[1] = job[1] /\ job[2] <= e)
    BY <1>2 DEF SaveDay, IsNext
  <2> QED BY <2>1, <2>4, <2>5
<1>3. pc' = "send" => Follows(current[1], current[2])'
  <2>1. CASE pc = "send" /\ current' = current
    BY <1>0, <1>1, <2>1, FollowsStays DEF SentInOrder
  <2>2. ASSUME NEW job \in Jobs, NEW label \in Labels, SaveDay(job, label)
        PROVE  Follows(current[1], current[2])'
    <3>1. Follows(job[1], job[2])'
      BY <1>2, <2>2, JobsAreCellsAndDays, FollowsStays
    <3>2. current' = job
      BY <2>2 DEF SaveDay
    <3> QED BY <3>1, <3>2 DEF Follows
  <2> QED BY <2>1, <2>2, MemorySteps
<1>4. ASSUME NEW tx \in flight' PROVE Follows(tx.cell, tx.day)'
  <2>1. CASE tx \in flight
    BY <1>0, <2>1, FollowsStays DEF TypeOK, Transactions, SentInOrder
  <2>2. CASE pc = "send" /\ tx = RecordOf(current)
    <3>1. tx.cell = current[1] /\ tx.day = current[2]
      BY <2>2 DEF RecordOf
    <3> QED BY <1>0, <1>1, <2>2, <3>1, FollowsStays DEF SentInOrder
  <2> QED BY <2>1, <2>2, MemorySteps
<1>5. ASSUME NEW job \in todo' PROVE Queued(job[1], job[2])'
  <2>1. job \in Jobs
    BY <1>5, TypeInv DEF TypeOK
  <2> DEFINE c == job[1]
  <2>2. /\ c \in CellIds /\ job[2] \in Nat /\ job[2] \in Days
        /\ chain[c].last \in Int /\ chain'[c].last \in Int /\ chain[c].last <= chain'[c].last
        /\ OldestBacklogDay \in Nat /\ OldestBacklogDay' \in Nat
        /\ OldestBacklogDay <= OldestBacklogDay'
    BY <1>0, <2>1, JobsAreCellsAndDays, PublishedStays, BacklogMovesForwards
  <2> SUFFICES ASSUME NEW e \in chain'[c].last + 1 .. job[2] - 1
               PROVE  \/ e < OldestBacklogDay' \/ <<c, e>> \in todo'
                      \/ pc' = "send" /\ current' = <<c, e>>
    BY DEF Queued
  <2>3. e \in Int /\ e \in chain[c].last + 1 .. job[2] - 1 /\ e > chain[c].last
    BY <2>2
  <2> HIDE DEF c
  <2>4. CASE StartCycle
    <3>1. todo' = OpenDays /\ today' = today /\ OldestBacklogDay' = OldestBacklogDay
      BY <2>4 DEF StartCycle, OldestBacklogDay
    <3>2. job[2] <= today - 1 /\ today \in Nat /\ today \in Days
      BY <1>0, <1>5, <3>1, WorkerAssumption DEF OpenDays, TypeOK, Days
    <3>3. ASSUME e >= OldestBacklogDay PROVE <<c, e>> \in OpenDays
      <4>1. e \in OldestBacklogDay .. today - 1 /\ e \in Days
        BY <2>2, <2>3, <3>2, <3>3, WorkerAssumption DEF Days
      <4>2. published[c][e] = Unpublished
        BY <1>0, <2>2, <2>3, <4>1 DEF LogsAgree, LogAgrees
      <4>3. ~Signed(c, e)
        <5> SUFFICES ASSUME Signed(c, e) PROVE FALSE
          OBVIOUS
        <5>1. published[c][e] = rows[c][e].label /\ HasRow(c, e)
          BY <1>0, <2>2, <4>1 DEF RowsExplainTheChain, Signed, HasRow, NoRow
        <5> QED BY <1>0, <2>2, <4>1, <4>2, <5>1, RowsHaveLabels DEF DayStates, Unpublished
      <4>4. <<c, e>> \in Jobs
        BY <2>2, <4>1 DEF Jobs
      <4> QED BY <4>1, <4>3, <4>4 DEF OpenDays
    <3> QED BY <2>2, <2>3, <3>1, <3>3
  <2>5. ASSUME job \in todo
        PROVE  e < OldestBacklogDay' \/ <<c, e>> \in todo \/ (pc = "send" /\ current = <<c, e>>)
    <3>1. e < OldestBacklogDay \/ <<c, e>> \in todo \/ (pc = "send" /\ current = <<c, e>>)
      BY <1>0, <2>3, <2>5 DEF SentInOrder, Queued, c
    <3> QED BY <2>2, <2>3, <3>1
  <2>6. ASSUME NEW other, todo' = StopCell(other), pc = "send" => other = current
        PROVE  e < OldestBacklogDay' \/ <<c, e>> \in todo'
    <3>1. job \in todo /\ c # other[1]
      BY <1>5, <2>6 DEF StopCell, c
    <3>2. pc = "send" => current # <<c, e>>
      BY <2>6, <3>1
    <3>3. <<c, e>> \in todo => <<c, e>> \in todo'
      BY <2>6, <3>1 DEF StopCell
    <3> QED BY <2>5, <3>1, <3>2, <3>3
  <2>7. ASSUME NEW other \in Jobs, NEW label \in Labels, SaveDay(other, label)
        PROVE  \/ e < OldestBacklogDay' \/ <<c, e>> \in todo'
               \/ pc' = "send" /\ current' = <<c, e>>
    <3>1. pc = "days" /\ pc' = "send" /\ current' = other /\ todo' = todo \ {other}
      BY <2>7 DEF SaveDay
    <3> QED BY <1>5, <2>5, <3>1
  <2>8. CASE SendDay
    <3>1. pc = "send" /\ todo' = todo /\ Land(RecordOf(current)) /\ RecordOf(current) \in Transactions
      BY <1>0, <2>8, RecordsAreTransactions DEF SendDay
    <3>2. chain'[current[1]].last = current[2]
      BY <1>0, <3>1, LandReads DEF RecordOf
    <3>3. current # <<c, e>>
      BY <2>2, <2>3, <3>2
    <3> QED BY <1>5, <2>5, <3>1, <3>3
  <2>9. CASE UNCHANGED todo /\ (pc = "send" => pc' = "send" /\ current' = current)
    BY <1>5, <2>5, <2>9
  <2> QED BY <1>5, <2>4, <2>6, <2>7, <2>8, <2>9, TodoSteps
<1> QED BY <1>3, <1>4, <1>5 DEF SentInOrder

-----------------------------------------------------------------------------
(* Before the first cycle everything is empty, and agrees.                 *)
LEMMA InvInit == Init => Inv
<1> SUFFICES ASSUME Init PROVE Inv
  OBVIOUS
<1>1. TypeOK
  BY TypeInit
<1>2. LogsAgree
  <2> SUFFICES ASSUME NEW c \in CellIds PROVE LogAgrees(c)
    BY DEF LogsAgree
  <2>1. /\ chain[c] = EmptyCell /\ today = 0
        /\ published[c] = [d \in Days |-> Unpublished]
    BY DEF Init
  <2>2. chain[c].first = 0 /\ chain[c].last = NoDay
    BY <2>1 DEF EmptyCell
  <2>3. \A d \in chain[c].first .. chain[c].last : FALSE
    BY <2>2 DEF NoDay
  <2> QED BY <2>1, <2>2, <2>3, EmptyCellWellFormed DEF LogAgrees, NoDay
<1>3. WrittenInOrder /\ SentInOrder
  BY DEF Init, WrittenInOrder, SentInOrder
<1>4. RowsExplainTheChain
  BY DEF Init, RowsExplainTheChain, Signed, NoRow
<1> QED BY <1>1, <1>2, <1>3, <1>4 DEF Inv

(* The parts of the invariant are kept together by every step.             *)
LEMMA InvStep == Inv /\ [Next]_vars => Inv'
BY TypeInv, LogInv, OrderInv, RowsInv, SentInv DEF Inv

(* The inductive invariant holds of every state the worker reaches.        *)
THEOREM Invariance == Spec => []Inv
BY InvInit, InvStep, PTL DEF Spec

(* The worker's state keeps its types, for every network and every clock.  *)
THEOREM TypeCorrect == Spec => []TypeOK
<1>1. Inv => TypeOK
  BY DEF Inv
<1> QED BY <1>1, Invariance, PTL

(* Whatever crashes, fails or lands late, a record on chain has a row, and *)
(* a signed row has the label that is on chain: closeCellDay's order of    *)
(* row, transaction and signature.                                         *)
THEOREM RowsExplain == Spec => []RowsExplainTheChain
<1>1. Inv => RowsExplainTheChain
  BY DEF Inv
<1> QED BY <1>1, Invariance, PTL

(* A record passes over no day that closeDueDays would still have closed:  *)
(* neither the worker's own nor one that lands after its answer was lost.  *)
THEOREM SkipsOld == Spec => SkipsOnlyOldDays
<1>1. ASSUME Inv, [Next]_vars, NEW c \in CellIds,
             NEW e \in chain[c].last + 1 .. chain'[c].last - 1
      PROVE  e < OldestBacklogDay
  <2>1. TypeOK /\ LogsAgree /\ SentInOrder
    BY <1>1 DEF Inv
  <2>2. chain[c].last \in Int /\ chain'[c].last \in Int
    BY <1>1, PublishedStays
  <2>3. ASSUME NEW tx \in Transactions, Land(tx), Follows(tx.cell, tx.day)
        PROVE  e < OldestBacklogDay
    <3>1. chain'[tx.cell].last = tx.day
      BY <2>1, <2>3, LandReads
    <3>2. CASE c = tx.cell
      BY <2>3, <3>1, <3>2 DEF Follows
    <3>3. CASE c # tx.cell
      <4>1. chain'[c] = chain[c]
        BY <2>1, <2>3, <3>3, LandReads
      <4> QED BY <2>2, <4>1
    <3> QED BY <3>2, <3>3
  <2>4. CASE UNCHANGED <<chain, published>>
    BY <2>2, <2>4
  <2>5. CASE SendDay /\ RecordOf(current) \in Transactions
    <3>1. /\ Land(RecordOf(current)) /\ Follows(current[1], current[2])
          /\ RecordOf(current).cell = current[1] /\ RecordOf(current).day = current[2]
      BY <2>1, <2>5 DEF SendDay, SentInOrder, RecordOf
    <3> QED BY <2>3, <2>5, <3>1
  <2>6. ASSUME NEW tx \in flight, FlightLands(tx) PROVE e < OldestBacklogDay
    BY <2>1, <2>3, <2>6 DEF TypeOK, FlightLands, SentInOrder
  <2> QED BY <1>1, <2>4, <2>5, <2>6, ChainSteps
<1>2. Inv /\ [Next]_vars =>
        [\A c \in CellIds :
           \A d \in chain[c].last + 1 .. chain'[c].last - 1 : d < OldestBacklogDay]_vars
  BY <1>1
<1> QED BY <1>2, Invariance, PTL DEF Spec, SkipsOnlyOldDays

(* In the window, what the chain answers dry for is a signed dry row.      *)
LEMMA ClosureIsGranted ==
  ASSUME Inv, NEW p \in PolicyIds, policy[p] = "Active",
         WindowIsFinished(p), ~SeesEvent(p), chain[Cover[p].cell].first <= Cover[p].start
  PROVE  MayClose(p)
<1> DEFINE c     == Cover[p].cell
           start == Cover[p].start
           end   == Cover[p].end
<1>1. /\ c \in CellIds /\ start \in Nat /\ end \in Nat /\ MaxDay \in Nat /\ end \in 0 .. MaxDay
      /\ Cover[p].threshold \in Nat
  BY WorkerAssumption DEF Days
<1>2. TypeOK /\ LogsAgree /\ RowsExplainTheChain
  BY DEF Inv
<1>3. chain[c].first \in Nat /\ chain[c].last \in Int /\ chain[c].first <= start
  BY <1>1, <1>2 DEF TypeOK, Cells, NoDay
<1>4. ASSUME NEW d \in start .. end
      PROVE  /\ d \in Days /\ d \in chain[c].first .. chain[c].last
             /\ HoldsDay(chain[c], d)
             /\ d \in DryDays(chain[c]) => d \in DryRows(c)
  <2>1. d \in Days /\ d \in Nat /\ Signed(c, d)
    BY <1>1, <1>4 DEF WindowIsFinished, Days
  <2>2. published[c][d] = rows[c][d].label /\ HasRow(c, d)
    BY <1>1, <1>2, <2>1 DEF RowsExplainTheChain, Signed, HasRow, NoRow
  <2>3. published[c][d] # Unpublished
    BY <1>1, <1>2, <2>1, <2>2, RowsHaveLabels DEF DayStates, Unpublished
  <2>4. d <= chain[c].last
    BY <1>1, <1>2, <2>1, <2>3 DEF LogsAgree, LogAgrees
  <2>5. d \in chain[c].first .. chain[c].last
    BY <1>1, <1>3, <2>1, <2>4
  <2>6. HoldsDay(chain[c], d)
    BY <1>1, <1>3, <2>1, <2>4 DEF HoldsDay, NoDay
  <2>7. DayStateOf(chain[c], d) = published[c][d]
    BY <1>1, <1>2, <2>3, <2>5 DEF LogsAgree, LogAgrees
  <2> QED BY <2>1, <2>2, <2>5, <2>6, <2>7 DEF DryDays, DryRows
<1>5. ~EventHappened(p)
  <2> SUFFICES ASSUME EventHappened(p) PROVE SeesEvent(p)
    OBVIOUS
  <2> DEFINE n == Cover[p].threshold
  <2>1. PICK d \in start .. end : d + n - 1 <= end /\ d .. d + n - 1 \subseteq DryDays(chain[c])
    BY DEF EventHappened, HasDrySpell
  <2>2. d .. d + n - 1 \subseteq start .. end
    BY <1>1, <2>1
  <2>3. d .. d + n - 1 \subseteq DryRows(c)
    BY <1>4, <2>1, <2>2
  <2> QED BY <2>1, <2>3 DEF SeesEvent, HasDrySpell
<1>6. WindowComplete(p)
  BY <1>4 DEF WindowComplete, IsComplete
<1> QED BY <1>5, <1>6 DEF MayClose

(* A closure that closeFinishedWindows asks for is one the program grants  *)
(* while the ring holds the window: the signatures it asks for make the    *)
(* worker's rows as good as the chain's log.                               *)
THEOREM ClosuresGranted == Spec => []ClosuresAreNotInVain
<1>1. Inv => ClosuresAreNotInVain
  <2> SUFFICES ASSUME Inv, NEW p \in looking, pc = "close", WorthACall(p), policy[p] = "Active",
                      chain[Cover[p].cell].first <= Cover[p].start
               PROVE  MayClose(p)
    BY DEF ClosuresAreNotInVain
  <2>1. p \in PolicyIds
    BY DEF Inv, TypeOK
  <2>2. WindowIsFinished(p) /\ ~SeesEvent(p)
    BY DEF WorthACall
  <2> QED BY <2>1, <2>2, ClosureIsGranted
<1> QED BY <1>1, Invariance, PTL

-----------------------------------------------------------------------------
(***************************************************************************)
(* No day is lost.  The log has no gap the backlog still reaches, and a    *)
(* cycle without a fault sees the oldest open day of every cell published. *)
(* Without any fault it sees all of them published, because nothing is     *)
(* published that is not signed in the same cycle.  A cell is kept from    *)
(* its days only by a transaction in flight, a day published and not yet   *)
(* signed, or a failure in this cycle: each of them is one fault's doing.  *)
(***************************************************************************)
Published(c, d) == published[c][d] # Unpublished

InHand(c, d) == <<c, d>> \in todo \/ (pc = "send" /\ current = <<c, d>>)

Due(c, d) == Published(c, d) \/ InHand(c, d)

NoGaps ==
  \A c \in CellIds, d \in Days : d <= chain[c].last /\ OldestBacklogDay <= d => Published(c, d)

(* What is left to do is over, and reachable while the cycle is clean. *)
JobsFine ==
  /\ todo # {} => pc \in {"days", "send", "mark"}
  /\ \A job \in todo : job[2] < today /\ (~dirty => OldestBacklogDay <= job[2])
  /\ pc = "send" => current[2] < today /\ (~dirty => OldestBacklogDay <= current[2])
  /\ pc \in {"send", "mark"} => ~Signed(current[1], current[2])

(* A cycle a day is enough for the oldest day, whatever else fails. *)
KeptUp    == missed = 0 => \A c \in CellIds, d \in Days : d < OldestBacklogDay => Published(c, d)
SweptFine == today > 0 /\ swept => \A c \in CellIds : Published(c, OldestBacklogDay)
CleanFine == today > 0 /\ ~dirty /\ pc # "idle" => \A c \in CellIds : Due(c, OldestBacklogDay)

(* Without a fault every day is written, landed and signed in one go. *)
InOneGo ==
  faults = 0 =>
    /\ flight = {}
    /\ \A c \in CellIds, d \in Days : Published(c, d) /\ ~Signed(c, d) => pc = "mark" /\ current = <<c, d>>
    /\ \A job \in todo : /\ chain[job[1]].last < job[2]
                         /\ pc = "send" /\ job[1] = current[1] => current[2] < job[2]
    /\ pc = "send" => chain[current[1]].last < current[2]

(* So no day but those of the days missed, and of today's, is open. *)
AllCaughtUp ==
  faults = 0 /\ missed < Backlog =>
    \A c \in CellIds, d \in Days :
      /\ d + 1 + missed < today => Published(c, d)
      /\ swept /\ d < today => Published(c, d)
      /\ ~dirty /\ pc # "idle" /\ d < today => Due(c, d)

(* A cell the cycle will not bring up to date: to yesterday, or, until a   *)
(* clean cycle has ended today, to the day before.                         *)
LastAwaited == IF swept THEN today - 1 ELSE today - 2
Stopped(c)  == pc # "idle" /\ \E d \in OldestBacklogDay .. LastAwaited : ~Due(c, d)

Unfinished(c) == \E d \in Days : Published(c, d) /\ ~Signed(c, d) /\ ~(pc = "mark" /\ current = <<c, d>>)
InFlight(c)   == \E tx \in flight : tx.cell = c

Blame(c)  == Stopped(c) \/ Unfinished(c) \/ InFlight(c)
Blamed    == {c \in CellIds : Blame(c)}
BlameFine == missed = 0 => IsFiniteSet(Blamed) /\ Cardinality(Blamed) <= faults

KeepsUp == Inv /\ NoGaps /\ JobsFine /\ KeptUp /\ SweptFine /\ CleanFine /\ InOneGo /\ AllCaughtUp /\ BlameFine

(***************************************************************************)
(* The steps, by what they do to the days.                                 *)
(***************************************************************************)

(* The cycle goes on, or somebody else does something: no day is touched. *)
MovesOn ==
  /\ UNCHANGED <<chain, published, rows, todo, current, today, tally>>
  /\ flight' \subseteq flight
  /\ \/ pc' = pc
     \/ pc = "days" /\ todo = {} /\ pc' = "settle"
     \/ pc = "settle" /\ pc' = "close"

(* A fault at cell c: it loses its turn, perhaps with a transaction on its *)
(* way, or everything in memory is lost.                                   *)
Faulted(c) ==
  /\ Fault
  /\ UNCHANGED <<chain, published, rows, today>>
  /\ \A tx \in flight' : tx \in flight \/ tx.cell = c
  /\ pc \in {"send", "mark"} => c = current[1]
  /\ pc' \notin {"send", "mark"} /\ todo' \subseteq todo
  /\ \/ pc' = "idle" /\ todo' = {}
     \/ pc \in {"days", "send", "mark"} /\ pc' = "days" /\ \A job \in todo : job \in todo' \/ job[1] = c
     \/ pc' = pc /\ pc # "idle" /\ todo' = todo

LEMMA DaySteps ==
  ASSUME [Next]_vars
  PROVE  \/ StartCycle
         \/ \E job \in Jobs, label \in Labels : SaveDay(job, label)
         \/ SendDay
         \/ SendRefused
         \/ MarkDaySubmitted
         \/ MovesOn
         \/ CycleDone
         \/ \E c : Faulted(c)
         \/ Tick
         \/ \E tx \in flight : FlightLands(tx)
<1>1. ASSUME NEW job \in Jobs, SaveFails(job) PROVE Faulted(job[1])
  BY <1>1 DEF SaveFails, Faulted, StopCell, world
<1>2. ASSUME SendFails PROVE Faulted(current[1])
  BY <1>2 DEF SendFails, Faulted, StopCell, RecordOf
<1>3. ASSUME MarkFails PROVE Faulted(current[1])
  BY <1>3 DEF MarkFails, Faulted, StopCell, world
<1>4. ASSUME NEW p \in PolicyIds, DispatchFails(p) PROVE Faulted(0)
  BY <1>4 DEF DispatchFails, Faulted, world
<1>5. ASSUME Crash PROVE Faulted(current[1])
  BY <1>5 DEF Crash, Faulted, RecordOf
<1>6. FaultStep => \E c : Faulted(c)
  BY <1>1, <1>2, <1>3, <1>4, <1>5 DEF FaultStep
<1>7. ASSUME \/ DaysDone \/ SettleDone
             \/ \E c \in CellIds : OpenPolicies(c)
             \/ \E p \in PolicyIds : Dispatch(p) \/ SomeoneElseActs(p)
             \/ \E tx \in flight : FlightEnds(tx)
             \/ UNCHANGED vars
      PROVE  MovesOn
  BY <1>7 DEF MovesOn, DaysDone, SettleDone, OpenPolicies, Dispatch, SomeoneElseActs, FlightEnds, vars, world, memory
<1> QED BY <1>6, <1>7 DEF Next, WorkerStep

(* What is published stays so, and what is published anew is what landed.  *)
LEMMA PublishedKeeps ==
  ASSUME Inv, [Next]_vars, NEW c \in CellIds, NEW d \in Days
  PROVE  Published(c, d) => Published(c, d)'
BY PublishedStays DEF Published

LEMMA LandPublishes ==
  ASSUME Inv, NEW tx \in Transactions, Land(tx), NEW c \in CellIds, NEW d \in Days
  PROVE  Published(c, d)' <=> Published(c, d) \/ <<c, d>> = <<tx.cell, tx.day>>
<1>1. TypeOK /\ LogsAgree /\ tx.cell \in CellIds /\ tx.day \in Days /\ tx.label \in DayStates
  BY DEF Inv, Transactions
<1>2. published' = [published EXCEPT ![tx.cell][tx.day] = tx.label]
  BY <1>1, LandReads
<1>3. tx.label # Unpublished
  BY <1>1 DEF DayStates, Unpublished
<1>4. CASE c = tx.cell /\ d = tx.day
  BY <1>1, <1>2, <1>3, <1>4 DEF Published, TypeOK
<1>5. CASE ~(c = tx.cell /\ d = tx.day)
  BY <1>1, <1>2, <1>5 DEF Published, TypeOK
<1> QED BY <1>4, <1>5

(* A signature stays, and markDaySubmitted signs the current day.          *)
LEMMA SignaturesStay ==
  ASSUME Inv, [Next]_vars, NEW c \in CellIds, NEW d \in Days
  PROVE  /\ Signed(c, d) => Signed(c, d)'
         /\ MarkDaySubmitted /\ current = <<c, d>> => Signed(c, d)'
<1>0. TypeOK
  BY DEF Inv
<1>1. ASSUME NEW job \in Jobs, NEW label \in Labels, SaveDay(job, label) PROVE Signed(c, d) => Signed(c, d)'
  <2>1. ~Signed(job[1], job[2])
        /\ rows' = [rows EXCEPT ![job[1]][job[2]] = [label |-> label, signed |-> FALSE]]
    BY <1>1 DEF SaveDay
  <2> QED BY <1>0, <2>1, JobsAreCellsAndDays DEF TypeOK, Signed
<1>2. ASSUME MarkDaySubmitted PROVE Signed(c, d) \/ current = <<c, d>> => Signed(c, d)'
  <2>1. pc = "mark" /\ rows' = [rows EXCEPT ![current[1]][current[2]].signed = TRUE]
    BY <1>2 DEF MarkDaySubmitted
  <2>2. current[1] \in CellIds /\ current[2] \in Days /\ current = <<current[1], current[2]>>
        /\ HasRow(current[1], current[2])
    BY <1>0, <2>1, JobsAreCellsAndDays DEF Inv, TypeOK, WrittenInOrder
  <2> DEFINE row == [rows[current[1]][current[2]] EXCEPT !.signed = TRUE]
  <2>3. row.signed = TRUE
    <3>1. rows[current[1]][current[2]] \in Rows
      BY <1>0, <2>2, RowsHaveLabels
    <3> QED BY <3>1 DEF Rows
  <2>4. rows' = [rows EXCEPT ![current[1]][current[2]] = row]
    BY <2>1
  <2> HIDE DEF row
  <2>5. CASE current = <<c, d>>
    <3>1. rows'[c][d] = row
      BY <1>0, <2>2, <2>4, <2>5 DEF TypeOK
    <3> QED BY <2>3, <2>5, <3>1 DEF Signed
  <2>6. CASE current # <<c, d>>
    <3>1. rows'[c][d] = rows[c][d]
      BY <1>0, <2>2, <2>4, <2>6 DEF TypeOK
    <3> QED BY <2>6, <3>1 DEF Signed
  <2> QED BY <2>5, <2>6
<1>3. UNCHANGED rows => (Signed(c, d) => Signed(c, d)')
  BY DEF Signed
<1> QED BY <1>1, <1>2, <1>3, DaySteps
       DEF StartCycle, SendDay, SendRefused, MovesOn, CycleDone, Faulted, Tick, FlightLands

(* What the worker sends is of the current day, and lands as that.         *)
LEMMA SendLands ==
  ASSUME Inv, SendDay
  PROVE  /\ RecordOf(current) \in Transactions /\ Land(RecordOf(current))
         /\ current \in Jobs /\ current = <<current[1], current[2]>>
         /\ RecordOf(current).cell = current[1] /\ RecordOf(current).day = current[2]
         /\ current[1] \in CellIds /\ current[2] \in Days
         /\ \A c \in CellIds, d \in Days : Published(c, d)' <=> Published(c, d) \/ <<c, d>> = current
         /\ \A c \in CellIds : chain'[c].last = IF c = current[1] THEN current[2] ELSE chain[c].last
<1>1. TypeOK /\ LogsAgree /\ WrittenInOrder /\ pc = "send" /\ Land(RecordOf(current)) /\ current \in Jobs
  BY DEF Inv, SendDay, TypeOK
<1>2. RecordOf(current) \in Transactions
  BY <1>1, RecordsAreTransactions
<1>3. RecordOf(current).cell = current[1] /\ RecordOf(current).day = current[2]
  BY DEF RecordOf
<1>4. current[1] \in CellIds /\ current[2] \in Days /\ current = <<current[1], current[2]>>
  BY <1>1, JobsAreCellsAndDays
<1>5. \A c \in CellIds, d \in Days : Published(c, d)' <=> Published(c, d) \/ <<c, d>> = current
  BY <1>1, <1>2, <1>3, <1>4, LandPublishes
<1>6. \A c \in CellIds : chain'[c].last = IF c = current[1] THEN current[2] ELSE chain[c].last
  <2>1. PICK tx \in Transactions : tx = RecordOf(current)
    BY <1>2
  <2>2. tx.cell = current[1] /\ tx.day = current[2] /\ Land(tx)
    BY <1>1, <1>3, <2>1
  <2>3. chain'[tx.cell].last = tx.day /\ \A c \in CellIds \ {tx.cell} : chain'[c] = chain[c]
    BY <1>1, <2>2, LandReads
  <2> QED BY <2>2, <2>3
<1> QED BY <1>1, <1>2, <1>3, <1>4, <1>5, <1>6

(* A record passes over nothing the backlog reaches, so the log has no gap *)
(* there.                                                                  *)
LEMMA GapsStep == Inv /\ NoGaps /\ [Next]_vars => NoGaps'
<1> SUFFICES ASSUME Inv, NoGaps, [Next]_vars, NEW c \in CellIds, NEW d \in Days,
                    d <= chain'[c].last, OldestBacklogDay' <= d
             PROVE  Published(c, d)'
  BY DEF NoGaps
<1>1. TypeOK /\ LogsAgree /\ SentInOrder
  BY DEF Inv
<1>2. /\ chain[c].last \in Int /\ chain'[c].last \in Int /\ d \in Nat
      /\ OldestBacklogDay \in Nat /\ OldestBacklogDay' \in Nat /\ OldestBacklogDay <= OldestBacklogDay'
  BY <1>1, PublishedStays, BacklogMovesForwards, WorkerAssumption DEF Days
<1>3. CASE d <= chain[c].last
  BY <1>2, <1>3, PublishedKeeps DEF NoGaps
<1>4. ASSUME NEW tx \in Transactions, Land(tx), Follows(tx.cell, tx.day), d > chain[c].last
      PROVE  Published(c, d)'
  <2>1. c = tx.cell
    <3>1. c # tx.cell => chain'[c] = chain[c]
      BY <1>1, <1>4, LandReads
    <3> QED BY <1>2, <1>4, <3>1
  <2>2. chain'[c].last = tx.day /\ tx.day \in Nat
    BY <1>1, <1>4, <2>1, LandReads
  <2>3. d = tx.day
    BY <1>2, <1>4, <2>1, <2>2 DEF Follows
  <2> QED BY <1>4, <2>1, <2>3, LandPublishes
<1>5. CASE UNCHANGED <<chain, published>>
  BY <1>3, <1>5
<1>6. CASE SendDay /\ RecordOf(current) \in Transactions
  <2>1. Land(RecordOf(current)) /\ Follows(RecordOf(current).cell, RecordOf(current).day)
    BY <1>1, <1>6 DEF SendDay, SentInOrder, RecordOf
  <2> QED BY <1>2, <1>3, <1>4, <1>6, <2>1
<1>7. ASSUME NEW tx \in flight, FlightLands(tx) PROVE Published(c, d)'
  <2>1. tx \in Transactions /\ Land(tx) /\ Follows(tx.cell, tx.day)
    BY <1>1, <1>7 DEF TypeOK, FlightLands, SentInOrder
  <2> QED BY <1>2, <1>3, <1>4, <2>1
<1> QED BY <1>5, <1>6, <1>7, ChainSteps

(* The types of what the days are counted with. *)
LEMMA Counts ==
  ASSUME Inv
  PROVE  /\ today \in Nat /\ missed \in Nat /\ faults \in Nat /\ Backlog \in Nat \ {0}
         /\ dirty \in BOOLEAN /\ swept \in BOOLEAN
         /\ OldestBacklogDay \in Days /\ OldestBacklogDay \in Nat /\ OldestBacklogDay <= today
         /\ today > 0 => OldestBacklogDay < today
         /\ \A d \in Days : d < OldestBacklogDay => d + Backlog < today
<1>1. TypeOK /\ MaxDay \in Nat /\ MaxFaults \in Nat /\ MaxMissed \in Nat /\ Backlog \in Nat \ {0}
  BY WorkerAssumption DEF Inv
<1>2. today \in 0 .. MaxDay /\ missed \in Nat /\ faults \in Nat /\ dirty \in BOOLEAN /\ swept \in BOOLEAN
  BY <1>1 DEF TypeOK, Days
<1> QED BY <1>1, <1>2 DEF OldestBacklogDay, Days

(* A cycle begins with every open day in hand. *)
LEMMA StartHoldsAll ==
  ASSUME Inv, StartCycle, NEW c \in CellIds, NEW d \in Days, OldestBacklogDay <= d, d < today
  PROVE  Due(c, d)'
<1>1. todo' = OpenDays /\ UNCHANGED <<chain, published, rows, today>>
  BY DEF StartCycle, world
<1>2. TypeOK /\ RowsExplainTheChain /\ today \in Nat /\ OldestBacklogDay \in Nat /\ d \in Nat
  BY Counts, WorkerAssumption DEF Inv, Days
<1>3. CASE Signed(c, d)
  <2>1. published[c][d] = rows[c][d].label /\ HasRow(c, d)
    BY <1>2, <1>3 DEF RowsExplainTheChain, Signed, HasRow, NoRow
  <2>2. Published(c, d)
    BY <1>2, <2>1, RowsHaveLabels DEF Published, DayStates, Unpublished
  <2> QED BY <1>1, <2>2 DEF Due, Published
<1>4. CASE ~Signed(c, d)
  <2>1. <<c, d>> \in OpenDays
    BY <1>2, <1>4 DEF OpenDays, Jobs
  <2> QED BY <1>1, <2>1 DEF Due, InHand
<1> QED BY <1>3, <1>4

(* What is left to do stays over, and is dropped when the cycle is.        *)
LEMMA JobsStep == Inv /\ JobsFine /\ [Next]_vars => JobsFine'
<1> SUFFICES ASSUME Inv, JobsFine, [Next]_vars PROVE JobsFine'
  OBVIOUS
<1>0. TypeOK /\ today \in Nat
  BY Counts DEF Inv
<1>1. UNCHANGED today => OldestBacklogDay' = OldestBacklogDay
  BY DEF OldestBacklogDay
<1>2. ASSUME StartCycle PROVE JobsFine'
  <2>1. todo' = OpenDays /\ pc' = "days" /\ UNCHANGED today
    BY <1>2 DEF StartCycle
  <2>2. \A job \in OpenDays : job[2] < today /\ OldestBacklogDay <= job[2]
    <3> SUFFICES ASSUME NEW job \in OpenDays PROVE job[2] < today /\ OldestBacklogDay <= job[2]
      OBVIOUS
    <3>1. job[2] \in OldestBacklogDay .. today - 1 /\ OldestBacklogDay \in Nat
      BY Counts DEF OpenDays
    <3> QED BY <1>0, <3>1
  <2> QED BY <1>1, <2>1, <2>2 DEF JobsFine
<1>3. ASSUME NEW job \in Jobs, NEW label \in Labels, SaveDay(job, label) PROVE JobsFine'
  <2>1. /\ pc' = "send" /\ current' = job /\ todo' = todo \ {job} /\ job \in todo
        /\ UNCHANGED <<today, dirty>>
        /\ rows' = [rows EXCEPT ![job[1]][job[2]] = [label |-> label, signed |-> FALSE]]
    BY <1>3 DEF SaveDay, IsNext, tally
  <2>2. ~Signed(job[1], job[2])'
    BY <1>0, <2>1, JobsAreCellsAndDays DEF TypeOK, Signed
  <2> QED BY <1>1, <2>1, <2>2 DEF JobsFine, Signed
<1>4. ASSUME SendDay PROVE JobsFine'
  BY <1>1, <1>4 DEF SendDay, JobsFine, Signed, tally
<1>5. ASSUME SendRefused PROVE JobsFine'
  BY <1>1, <1>5 DEF SendRefused, StopCell, JobsFine, tally
<1>6. ASSUME MarkDaySubmitted PROVE JobsFine'
  BY <1>1, <1>6 DEF MarkDaySubmitted, JobsFine, tally
<1>7. ASSUME MovesOn PROVE JobsFine'
  BY <1>1, <1>7 DEF MovesOn, JobsFine, Signed, tally
<1>8. ASSUME CycleDone PROVE JobsFine'
  BY <1>1, <1>8 DEF CycleDone, JobsFine
<1>9. ASSUME NEW c, Faulted(c) PROVE JobsFine'
  BY <1>1, <1>9 DEF Faulted, Fault, JobsFine
<1>10. ASSUME Tick PROVE JobsFine'
  <2>1. today' = today + 1 /\ UNCHANGED <<rows, todo, pc, current>> /\ dirty' = (pc # "idle")
    BY <1>10 DEF Tick, memory
  <2>2. \A job \in todo : job[2] < today' /\ dirty'
    <3>1. \A job \in todo : job[2] < today /\ job[2] \in Nat
      BY <1>0, JobsAreCellsAndDays DEF JobsFine, TypeOK
    <3>2. todo # {} => dirty'
      BY <2>1 DEF JobsFine
    <3> QED BY <1>0, <2>1, <3>1, <3>2
  <2>3. pc = "send" => current[2] < today' /\ dirty'
    <3>1. pc = "send" => current[2] < today /\ current[2] \in Nat
      BY <1>0, JobsAreCellsAndDays DEF JobsFine, TypeOK
    <3>2. pc = "send" => dirty'
      BY <2>1
    <3>3. pc = "send" => current[2] < today'
      BY <1>0, <2>1, <3>1
    <3> QED BY <3>2, <3>3
  <2> QED BY <2>1, <2>2, <2>3 DEF JobsFine, Signed
<1>11. ASSUME NEW tx \in flight, FlightLands(tx) PROVE JobsFine'
  BY <1>1, <1>11 DEF FlightLands, JobsFine, Signed, memory, tally
<1> QED BY <1>2, <1>3, <1>4, <1>5, <1>6, <1>7, <1>8, <1>9, <1>10, <1>11, DaySteps

(* A day in hand stays in hand until it is published, but for a fault, a   *)
(* refusal at its cell, and the end and the beginning of a cycle.          *)
LEMMA DueStays ==
  ASSUME Inv, JobsFine, [Next]_vars, NEW c \in CellIds, NEW d \in Days, Due(c, d)
  PROVE  \/ Due(c, d)'
         \/ \E x : Faulted(x) /\ (x = c \/ pc' = "idle")
         \/ SendRefused /\ current[1] = c /\ (current[2] = d \/ <<c, d>> \in todo)
<1>0. Published(c, d) => Due(c, d)'
  BY PublishedKeeps DEF Due
<1> SUFFICES ASSUME InHand(c, d), ~Published(c, d)
             PROVE  \/ Due(c, d)'
                    \/ \E x : Faulted(x) /\ (x = c \/ pc' = "idle")
                    \/ SendRefused /\ current[1] = c /\ (current[2] = d \/ <<c, d>> \in todo)
  BY <1>0 DEF Due
<1>1. pc # "idle"
  BY DEF InHand, JobsFine
<1>2. ASSUME StartCycle PROVE FALSE
  BY <1>1, <1>2 DEF StartCycle
<1>3. ASSUME NEW job \in Jobs, NEW label \in Labels, SaveDay(job, label) PROVE Due(c, d)'
  BY <1>3 DEF SaveDay, Due, InHand
<1>4. ASSUME SendDay PROVE Due(c, d)'
  <2>1. current = <<c, d>> => Published(c, d)'
    BY <1>4, SendLands
  <2>2. todo' = todo
    BY <1>4 DEF SendDay
  <2> QED BY <2>1, <2>2 DEF Due, InHand
<1>5. ASSUME SendRefused PROVE Due(c, d)' \/ (current[1] = c /\ (current[2] = d \/ <<c, d>> \in todo))
  <2>1. pc = "send" /\ todo' = StopCell(current)
    BY <1>5 DEF SendRefused
  <2> QED BY <2>1 DEF Due, InHand, StopCell
<1>6. ASSUME MarkDaySubmitted PROVE Due(c, d)'
  BY <1>6 DEF MarkDaySubmitted, Due, InHand
<1>7. ASSUME MovesOn PROVE Due(c, d)'
  BY <1>7 DEF MovesOn, Due, InHand
<1>8. ASSUME CycleDone PROVE FALSE
  BY <1>8 DEF CycleDone, InHand, JobsFine
<1>9. ASSUME NEW x, Faulted(x) PROVE Due(c, d)' \/ (x = c \/ pc' = "idle")
  BY <1>9 DEF Faulted, Due, InHand
<1>10. ASSUME Tick PROVE Due(c, d)'
  BY <1>10 DEF Tick, memory, Due, InHand
<1>11. ASSUME NEW tx \in flight, FlightLands(tx) PROVE Due(c, d)'
  BY <1>11 DEF FlightLands, memory, Due, InHand
<1> QED BY <1>2, <1>3, <1>4, <1>5, <1>6, <1>7, <1>8, <1>9, <1>10, <1>11, DaySteps

(* A refusal of a day the clock has passed says the log has passed it too. *)
LEMMA RefusedIsBehind ==
  ASSUME Inv, JobsFine, SendRefused
  PROVE  /\ current[1] \in CellIds /\ current[2] \in Days
         /\ current[2] <= chain[current[1]].last
<1>1. TypeOK /\ pc = "send" /\ current \in Jobs /\ ~Takes(RecordOf(current)) /\ current[2] < today
  BY DEF Inv, SendRefused, TypeOK, JobsFine
<1>2. current[1] \in CellIds /\ current[2] \in Days /\ current[2] \in Nat
  BY <1>1, JobsAreCellsAndDays
<1>3. ~(current[2] > chain[current[1]].last)
  BY <1>1 DEF Takes, RecordOf, IsNewer
<1>4. chain[current[1]].last \in Int
  BY <1>1, <1>2 DEF TypeOK, Cells, NoDay
<1> QED BY <1>2, <1>3, <1>4

(***************************************************************************)
(* One cycle a day, without a fault.                                       *)
(***************************************************************************)

(* In a clean cycle the oldest day is published or in hand: a refusal at   *)
(* its cell says the log is past it, and then it is published.             *)
LEMMA CleanStep ==
  Inv /\ NoGaps /\ JobsFine /\ CleanFine /\ [Next]_vars => CleanFine'
<1> SUFFICES ASSUME Inv, NoGaps, JobsFine, CleanFine, [Next]_vars,
                    today' > 0, ~dirty', pc' # "idle", NEW c \in CellIds
             PROVE  Due(c, OldestBacklogDay)'
  BY DEF CleanFine
<1>1. ASSUME StartCycle PROVE Due(c, OldestBacklogDay)'
  <2>1. today' = today /\ OldestBacklogDay' = OldestBacklogDay
    BY <1>1 DEF StartCycle, OldestBacklogDay
  <2>2. OldestBacklogDay \in Days /\ OldestBacklogDay < today /\ OldestBacklogDay \in Nat
    BY <2>1, Counts
  <2>3. OldestBacklogDay <= OldestBacklogDay
    BY <2>2
  <2>4. PICK d \in Days : d = OldestBacklogDay
    BY <2>2
  <2>5. Due(c, d)'
    BY <1>1, <2>2, <2>3, <2>4, StartHoldsAll
  <2> QED BY <2>1, <2>4, <2>5 DEF Due, Published, InHand
<1>2. ASSUME ~StartCycle PROVE Due(c, OldestBacklogDay)'
  <2>1. ~Tick
    BY DEF Tick, memory
  <2>2. \A x : ~Faulted(x)
    BY DEF Faulted, Fault
  <2>3. /\ today' = today /\ OldestBacklogDay' = OldestBacklogDay
        /\ ~dirty /\ pc # "idle"
    <3>1. ~CycleDone
      BY DEF CycleDone
    <3>2. today' = today /\ dirty' = dirty
      BY <1>2, <2>1, <2>2, <3>1, DaySteps
         DEF SaveDay, SendDay, SendRefused, MarkDaySubmitted, MovesOn, FlightLands, tally
    <3>3. pc # "idle"
      BY <1>2, <2>1, <2>2, <3>1, DaySteps
         DEF SaveDay, SendDay, SendRefused, MarkDaySubmitted, MovesOn, FlightLands, memory
    <3> QED BY <3>2, <3>3 DEF OldestBacklogDay
  <2>4. PICK d \in Days : d = OldestBacklogDay
    BY Counts
  <2>5. Due(c, d)
    BY <2>3, <2>4 DEF CleanFine
  <2>6. CASE Due(c, d)'
    BY <2>3, <2>4, <2>6 DEF Due, Published, InHand
  <2>7. CASE SendRefused /\ current[1] = c
    <3>1. current[2] \in Days /\ current[2] <= chain[c].last /\ OldestBacklogDay <= current[2]
      <4>1. pc = "send"
        BY <2>7 DEF SendRefused
      <4> QED BY <2>3, <2>7, <4>1, RefusedIsBehind DEF JobsFine
    <3>2. OldestBacklogDay <= chain[c].last /\ OldestBacklogDay <= OldestBacklogDay
      <4>1. OldestBacklogDay \in Nat /\ current[2] \in Nat /\ chain[c].last \in Int
        BY <3>1, Counts, PublishedStays, WorkerAssumption DEF Days
      <4> QED BY <3>1, <4>1
    <3>3. Published(c, d)
      BY <2>4, <3>2 DEF NoGaps
    <3>4. Published(c, d)'
      BY <3>3, PublishedKeeps
    <3> QED BY <2>3, <2>4, <3>4 DEF Due, Published
  <2> QED BY <2>2, <2>5, <2>6, <2>7, DueStays
<1> QED BY <1>1, <1>2

(* A clean cycle that has ended leaves nothing in hand. *)
LEMMA SweptStep ==
  Inv /\ JobsFine /\ SweptFine /\ CleanFine /\ [Next]_vars => SweptFine'
<1> SUFFICES ASSUME Inv, JobsFine, SweptFine, CleanFine, [Next]_vars, today' > 0, swept', NEW c \in CellIds
             PROVE  Published(c, OldestBacklogDay)'
  BY DEF SweptFine
<1>1. today' = today /\ OldestBacklogDay' = OldestBacklogDay
  <2>1. ~Tick
    BY DEF Tick
  <2>2. today' = today
    BY <2>1, DaySteps
       DEF StartCycle, SaveDay, SendDay, SendRefused, MarkDaySubmitted, MovesOn, CycleDone, Faulted, FlightLands
  <2> QED BY <2>2 DEF OldestBacklogDay
<1>2. PICK d \in Days : d = OldestBacklogDay
  BY Counts
<1>3. CASE swept
  <2>1. Published(c, d)
    BY <1>1, <1>2, <1>3 DEF SweptFine
  <2>2. Published(c, d)'
    BY <2>1, PublishedKeeps
  <2> QED BY <1>1, <1>2, <2>2 DEF Published
<1>4. CASE ~swept
  <2>1. CycleDone
    <3>1. ~Tick
      BY DEF Tick
    <3> QED BY <1>4, <3>1, DaySteps
           DEF StartCycle, SaveDay, SendDay, SendRefused, MarkDaySubmitted, MovesOn, Faulted, Fault, FlightLands, tally
  <2>2. pc = "close" /\ ~dirty
    BY <1>4, <2>1 DEF CycleDone
  <2>3. Due(c, d) /\ ~InHand(c, d)
    BY <1>1, <1>2, <2>2 DEF CleanFine, InHand, JobsFine
  <2>4. Published(c, d)'
    BY <2>3, PublishedKeeps DEF Due
  <2> QED BY <1>1, <1>2, <2>4 DEF Published
<1> QED BY <1>3, <1>4

(* So a day leaves the backlog published, while no day was missed. *)
LEMMA KeptUpStep ==
  Inv /\ KeptUp /\ SweptFine /\ [Next]_vars => KeptUp'
<1> SUFFICES ASSUME Inv, KeptUp, SweptFine, [Next]_vars, missed' = 0,
                    NEW c \in CellIds, NEW d \in Days, d < OldestBacklogDay'
             PROVE  Published(c, d)'
  BY DEF KeptUp
<1>1. CASE ~Tick
  <2>1. today' = today /\ missed' = missed
    BY <1>1, DaySteps
       DEF StartCycle, SaveDay, SendDay, SendRefused, MarkDaySubmitted, MovesOn, CycleDone, Faulted, Fault,
           FlightLands, tally
  <2>2. d < OldestBacklogDay
    BY <2>1 DEF OldestBacklogDay
  <2> QED BY <2>1, <2>2, PublishedKeeps DEF KeptUp
<1>2. CASE Tick
  <2>1. swept /\ missed = 0 /\ today' = today + 1
    <3>1. missed \in Nat
      BY Counts
    <3> QED BY <1>2, <3>1 DEF Tick
  <2>2. /\ today \in Nat /\ Backlog \in Nat \ {0} /\ d \in Nat
        /\ OldestBacklogDay \in Nat /\ OldestBacklogDay' \in Nat
    BY Counts, BacklogMovesForwards, WorkerAssumption DEF Days, Inv
  <2>3. today > 0 /\ d <= OldestBacklogDay
    BY <2>1, <2>2 DEF OldestBacklogDay
  <2>4. CASE d < OldestBacklogDay
    BY <2>1, <2>4, PublishedKeeps DEF KeptUp
  <2>5. CASE d = OldestBacklogDay
    BY <2>1, <2>3, <2>5, PublishedKeeps DEF SweptFine
  <2> QED BY <2>2, <2>3, <2>4, <2>5
<1> QED BY <1>1, <1>2

(***************************************************************************)
(* No fault at all, and fewer days missed than the backlog has.            *)
(***************************************************************************)

(* Without a fault nothing is refused, and nothing is left unsigned. *)
LEMMA InOneGoStep ==
  Inv /\ NoGaps /\ JobsFine /\ InOneGo /\ [Next]_vars => InOneGo'
<1> SUFFICES ASSUME Inv, NoGaps, JobsFine, InOneGo, [Next]_vars, faults' = 0 PROVE InOneGo'
  BY DEF InOneGo
<1>0. TypeOK /\ todo \subseteq Jobs
  BY DEF Inv, TypeOK
<1>1. faults = 0 /\ \A x : ~Faulted(x)
  <2>1. faults \in Nat
    BY Counts
  <2>2. \A x : ~Faulted(x)
    BY <2>1 DEF Faulted, Fault
  <2> QED BY <2>1, <2>2, DaySteps
         DEF StartCycle, SaveDay, SendDay, SendRefused, MarkDaySubmitted, MovesOn, CycleDone, Tick, FlightLands, tally
<1>2. /\ flight = {}
      /\ \A c \in CellIds, d \in Days : Published(c, d) /\ ~Signed(c, d) => pc = "mark" /\ current = <<c, d>>
      /\ \A job \in todo : /\ chain[job[1]].last < job[2]
                           /\ pc = "send" /\ job[1] = current[1] => current[2] < job[2]
      /\ pc = "send" => chain[current[1]].last < current[2]
  BY <1>1 DEF InOneGo
<1>3. ASSUME StartCycle PROVE InOneGo'
  <2>1. pc = "idle" /\ todo' = OpenDays /\ pc' = "days" /\ UNCHANGED <<chain, published, flight, rows>>
    BY <1>3 DEF StartCycle, world
  <2>2. ASSUME NEW job \in OpenDays PROVE chain[job[1]].last < job[2]
    <3>1. /\ job[1] \in CellIds /\ job[2] \in Days /\ job[2] \in Nat /\ ~Signed(job[1], job[2])
          /\ OldestBacklogDay <= job[2]
      <4>1. job \in Jobs /\ job[2] \in OldestBacklogDay .. today - 1 /\ ~Signed(job[1], job[2])
        BY DEF OpenDays
      <4> QED BY <4>1, JobsAreCellsAndDays, Counts
    <3>2. ~Published(job[1], job[2])
      BY <1>2, <2>1, <3>1
    <3>3. chain[job[1]].last \in Int
      BY <3>1, PublishedStays
    <3> QED BY <3>1, <3>2, <3>3 DEF NoGaps
  <2> QED BY <1>2, <2>1, <2>2 DEF InOneGo, Published, Signed
<1>4. ASSUME NEW job \in Jobs, NEW label \in Labels, SaveDay(job, label) PROVE InOneGo'
  <2>1. /\ pc = "days" /\ pc' = "send" /\ current' = job /\ job \in todo /\ todo' = todo \ {job}
        /\ UNCHANGED <<chain, published, flight>> /\ ~Signed(job[1], job[2])
        /\ rows' = [rows EXCEPT ![job[1]][job[2]] = [label |-> label, signed |-> FALSE]]
    BY <1>4 DEF SaveDay, IsNext, world
  <2>2. job[1] \in CellIds /\ job[2] \in Days /\ job[2] \in Nat /\ job = <<job[1], job[2]>>
    BY JobsAreCellsAndDays
  <2>3. \A c \in CellIds, d \in Days : Signed(c, d) => Signed(c, d)'
    BY SignaturesStay
  <2>4. ASSUME NEW other \in todo', other[1] = job[1] PROVE job[2] < other[2]
    <3>1. other[2] \in Nat /\ other = <<other[1], other[2]>> /\ other # job /\ other \in todo /\ job[1] \in Nat
      <4>1. other \in Jobs /\ other # job /\ other \in todo
        BY <1>0, <2>1
      <4> QED BY <4>1, <2>2, JobsAreCellsAndDays, WorkerAssumption
    <3>2. job[1] < other[1] \/ (job[1] = other[1] /\ job[2] <= other[2])
      BY <1>4, <3>1 DEF SaveDay, IsNext
    <3>3. other[2] # job[2]
      BY <2>2, <2>4, <3>1
    <3> QED BY <2>2, <2>4, <3>1, <3>2, <3>3
  <2>5. \A c \in CellIds, d \in Days : Published(c, d)' => Signed(c, d)'
    <3>1. \A c \in CellIds, d \in Days : Published(c, d) => Signed(c, d)
      BY <1>2, <2>1
    <3> QED BY <2>1, <2>3, <3>1 DEF Published
  <2> QED BY <1>2, <2>1, <2>4, <2>5 DEF InOneGo
<1>5. ASSUME SendDay PROVE InOneGo'
  <2>1. pc = "send" /\ pc' = "mark" /\ UNCHANGED <<flight, rows, todo, current>>
    BY <1>5 DEF SendDay
  <2>2. \A c \in CellIds, d \in Days : Published(c, d)' /\ ~Signed(c, d)' => current = <<c, d>>
    BY <1>2, <1>5, <2>1, SendLands DEF Signed
  <2>3. ASSUME NEW job \in todo PROVE chain'[job[1]].last < job[2]
    <3>1. job[1] \in CellIds
      BY <1>0, JobsAreCellsAndDays
    <3> QED BY <1>2, <1>5, <2>1, <3>1, SendLands
  <2> QED BY <1>2, <2>1, <2>2, <2>3 DEF InOneGo
<1>6. ASSUME SendRefused PROVE FALSE
  <2>1. pc = "send"
    BY <1>6 DEF SendRefused
  <2>2. chain[current[1]].last \in Int /\ current[2] \in Nat
    <3>1. current[1] \in CellIds /\ current[2] \in Days
      BY <1>6, RefusedIsBehind
    <3>2. chain[current[1]].last \in Int
      BY <3>1, PublishedStays
    <3>3. current[2] \in Nat
      BY <3>1, WorkerAssumption DEF Days
    <3> QED BY <3>2, <3>3
  <2> QED BY <1>2, <1>6, <2>1, <2>2, RefusedIsBehind
<1>7. ASSUME MarkDaySubmitted PROVE InOneGo'
  <2>1. /\ pc = "mark" /\ pc' = "days" /\ UNCHANGED <<chain, published, flight, todo>>
        /\ rows' = [rows EXCEPT ![current[1]][current[2]].signed = TRUE]
    BY <1>7 DEF MarkDaySubmitted, world
  <2>2. \A c \in CellIds, d \in Days : Signed(c, d) \/ current = <<c, d>> => Signed(c, d)'
    BY <1>7, SignaturesStay
  <2> QED BY <1>2, <2>1, <2>2 DEF InOneGo, Published
<1>8. ASSUME MovesOn PROVE InOneGo'
  <2>1. /\ UNCHANGED <<chain, published, rows, todo, current>> /\ flight' = {}
        /\ (pc' = "send" => pc = "send") /\ (pc = "mark" => pc' = "mark")
    BY <1>2, <1>8 DEF MovesOn
  <2> QED BY <1>2, <2>1 DEF InOneGo, Published, Signed
<1>9. ASSUME CycleDone PROVE InOneGo'
  <2>1. pc = "close" /\ pc' = "idle" /\ UNCHANGED <<chain, published, rows, todo, current, flight>>
    BY <1>9 DEF CycleDone, world
  <2> QED BY <1>2, <2>1 DEF InOneGo, Published, Signed
<1>10. ASSUME Tick PROVE InOneGo'
  <2>1. UNCHANGED <<chain, published, rows, todo, current, flight, pc>>
    BY <1>10 DEF Tick, world, memory
  <2> QED BY <1>2, <2>1 DEF InOneGo, Published, Signed
<1> QED BY <1>1, <1>2, <1>3, <1>4, <1>5, <1>6, <1>7, <1>8, <1>9, <1>10, DaySteps

(* A cycle without a fault catches up with all the backlog holds, and the  *)
(* days missed are fewer than that.                                        *)
LEMMA CaughtUpStep ==
  Inv /\ NoGaps /\ JobsFine /\ InOneGo /\ AllCaughtUp /\ [Next]_vars => AllCaughtUp'
<1> SUFFICES ASSUME Inv, NoGaps, JobsFine, InOneGo, AllCaughtUp, [Next]_vars,
                    faults' = 0, missed' < Backlog, NEW c \in CellIds, NEW d \in Days
             PROVE  /\ d + 1 + missed' < today' => Published(c, d)'
                    /\ swept' /\ d < today' => Published(c, d)'
                    /\ ~dirty' /\ pc' # "idle" /\ d < today' => Due(c, d)'
  <2>1. Backlog' = Backlog
    OBVIOUS
  <2> QED BY DEF AllCaughtUp
<1>0. /\ today \in Nat /\ missed \in Nat /\ faults \in Nat /\ d \in Nat /\ Backlog \in Nat \ {0}
      /\ dirty \in BOOLEAN /\ swept \in BOOLEAN
  BY Counts, WorkerAssumption DEF Days
<1>1. faults = 0 /\ \A x : ~Faulted(x)
  <2>1. \A x : ~Faulted(x)
    BY <1>0 DEF Faulted, Fault
  <2> QED BY <2>1, DaySteps
         DEF StartCycle, SaveDay, SendDay, SendRefused, MarkDaySubmitted, MovesOn, CycleDone, Tick, FlightLands, tally
<1>2. missed < Backlog /\ (missed' = missed \/ missed' = missed + 1)
  <2>1. missed' = missed \/ missed' = missed + 1
    BY <1>1, DaySteps
       DEF StartCycle, SaveDay, SendDay, SendRefused, MarkDaySubmitted, MovesOn, CycleDone, Tick, FlightLands, tally
  <2> QED BY <1>0, <2>1
<1>3. /\ d + 1 + missed < today => Published(c, d)
      /\ swept /\ d < today => Published(c, d)
      /\ ~dirty /\ pc # "idle" /\ d < today => Due(c, d)
  BY <1>1, <1>2 DEF AllCaughtUp
<1>4. Published(c, d) => Published(c, d)'
  BY PublishedKeeps
<1>5. ~SendRefused
  <2> SUFFICES ASSUME SendRefused PROVE FALSE
    OBVIOUS
  <2>1. current[1] \in CellIds /\ current[2] \in Nat /\ current[2] <= chain[current[1]].last /\ pc = "send"
    BY RefusedIsBehind, WorkerAssumption DEF Days, SendRefused
  <2>2. chain[current[1]].last < current[2]
    BY <1>1, <2>1 DEF InOneGo
  <2>3. chain[current[1]].last \in Int
    BY <2>1, PublishedStays
  <2> QED BY <2>1, <2>2, <2>3
<1>6. CASE Tick
  <2>1. today' = today + 1 /\ swept' = FALSE /\ dirty' = (pc # "idle") /\ pc' = pc
    BY <1>6 DEF Tick, memory
  <2>2. ASSUME d + 1 + missed' < today' PROVE Published(c, d)
    <3>1. CASE swept
      <4>1. missed' = missed
        BY <1>6, <3>1 DEF Tick
      <4>2. d < today
        BY <1>0, <2>1, <2>2, <4>1
      <4> QED BY <1>3, <3>1, <4>2
    <3>2. CASE ~swept
      <4>1. missed' = missed + 1
        BY <1>6, <3>2 DEF Tick
      <4>2. d + 1 + missed < today
        BY <1>0, <2>1, <2>2, <4>1
      <4> QED BY <1>3, <4>2
    <3> QED BY <3>1, <3>2
  <2> QED BY <1>4, <2>1, <2>2
<1>7. CASE StartCycle
  <2>1. today' = today /\ missed' = missed /\ swept' = swept
    BY <1>7 DEF StartCycle
  <2>2. ASSUME d < today PROVE Due(c, d)'
    <3>1. CASE OldestBacklogDay <= d
      BY <1>7, <2>2, <3>1, StartHoldsAll
    <3>2. CASE d < OldestBacklogDay
      <4>1. d + Backlog < today
        BY <3>2, Counts
      <4>2. d + 1 + missed < today
        BY <1>0, <1>2, <4>1
      <4> QED BY <1>3, <1>4, <4>2 DEF Due
    <3> QED BY <1>0, <3>1, <3>2, Counts
  <2> QED BY <1>3, <1>4, <2>1, <2>2
<1>8. CASE CycleDone
  <2>1. today' = today /\ missed' = missed /\ (swept' => swept \/ ~dirty) /\ pc' = "idle" /\ pc = "close"
    BY <1>8 DEF CycleDone
  <2>2. ~InHand(c, d)
    BY <2>1 DEF InHand, JobsFine
  <2> QED BY <1>3, <1>4, <2>1, <2>2 DEF Due
<1>9. CASE ~Tick /\ ~StartCycle /\ ~CycleDone
  <2>1. today' = today /\ missed' = missed /\ swept' = swept /\ dirty' = dirty
    BY <1>1, <1>9, DaySteps
       DEF SaveDay, SendDay, SendRefused, MarkDaySubmitted, MovesOn, FlightLands, tally
  <2>2. pc' # "idle" => pc # "idle"
    BY <1>1, <1>9, DaySteps
       DEF SaveDay, SendDay, SendRefused, MarkDaySubmitted, MovesOn, FlightLands, memory
  <2>3. Due(c, d) => Due(c, d)'
    BY <1>1, <1>5, DueStays
  <2> QED BY <1>3, <1>4, <2>1, <2>2, <2>3
<1> QED BY <1>6, <1>7, <1>8, <1>9

(***************************************************************************)
(* Each cell behind is one fault's doing.                                  *)
(***************************************************************************)
(* A fault is to blame for its own cell and for no other. *)
LEMMA FaultBlames ==
  ASSUME Inv, NEW x, Faulted(x), NEW c \in CellIds, c # x, Blame(c)'
  PROVE  Blame(c)
<1>1. /\ UNCHANGED <<chain, published, rows, today, swept>>
      /\ OldestBacklogDay' = OldestBacklogDay /\ LastAwaited' = LastAwaited
      /\ pc' \notin {"send", "mark"}
      /\ pc \in {"send", "mark"} => current[1] # c
  BY DEF Faulted, Fault, OldestBacklogDay, LastAwaited
<1>2. CASE Stopped(c)'
  <2>1. pc' # "idle" /\ \E d \in OldestBacklogDay .. LastAwaited : ~Due(c, d)'
    BY <1>1, <1>2 DEF Stopped
  <2>2. PICK d \in OldestBacklogDay .. LastAwaited : ~Due(c, d)'
    BY <2>1
  <2>3. pc # "idle" /\ (<<c, d>> \in todo => <<c, d>> \in todo')
    BY <2>1 DEF Faulted
  <2>4. ~Due(c, d)
    BY <1>1, <2>2, <2>3 DEF Due, Published, InHand
  <2> QED BY <2>3, <2>4 DEF Blame, Stopped
<1>3. CASE Unfinished(c)'
  BY <1>1, <1>3 DEF Blame, Unfinished, Published, Signed
<1>4. CASE InFlight(c)'
  BY <1>4 DEF Faulted, Blame, InFlight
<1> QED BY <1>2, <1>3, <1>4 DEF Blame

(* A cell the log is past, and whose day is not signed, is blamed already: *)
(* it is the cell of a refusal.                                            *)
LEMMA RefusedIsBlamed ==
  ASSUME Inv, NoGaps, JobsFine, KeptUp, SendRefused, missed = 0
  PROVE  Blame(current[1])
<1>1. current[1] \in CellIds /\ current[2] \in Days /\ current[2] <= chain[current[1]].last
  BY RefusedIsBehind
<1>2. pc = "send" /\ ~Signed(current[1], current[2])
  BY DEF SendRefused, JobsFine
<1>3. Published(current[1], current[2])
  <2>1. OldestBacklogDay \in Nat /\ current[2] \in Nat
    BY <1>1, Counts, WorkerAssumption DEF Days
  <2>2. CASE OldestBacklogDay <= current[2]
    BY <1>1, <2>2 DEF NoGaps
  <2>3. CASE current[2] < OldestBacklogDay
    BY <1>1, <2>3 DEF KeptUp
  <2> QED BY <2>1, <2>2, <2>3
<1> QED BY <1>1, <1>2, <1>3 DEF Blame, Unfinished

(* Nothing else stops a cell, as long as every day has its clean cycle.    *)
LEMMA OthersDoNotBlame ==
  ASSUME Inv, NoGaps, JobsFine, KeptUp, [Next]_vars, \A x : ~Faulted(x), missed' = 0,
         NEW c \in CellIds, Blame(c)'
  PROVE  Blame(c)
<1>0. /\ today \in Nat /\ missed \in Nat /\ OldestBacklogDay \in Nat /\ OldestBacklogDay' \in Nat
      /\ OldestBacklogDay <= OldestBacklogDay'
  BY Counts, BacklogMovesForwards DEF Inv
<1>1. ASSUME ~StartCycle, ~CycleDone PROVE Stopped(c)' => Stopped(c) \/ (SendRefused /\ current[1] = c)
  <2> SUFFICES ASSUME Stopped(c)' PROVE Stopped(c) \/ (SendRefused /\ current[1] = c)
    OBVIOUS
  <2>1. OldestBacklogDay' .. LastAwaited' \subseteq OldestBacklogDay .. LastAwaited
    <3>1. CASE Tick
      <4>1. swept /\ swept' = FALSE /\ today' = today + 1
        BY <1>0, <3>1 DEF Tick
      <4>2. LastAwaited' = LastAwaited /\ LastAwaited \in Int
        BY <1>0, <4>1 DEF LastAwaited
      <4> QED BY <1>0, <4>2
    <3>2. CASE ~Tick
      <4>1. today' = today /\ swept' = swept
        BY <1>1, <3>2, DaySteps
           DEF SaveDay, SendDay, SendRefused, MarkDaySubmitted, MovesOn, FlightLands, tally
      <4> QED BY <4>1 DEF LastAwaited, OldestBacklogDay
    <3> QED BY <3>1, <3>2
  <2>2. PICK d \in OldestBacklogDay' .. LastAwaited' : ~Due(c, d)'
    <3>1. \E d \in OldestBacklogDay' .. LastAwaited' : ~Due(c, d)'
      BY DEF Stopped
    <3> QED BY <3>1
  <2>3. d \in Days
    <3>1. today \in 0 .. MaxDay /\ MaxDay \in Nat /\ LastAwaited \in Int /\ LastAwaited <= today
      BY <1>0, WorkerAssumption DEF Inv, TypeOK, Days, LastAwaited
    <3>2. d \in OldestBacklogDay .. LastAwaited
      BY <2>1
    <3> QED BY <1>0, <3>1, <3>2 DEF Days
  <2>4. pc # "idle"
    <3>1. pc' # "idle"
      BY DEF Stopped
    <3> QED BY <1>1, <3>1, DaySteps
           DEF SaveDay, SendDay, SendRefused, MarkDaySubmitted, MovesOn, FlightLands, Tick, memory
  <2>5. CASE Due(c, d)
    BY <2>2, <2>3, <2>5, DueStays
  <2>6. CASE ~Due(c, d)
    BY <2>1, <2>4, <2>6 DEF Stopped
  <2> QED BY <2>5, <2>6
<1>2. ASSUME UNCHANGED <<published, rows>>, pc = "mark" => pc' = "mark" /\ current' = current
      PROVE  Unfinished(c)' => Unfinished(c)
  BY <1>2 DEF Unfinished, Published, Signed
<1>3. flight' \subseteq flight => (InFlight(c)' => InFlight(c))
  BY DEF InFlight
<1>4. CASE StartCycle
  <2>1. pc = "idle" /\ UNCHANGED <<flight, published, rows, today, swept>>
    BY <1>4 DEF StartCycle, world
  <2>2. ~Stopped(c)'
    <3> SUFFICES ASSUME NEW d \in OldestBacklogDay .. LastAwaited PROVE Due(c, d)'
      <4>1. OldestBacklogDay' = OldestBacklogDay /\ LastAwaited' = LastAwaited
        BY <2>1 DEF OldestBacklogDay, LastAwaited
      <4> QED BY <4>1 DEF Stopped
    <3>1. today \in 0 .. MaxDay /\ MaxDay \in Nat /\ LastAwaited \in Int /\ LastAwaited < today
      BY <1>0, WorkerAssumption DEF Inv, TypeOK, Days, LastAwaited
    <3>2. d \in Days /\ OldestBacklogDay <= d /\ d < today
      BY <1>0, <3>1 DEF Days
    <3> QED BY <1>4, <3>2, StartHoldsAll
  <2> QED BY <1>2, <1>3, <2>1, <2>2 DEF Blame
<1>5. ASSUME NEW job \in Jobs, NEW label \in Labels, SaveDay(job, label) PROVE Blame(c)
  <2>1. pc = "days" /\ UNCHANGED <<published, flight>> /\ ~StartCycle /\ ~CycleDone /\ ~SendRefused
    BY <1>5 DEF SaveDay, world, StartCycle, CycleDone, SendRefused
  <2>2. Unfinished(c)' => Unfinished(c)
    BY <2>1, SignaturesStay DEF Unfinished, Published
  <2> QED BY <1>1, <1>3, <2>1, <2>2 DEF Blame
<1>6. CASE SendDay
  <2>1. pc = "send" /\ pc' = "mark" /\ UNCHANGED <<current, rows, flight>> /\ ~StartCycle /\ ~CycleDone /\ ~SendRefused
    BY <1>6 DEF SendDay, StartCycle, CycleDone, SendRefused
  <2>2. Unfinished(c)' => Unfinished(c)
    BY <1>6, <2>1, SendLands DEF Unfinished, Signed
  <2> QED BY <1>1, <1>3, <2>1, <2>2 DEF Blame
<1>7. CASE SendRefused
  <2>1. pc = "send" /\ UNCHANGED <<published, rows, flight, missed>> /\ ~StartCycle /\ ~CycleDone
    BY <1>7 DEF SendRefused, StartCycle, CycleDone, world, tally
  <2>2. CASE current[1] = c
    BY <1>7, <2>1, <2>2, RefusedIsBlamed
  <2>3. CASE current[1] # c
    BY <1>1, <1>2, <1>3, <2>1, <2>3 DEF Blame
  <2> QED BY <2>2, <2>3
<1>8. CASE MarkDaySubmitted
  <2>1. pc = "mark" /\ UNCHANGED <<published, flight>> /\ ~StartCycle /\ ~CycleDone /\ ~SendRefused
    BY <1>8 DEF MarkDaySubmitted, world, StartCycle, CycleDone, SendRefused
  <2>2. Unfinished(c)' => Unfinished(c)
    BY <1>8, <2>1, SignaturesStay DEF Unfinished, Published
  <2> QED BY <1>1, <1>3, <2>1, <2>2 DEF Blame
<1>9. CASE MovesOn
  <2>1. /\ UNCHANGED <<published, rows, current>> /\ flight' \subseteq flight
        /\ (pc = "mark" => pc' = "mark")
    BY <1>9 DEF MovesOn
  <2>2. CASE StartCycle
    BY <1>4, <2>2
  <2>3. CASE ~StartCycle
    <3>1. ~CycleDone /\ ~SendRefused
      BY <1>9 DEF MovesOn, CycleDone, SendRefused
    <3> QED BY <1>1, <1>2, <1>3, <2>1, <2>3, <3>1 DEF Blame
  <2> QED BY <2>2, <2>3
<1>10. CASE CycleDone
  <2>1. pc = "close" /\ pc' = "idle" /\ UNCHANGED <<flight, published, rows>>
    BY <1>10 DEF CycleDone, world
  <2>2. ~Stopped(c)'
    BY <2>1 DEF Stopped
  <2> QED BY <1>2, <1>3, <2>1, <2>2 DEF Blame
<1>11. CASE Tick
  <2>1. UNCHANGED <<pc, current, flight, published, rows>> /\ ~StartCycle /\ ~CycleDone /\ ~SendRefused
    <3>1. today' # today /\ UNCHANGED <<pc, current, flight, published, rows>>
      BY <1>0, <1>11 DEF Tick, world, memory
    <3> QED BY <3>1 DEF StartCycle, CycleDone, SendRefused
  <2> QED BY <1>1, <1>2, <1>3, <2>1 DEF Blame
<1>12. ASSUME NEW tx \in flight, FlightLands(tx) PROVE Blame(c)
  <2>1. /\ Land(tx) /\ tx \in Transactions /\ flight' \subseteq flight
        /\ UNCHANGED <<pc, todo, current, rows>>
    BY <1>12 DEF FlightLands, memory, Inv, TypeOK
  <2>2. CASE tx.cell = c
    BY <2>2 DEF Blame, InFlight
  <2>3. CASE tx.cell # c
    <3>1. ~StartCycle /\ ~CycleDone /\ ~SendRefused
      BY <2>1 DEF StartCycle, CycleDone, SendRefused
    <3>2. \A d \in Days : Published(c, d)' <=> Published(c, d)
      BY <2>1, <2>3, LandPublishes
    <3>3. Unfinished(c)' => Unfinished(c)
      BY <2>1, <3>2 DEF Unfinished, Signed
    <3> QED BY <1>1, <1>3, <2>1, <3>1, <3>3 DEF Blame
  <2> QED BY <2>2, <2>3
<1> QED BY <1>4, <1>5, <1>6, <1>7, <1>8, <1>9, <1>10, <1>11, <1>12, DaySteps

(* So there are no more cells to blame than there were faults.             *)
LEMMA BlameStep ==
  Inv /\ NoGaps /\ JobsFine /\ KeptUp /\ BlameFine /\ [Next]_vars => BlameFine'
<1> SUFFICES ASSUME Inv, NoGaps, JobsFine, KeptUp, BlameFine, [Next]_vars, missed' = 0
             PROVE  IsFiniteSet(Blamed') /\ Cardinality(Blamed') <= faults'
  BY DEF BlameFine
<1>1. missed = 0
  <2>1. missed' = missed \/ missed' = missed + 1
    BY DaySteps
       DEF StartCycle, SaveDay, SendDay, SendRefused, MarkDaySubmitted, MovesOn, CycleDone, Faulted, Fault, Tick,
           FlightLands, tally
  <2> QED BY <2>1, Counts
<1>2. IsFiniteSet(Blamed) /\ Cardinality(Blamed) <= faults /\ Cardinality(Blamed) \in Nat /\ faults \in Nat
  BY <1>1, Counts, FS_CardinalityType DEF BlameFine
<1>3. ASSUME NEW x, Faulted(x)
      PROVE  IsFiniteSet(Blamed') /\ Cardinality(Blamed') <= faults'
  <2>1. faults' = faults + 1
    BY <1>3 DEF Faulted, Fault
  <2>2. Blamed' \subseteq Blamed \cup {x}
    BY <1>3, FaultBlames DEF Blamed
  <2>3. IsFiniteSet(Blamed \cup {x}) /\ Cardinality(Blamed \cup {x}) <= faults + 1
    BY <1>2, FS_AddElement
  <2>4. /\ IsFiniteSet(Blamed') /\ Cardinality(Blamed') <= Cardinality(Blamed \cup {x})
        /\ Cardinality(Blamed') \in Nat /\ Cardinality(Blamed \cup {x}) \in Nat
    BY <2>2, <2>3, FS_Subset, FS_CardinalityType
  <2> QED BY <1>2, <2>1, <2>3, <2>4
<1>4. ASSUME \A x : ~Faulted(x)
      PROVE  IsFiniteSet(Blamed') /\ Cardinality(Blamed') <= faults'
  <2>1. faults' = faults
    BY <1>4, DaySteps
       DEF StartCycle, SaveDay, SendDay, SendRefused, MarkDaySubmitted, MovesOn, CycleDone, Tick, FlightLands, tally
  <2>2. Blamed' \subseteq Blamed
    BY <1>4, OthersDoNotBlame DEF Blamed
  <2>3. IsFiniteSet(Blamed') /\ Cardinality(Blamed') <= Cardinality(Blamed) /\ Cardinality(Blamed') \in Nat
    BY <1>2, <2>2, FS_Subset, FS_CardinalityType
  <2> QED BY <1>2, <2>1, <2>3
<1> QED BY <1>3, <1>4

-----------------------------------------------------------------------------
(* Nothing is behind at first. *)
LEMMA KeepsUpInit == Init => KeepsUp
<1> SUFFICES ASSUME Init PROVE KeepsUp
  OBVIOUS
<1>1. /\ Inv /\ today = 0 /\ faults = 0 /\ pc = "idle" /\ todo = {} /\ flight = {} /\ swept = FALSE
      /\ \A c \in CellIds : chain[c].last = -1
      /\ \A c \in CellIds, d \in Days : ~Published(c, d)
  BY InvInit DEF Init, EmptyCell, NoDay, Published
<1>2. OldestBacklogDay = 0 /\ \A d \in Days : d \in Nat
  BY <1>1, WorkerAssumption DEF OldestBacklogDay, Days
<1>3. NoGaps
  BY <1>1, <1>2 DEF NoGaps
<1>4. JobsFine /\ KeptUp /\ SweptFine /\ CleanFine /\ InOneGo
  BY <1>1, <1>2 DEF JobsFine, KeptUp, SweptFine, CleanFine, InOneGo
<1>5. AllCaughtUp
  <2>1. missed \in Nat
    BY <1>1, Counts
  <2> QED BY <1>1, <1>2, <2>1 DEF AllCaughtUp
<1>6. BlameFine
  <2>1. Blamed = {}
    BY <1>1 DEF Blamed, Blame, Stopped, Unfinished, InFlight
  <2> QED BY <1>1, <2>1, FS_EmptySet DEF BlameFine
<1> QED BY <1>1, <1>3, <1>4, <1>5, <1>6 DEF KeepsUp

LEMMA KeepsUpStep == KeepsUp /\ [Next]_vars => KeepsUp'
BY InvStep, GapsStep, JobsStep, KeptUpStep, SweptStep, CleanStep, InOneGoStep, CaughtUpStep, BlameStep DEF KeepsUp

(* The invariant of the days: together with Inv it is inductive. *)
THEOREM DaysAreKeptUp == Spec => []KeepsUp
BY KeepsUpInit, KeepsUpStep, PTL DEF Spec

(* No day is lost to any number of crashes, failures and lost answers, as  *)
(* long as every day has one cycle without them; nor to an outage shorter  *)
(* than BACKLOG_DAYS: runCycle's order, and openDays' reach.               *)
THEOREM NoDayIsEverLost == Spec => []NoDayIsLost
<1>1. KeepsUp => NoDayIsLost
  <2> SUFFICES ASSUME KeepsUp, missed = 0 \/ (faults = 0 /\ missed < Backlog),
                      NEW c \in CellIds, NEW d \in Days, d < OldestBacklogDay
               PROVE  published[c][d] # Unpublished
    BY DEF NoDayIsLost
  <2>1. CASE missed = 0
    BY <2>1 DEF KeepsUp, KeptUp, Published
  <2>2. CASE faults = 0 /\ missed < Backlog
    <3>1. d + Backlog < today /\ today \in Nat /\ missed \in Nat /\ Backlog \in Nat /\ d \in Nat
      BY Counts, WorkerAssumption DEF KeepsUp, Days
    <3>2. d + 1 + missed < today
      BY <2>2, <3>1
    <3> QED BY <2>2, <3>2 DEF KeepsUp, AllCaughtUp, Published
  <2> QED BY <2>1, <2>2
<1> QED BY <1>1, DaysAreKeptUp, PTL

(* One cell's failure is no reason for another to miss a day: when the     *)
(* days are closed, no more cells lack one than there were faults, because *)
(* a failure drops the days of its own cell only.                          *)
THEOREM OneFaultStopsOneCell == Spec => []FaultsStopOneCellEach
<1> DEFINE Behind == {c \in CellIds : \E d \in OldestBacklogDay .. today - 2 : published[c][d] = Unpublished}
<1>1. KeepsUp => FaultsStopOneCellEach
  <2> SUFFICES ASSUME KeepsUp, pc = "settle", missed = 0 PROVE Cardinality(Behind) <= faults
    BY DEF FaultsStopOneCellEach
  <2>1. todo = {} /\ today \in Nat /\ OldestBacklogDay \in Nat /\ faults \in Nat
    BY Counts DEF KeepsUp, JobsFine
  <2>2. OldestBacklogDay .. today - 2 \subseteq OldestBacklogDay .. LastAwaited
    BY <2>1 DEF LastAwaited
  <2>3. Behind \subseteq Blamed
    <3> SUFFICES ASSUME NEW c \in Behind PROVE c \in Blamed
      OBVIOUS
    <3>1. PICK d \in OldestBacklogDay .. today - 2 : published[c][d] = Unpublished
      OBVIOUS
    <3>2. d \in OldestBacklogDay .. LastAwaited /\ ~Due(c, d)
      BY <2>1, <2>2, <3>1 DEF Due, Published, InHand
    <3> QED BY <3>2 DEF Blamed, Blame, Stopped
  <2>4. IsFiniteSet(Blamed) /\ Cardinality(Blamed) <= faults
    BY DEF KeepsUp, BlameFine
  <2> HIDE DEF Behind
  <2>5. /\ Cardinality(Behind) <= Cardinality(Blamed)
        /\ Cardinality(Behind) \in Nat /\ Cardinality(Blamed) \in Nat
    BY <2>3, <2>4, FS_Subset, FS_CardinalityType
  <2> QED BY <2>1, <2>4, <2>5
<1> QED BY <1>1, DaysAreKeptUp, PTL

-----------------------------------------------------------------------------
(* A cell's log under the worker, late transactions and crashes included,  *)
(* with every slot voting: DayLog's single writer.                         *)
Log(c) == INSTANCE DayLog WITH cell <- chain[c], MinSensors <- Cardinality(SensorSlots)

LogsAreDayLogs ==
  /\ \A c \in CellIds : Log(c)!Init
  /\ [][\A c \in CellIds : [Log(c)!Next]_(Log(c)!vars)]_vars

LEMMA LogsStep ==
  Inv /\ [Next]_vars => \A c \in CellIds : [Log(c)!Next]_(Log(c)!vars)
<1> SUFFICES ASSUME Inv, [Next]_vars, NEW c \in CellIds PROVE [Log(c)!Next]_(Log(c)!vars)
  OBVIOUS
<1>0. TypeOK /\ LogsAgree /\ MaxDay \in Nat /\ today \in Nat /\ today' \in {today, today + 1}
  BY Counts, BacklogMovesForwards, WorkerAssumption DEF Inv
<1>1. ASSUME NEW tx \in Transactions, Land(tx), today' = today
      PROVE  [Log(c)!Next]_(Log(c)!vars)
  <2>1. CASE tx.cell = c
    <3>1. tx.cell \in CellIds /\ tx.day \in 0 .. MaxDay /\ tx.label \in DayStates
      BY DEF Transactions, Days
    <3>2. /\ tx.day < today /\ IsNewer(chain[c], tx.day)
          /\ chain' = [chain EXCEPT ![tx.cell] = RecordDay(@, tx.day, tx.label, Voters(tx.label))]
      BY <1>1, <2>1 DEF Land, Takes
    <3>3. chain'[c] = RecordDay(chain[c], tx.day, tx.label, Voters(tx.label))
      BY <1>0, <2>1, <3>1, <3>2 DEF TypeOK
    <3>4. Voters(tx.label) \in SUBSET SensorSlots
      BY DEF Voters
    <3>5. Log(c)!AcceptableRecord(tx.day, tx.label, Voters(tx.label))
      <4>1. Cardinality(SensorSlots) \in Nat
        BY SensorSlotsAssumption, FS_CardinalityType
      <4>2. Cardinality(SensorSlots) >= Cardinality(SensorSlots)
        BY <4>1
      <4>3. Log(c)!Cardinality(SensorSlots) = Cardinality(SensorSlots)
        BY DEF Log!Cardinality, Cardinality
      <4> QED BY <3>2, <4>2, <4>3 DEF Log!AcceptableRecord, Voters
    <3>6. /\ Log(c)!DayStates = DayStates
          /\ Log(c)!IsNewer(chain[c], tx.day)
          /\ Log(c)!RecordDay(chain[c], tx.day, tx.label, Voters(tx.label)) = chain'[c]
      <4>1. Log(c)!DayStates = DayStates /\ (Log(c)!IsNewer(chain[c], tx.day) <=> IsNewer(chain[c], tx.day))
        BY DEF Log!DayStates, DayStates, Log!IsNewer, IsNewer
      <4>2. Log(c)!RecordDay(chain[c], tx.day, tx.label, Voters(tx.label))
              = RecordDay(chain[c], tx.day, tx.label, Voters(tx.label))
        BY DEF Log!RecordDay, Log!AdvanceWindow, Log!SlotsLeft, Log!RingSlots, Log!RingSlot,
               RecordDay, AdvanceWindow, SlotsLeft, RingSlots, RingSlot
      <4> QED BY <3>2, <3>3, <4>1, <4>2
    <3>7. Log(c)!SubmitDayRecord(tx.day, tx.label, Voters(tx.label))
      BY <1>1, <3>5, <3>6 DEF Log!SubmitDayRecord
    <3> QED BY <3>1, <3>4, <3>6, <3>7 DEF Log!Next
  <2>2. CASE tx.cell # c
    <3>1. chain'[c] = chain[c]
      BY <1>0, <1>1, <2>2, LandReads
    <3> QED BY <1>1, <3>1 DEF Log!vars
  <2> QED BY <2>1, <2>2
<1>2. CASE Tick
  <2>1. today < MaxDay /\ today' = today + 1 /\ chain' = chain
    BY <1>2 DEF Tick, world
  <2> QED BY <2>1 DEF Log!Next, Log!Tick
<1>3. CASE SendDay
  <2>1. today' = today
    BY <1>3 DEF SendDay
  <2> QED BY <1>1, <1>3, <2>1, SendLands
<1>4. ASSUME NEW tx \in flight, FlightLands(tx) PROVE [Log(c)!Next]_(Log(c)!vars)
  BY <1>0, <1>1, <1>4 DEF FlightLands, TypeOK
<1>5. ASSUME UNCHANGED <<chain, today>> PROVE [Log(c)!Next]_(Log(c)!vars)
  BY <1>5 DEF Log!vars
<1> QED BY <1>2, <1>3, <1>4, <1>5, DaySteps
       DEF StartCycle, SaveDay, SendRefused, MarkDaySubmitted, MovesOn, CycleDone, Faulted, world

(* Whatever the worker and its lost transactions do, each cell's log on    *)
(* chain is a DayLog, so what CellProofs proves of one holds of it.      *)
THEOREM EveryLogIsADayLog == Spec => LogsAreDayLogs
<1>1. Init => \A c \in CellIds : Log(c)!Init
  <2>1. ASSUME NEW c \in CellIds PROVE Log(c)!EmptyCell = EmptyCell
    BY DEF Log!EmptyCell, EmptyCell, Log!NoDay, NoDay, Log!RingSlots, RingSlots
  <2> QED BY <2>1 DEF Init, Log!Init
<1>2. Inv /\ [Next]_vars => [\A c \in CellIds : [Log(c)!Next]_(Log(c)!vars)]_vars
  BY LogsStep
<1> QED BY <1>1, <1>2, Invariance, PTL DEF Spec, LogsAreDayLogs

-----------------------------------------------------------------------------
(***************************************************************************)
(* The page of a policy.  It counts the run of dry days twice, in the API  *)
(* for the figure and in the browser for the bracket, each in a loop of    *)
(* its own over rows of the database; the program counted it in its log.   *)
(* The two loops are the same recursion, and the recursion finds the       *)
(* longest run; a policy's end is decided on days the log has passed, and  *)
(* those never change again.                                               *)
(***************************************************************************)
(* The run at each day and the best so far. *)
Runs(days, dry, run, best) ==
  /\ run \in [0 .. Len(days) -> Nat] /\ best \in [0 .. Len(days) -> Nat]
  /\ run[0] = 0 /\ best[0] = 0
  /\ \A k \in 1 .. Len(days) :
       /\ run[k] = IF days[k] = dry THEN run[k - 1] + 1 ELSE 0
       /\ best[k] = IF run[k] > best[k - 1] THEN run[k] ELSE best[k - 1]

(* drySpell counts so. *)
LEMMA SpellIsCounted ==
  ASSUME NEW n \in Nat, NEW days, DOMAIN days = 1 .. n, Len(days) = n
  PROVE  \E run, best : Runs(days, "Dry", run, best) /\ DrySpell(days) = best[n]
<1> DEFINE R    == [run : Nat, best : Nat]
           base == [run |-> 0, best |-> 0]
           go(s, day) == IF day = "Dry" THEN [run |-> s.run + 1, best |-> Max({s.best, s.run + 1})]
                         ELSE [s EXCEPT !.run = 0]
           step == [x \in (1 .. n) \X R |-> go(x[2], days[x[1]])]
           Solves(g) == g = [s \in SUBSET (1 .. n) |->
                               IF s = {} THEN base ELSE go(g[s \ {LastOf(s)}], days[LastOf(s)])]
           iter == CHOOSE g : Solves(g)
<1>1. DrySpell(days) = iter[1 .. n].best
  BY DEF DrySpell, FoldLeft, MapThenFoldSet, Max, LastOf
<1>2. \A a, b \in Nat : Max({a, b}) = IF b > a THEN b ELSE a
  BY DEF Max
<1>3. base \in R
  OBVIOUS
<1>4. \A s \in R : \A day : go(s, day) \in R
  <2> SUFFICES ASSUME NEW s \in R, NEW day PROVE go(s, day) \in R
    OBVIOUS
  <2>1. s.run + 1 \in Nat /\ Max({s.best, s.run + 1}) \in Nat
    BY <1>2
  <2> QED BY <2>1
<1>5. step \in [(1 .. n) \X R -> R]
  <2> HIDE DEF R, go
  <2> QED BY <1>4
<1>6. PICK g \in [SUBSET (1 .. n) -> R] : SequenceFoldIs(g, n, base, step)
  <2> HIDE DEF R, base, step
  <2> QED BY <1>3, <1>5, SequenceFoldIsSolved
<1>7. Solves(g)
  <2>1. ASSUME NEW s \in SUBSET (1 .. n), s # {}
        PROVE  g[s] = go(g[s \ {LastOf(s)}], days[LastOf(s)])
    <3>1. LastOf(s) \in 1 .. n /\ s \ {LastOf(s)} \in SUBSET (1 .. n)
      BY <2>1, LastIsOne
    <3> HIDE DEF R, go, base
    <3>2. g[s \ {LastOf(s)}] \in R
      BY <3>1
    <3>3. g[s] = step[<<LastOf(s), g[s \ {LastOf(s)}]>>]
      BY <1>6, <2>1 DEF SequenceFoldIs
    <3> QED BY <3>1, <3>2, <3>3
  <2> HIDE DEF R, go, base, step
  <2> QED BY <1>6, <2>1 DEF SequenceFoldIs
<1>8. Solves(iter)
  <2> HIDE DEF Solves
  <2> QED BY <1>7
<1>9. iter[1 .. 0] = base /\ \A k \in 1 .. n : iter[1 .. k] = go(iter[1 .. k - 1], days[k])
  <2> HIDE DEF go, base, iter
  <2>1. 1 .. 0 = {} /\ 1 .. 0 \in SUBSET (1 .. n)
    OBVIOUS
  <2>2. ASSUME NEW k \in 1 .. n
        PROVE  iter[1 .. k] = go(iter[1 .. k - 1], days[k])
    <3>1. 1 .. k \in SUBSET (1 .. n) /\ k \in 1 .. k /\ k \in Nat /\ k # 0
      OBVIOUS
    <3>2. LastOf(1 .. k) = k /\ (1 .. k) \ {k} = 1 .. k - 1
      BY <3>1, LastOfThese
    <3> QED BY <1>8, <3>1, <3>2
  <2> QED BY <1>8, <2>1, <2>2
<1> DEFINE run == [k \in 0 .. n |-> iter[1 .. k].run]
           best == [k \in 0 .. n |-> iter[1 .. k].best]
<1>10. \A k \in 0 .. n : iter[1 .. k] \in R
  <2> DEFINE Good == {k \in 0 .. n : iter[1 .. k] \in R}
  <2>1. 0 \in Good
    <3> HIDE DEF iter, R
    <3> QED BY <1>3, <1>9
  <2>2. ASSUME NEW k \in 1 .. n, k - 1 \in Good PROVE k \in Good
    <3> HIDE DEF iter, R, go
    <3> QED BY <1>4, <1>9, <2>2
  <2> HIDE DEF Good
  <2>3. \A k \in 0 .. n : k \in Good
    BY <2>1, <2>2, StepByStep
  <2> QED BY <2>3 DEF Good
<1>11. /\ run \in [0 .. n -> Nat] /\ best \in [0 .. n -> Nat] /\ run[0] = 0 /\ best[0] = 0
  <2> HIDE DEF iter, go
  <2> QED BY <1>9, <1>10
<1>12. ASSUME NEW k \in 1 .. n
       PROVE  /\ run[k] = IF days[k] = "Dry" THEN run[k - 1] + 1 ELSE 0
              /\ best[k] = IF run[k] > best[k - 1] THEN run[k] ELSE best[k - 1]
  <2> DEFINE r == iter[1 .. k - 1]
  <2>1. r \in R /\ iter[1 .. k] = go(r, days[k]) /\ k - 1 \in 0 .. n
    <3> HIDE DEF iter, go, R
    <3> QED BY <1>9, <1>10
  <2>2. run[k] = go(r, days[k]).run /\ best[k] = go(r, days[k]).best /\ run[k - 1] = r.run /\ best[k - 1] = r.best
    <3> HIDE DEF iter, go, R
    <3> QED BY <2>1
  <2> HIDE DEF run, best, r
  <2> QED BY <1>2, <2>1, <2>2
<1> HIDE DEF run, best, iter
<1>13. Runs(days, "Dry", run, best)
  BY <1>11, <1>12 DEF Runs
<1>14. DrySpell(days) = best[n]
  BY <1>1 DEF best
<1> QED BY <1>13, <1>14

(* longestDryRun counts so. *)
LEMMA BracketIsCounted ==
  ASSUME NEW n \in Nat, NEW days, DOMAIN days = 1 .. n, Len(days) = n
  PROVE  \E run, best : Runs(days, "dry", run, best) /\ LongestDryRun(days).best = best[n]
<1> DEFINE R    == [run : Nat, best : Nat, end : Nat]
           base == [run |-> 0, best |-> 0, end |-> 0]
           index == [i \in DOMAIN days |-> i]
           go(s, i) == IF days[i] # "dry" THEN [s EXCEPT !.run = 0]
                       ELSE IF s.run + 1 > s.best
                            THEN [run |-> s.run + 1, best |-> s.run + 1, end |-> i]
                            ELSE [s EXCEPT !.run = @ + 1]
           step == [x \in (1 .. n) \X R |-> go(x[2], index[x[1]])]
           Solves(g) == g = [s \in SUBSET (1 .. n) |->
                               IF s = {} THEN base ELSE go(g[s \ {LastOf(s)}], index[LastOf(s)])]
           iter == CHOOSE g : Solves(g)
<1>1. LongestDryRun(days).best = iter[1 .. n].best
  <2>1. DOMAIN index = 1 .. n
    OBVIOUS
  <2> QED BY <2>1 DEF LongestDryRun, FoldLeft, MapThenFoldSet, Max, LastOf
<1>2. \A k \in 1 .. n : index[k] = k
  OBVIOUS
<1>3. base \in R
  OBVIOUS
<1>4. \A s \in R, i \in 1 .. n : go(s, i) \in R
  OBVIOUS
<1>5. step \in [(1 .. n) \X R -> R]
  <2> HIDE DEF R, go, index
  <2> QED BY <1>2, <1>4
<1>6. PICK g \in [SUBSET (1 .. n) -> R] : SequenceFoldIs(g, n, base, step)
  <2> HIDE DEF R, base, step
  <2> QED BY <1>3, <1>5, SequenceFoldIsSolved
<1>7. Solves(g)
  <2>1. ASSUME NEW s \in SUBSET (1 .. n), s # {}
        PROVE  g[s] = go(g[s \ {LastOf(s)}], index[LastOf(s)])
    <3>1. LastOf(s) \in 1 .. n /\ s \ {LastOf(s)} \in SUBSET (1 .. n)
      BY <2>1, LastIsOne
    <3> HIDE DEF R, go, base
    <3>2. g[s \ {LastOf(s)}] \in R
      BY <3>1
    <3>3. g[s] = step[<<LastOf(s), g[s \ {LastOf(s)}]>>]
      BY <1>6, <2>1 DEF SequenceFoldIs
    <3> QED BY <3>1, <3>2, <3>3
  <2> HIDE DEF R, go, base, step
  <2> QED BY <1>6, <2>1 DEF SequenceFoldIs
<1>8. Solves(iter)
  <2> HIDE DEF Solves
  <2> QED BY <1>7
<1>9. iter[1 .. 0] = base /\ \A k \in 1 .. n : iter[1 .. k] = go(iter[1 .. k - 1], index[k])
  <2> HIDE DEF go, base, iter
  <2>1. 1 .. 0 = {} /\ 1 .. 0 \in SUBSET (1 .. n)
    OBVIOUS
  <2>2. ASSUME NEW k \in 1 .. n
        PROVE  iter[1 .. k] = go(iter[1 .. k - 1], index[k])
    <3>1. 1 .. k \in SUBSET (1 .. n) /\ k \in 1 .. k /\ k \in Nat /\ k # 0
      OBVIOUS
    <3>2. LastOf(1 .. k) = k /\ (1 .. k) \ {k} = 1 .. k - 1
      BY <3>1, LastOfThese
    <3> QED BY <1>8, <3>1, <3>2
  <2> QED BY <1>8, <2>1, <2>2
<1> DEFINE run == [k \in 0 .. n |-> iter[1 .. k].run]
           best == [k \in 0 .. n |-> iter[1 .. k].best]
<1>10. \A k \in 0 .. n : iter[1 .. k] \in R
  <2> DEFINE Good == {k \in 0 .. n : iter[1 .. k] \in R}
  <2>1. 0 \in Good
    <3> HIDE DEF iter, R
    <3> QED BY <1>3, <1>9
  <2>2. ASSUME NEW k \in 1 .. n, k - 1 \in Good PROVE k \in Good
    <3> HIDE DEF iter, R, go
    <3> QED BY <1>2, <1>4, <1>9, <2>2
  <2> HIDE DEF Good
  <2>3. \A k \in 0 .. n : k \in Good
    BY <2>1, <2>2, StepByStep
  <2> QED BY <2>3 DEF Good
<1>11. /\ run \in [0 .. n -> Nat] /\ best \in [0 .. n -> Nat] /\ run[0] = 0 /\ best[0] = 0
  <2> HIDE DEF iter, go
  <2> QED BY <1>9, <1>10
<1>12. ASSUME NEW k \in 1 .. n
       PROVE  /\ run[k] = IF days[k] = "dry" THEN run[k - 1] + 1 ELSE 0
              /\ best[k] = IF run[k] > best[k - 1] THEN run[k] ELSE best[k - 1]
  <2> DEFINE r == iter[1 .. k - 1]
  <2>1. r \in R /\ iter[1 .. k] = go(r, index[k]) /\ k - 1 \in 0 .. n
    <3> HIDE DEF iter, go, R
    <3> QED BY <1>9, <1>10
  <2>2. run[k] = go(r, index[k]).run /\ best[k] = go(r, index[k]).best /\ run[k - 1] = r.run /\ best[k - 1] = r.best
    <3> HIDE DEF iter, go, R
    <3> QED BY <2>1
  <2> HIDE DEF run, best, r
  <2> QED BY <1>2, <2>1, <2>2
<1> HIDE DEF run, best, iter
<1>13. Runs(days, "dry", run, best)
  BY <1>11, <1>12 DEF Runs
<1>14. LongestDryRun(days).best = best[n]
  BY <1>1 DEF best
<1> QED BY <1>13, <1>14

(* Two sequences dry in the same places have the same runs.                *)
LEMMA SameRuns ==
  ASSUME NEW n \in Nat, NEW a, NEW b, Len(a) = n, Len(b) = n, NEW x, NEW y,
         \A k \in 1 .. n : a[k] = x <=> b[k] = y,
         NEW run, NEW best, Runs(a, x, run, best),
         NEW runs, NEW bests, Runs(b, y, runs, bests)
  PROVE  best[n] = bests[n]
<1> DEFINE Good == {k \in 0 .. n : run[k] = runs[k] /\ best[k] = bests[k]}
<1>1. 0 \in Good
  BY DEF Runs
<1>2. ASSUME NEW k \in 1 .. n, k - 1 \in Good PROVE k \in Good
  <2>1. /\ run[k] = IF a[k] = x THEN run[k - 1] + 1 ELSE 0
        /\ best[k] = IF run[k] > best[k - 1] THEN run[k] ELSE best[k - 1]
        /\ runs[k] = IF b[k] = y THEN runs[k - 1] + 1 ELSE 0
        /\ bests[k] = IF runs[k] > bests[k - 1] THEN runs[k] ELSE bests[k - 1]
    BY DEF Runs
  <2>2. run[k - 1] = runs[k - 1] /\ best[k - 1] = bests[k - 1] /\ k \in 0 .. n
    BY <1>2
  <2>3. a[k] = x <=> b[k] = y
    OBVIOUS
  <2> QED BY <2>1, <2>2, <2>3
<1>3. n \in Good
  <2> HIDE DEF Good
  <2> QED BY <1>1, <1>2, StepByStep
<1> QED BY <1>3

(* A run of t days. *)
HasRun(days, dry, n, t) ==
  \E i \in 1 .. n : i + t - 1 <= n /\ \A k \in i .. i + t - 1 : days[k] = dry

(* The best is a run of days, and at least every run of days.              *)
LEMMA BestIsTheLongest ==
  ASSUME NEW n \in Nat, NEW days, Len(days) = n, NEW dry, NEW run, NEW best, Runs(days, dry, run, best),
         NEW t \in Nat \ {0}
  PROVE  best[n] >= t <=> HasRun(days, dry, n, t)
<1> DEFINE RunFine(k)  == run[k] <= k /\ (\A j \in k - run[k] + 1 .. k : days[j] = dry)
                          /\ (run[k] < k => days[k - run[k]] # dry)
           BestFine(k) == (best[k] > 0 => \E j \in 1 .. k : run[j] = best[k]) /\ \A j \in 1 .. k : run[j] <= best[k]
           Good == {k \in 0 .. n : RunFine(k) /\ BestFine(k)}
<1>1. 0 \in Good
  BY DEF Runs
<1>2. ASSUME NEW k \in 1 .. n, k - 1 \in Good PROVE k \in Good
  <2>1. /\ run[k] \in Nat /\ run[k - 1] \in Nat /\ best[k] \in Nat /\ best[k - 1] \in Nat
        /\ run[k] = IF days[k] = dry THEN run[k - 1] + 1 ELSE 0
        /\ best[k] = IF run[k] > best[k - 1] THEN run[k] ELSE best[k - 1]
        /\ \A j \in 1 .. k : run[j] \in Nat
    BY DEF Runs
  <2>2. RunFine(k)
    <3>1. RunFine(k - 1)
      BY <1>2
    <3>2. CASE days[k] # dry
      BY <2>1, <3>2
    <3>3. CASE days[k] = dry
      <4>1. run[k] = run[k - 1] + 1 /\ run[k] <= k /\ k - run[k] = k - 1 - run[k - 1]
        BY <2>1, <3>1, <3>3
      <4>2. ASSUME NEW j \in k - run[k] + 1 .. k PROVE days[j] = dry
        <5>1. j = k \/ j \in k - 1 - run[k - 1] + 1 .. k - 1
          BY <2>1, <4>1
        <5> QED BY <3>1, <3>3, <5>1
      <4>3. run[k] < k => days[k - run[k]] # dry
        BY <2>1, <3>1, <4>1
      <4> QED BY <4>1, <4>2, <4>3
    <3> QED BY <3>2, <3>3
  <2>3. BestFine(k)
    <3>1. BestFine(k - 1)
      BY <1>2
    <3>2. \A j \in 1 .. k : j = k \/ j \in 1 .. k - 1
      OBVIOUS
    <3>3. \A j \in 1 .. k : run[j] <= best[k]
      BY <2>1, <3>1, <3>2
    <3>4. ASSUME best[k] > 0 PROVE \E j \in 1 .. k : run[j] = best[k]
      BY <2>1, <3>1, <3>4
    <3> QED BY <3>3, <3>4
  <2> HIDE DEF RunFine, BestFine
  <2> QED BY <2>2, <2>3
<1>3. \A k \in 0 .. n : RunFine(k) /\ BestFine(k)
  <2>1. \A k \in 0 .. n : k \in Good
    <3> HIDE DEF Good
    <3> QED BY <1>1, <1>2, StepByStep
  <2> HIDE DEF RunFine, BestFine
  <2> QED BY <2>1
<1>4. \A k \in 0 .. n : run[k] \in Nat /\ best[k] \in Nat
  BY DEF Runs
<1>5. ASSUME best[n] >= t
      PROVE  \E i \in 1 .. n : i + t - 1 <= n /\ \A k \in i .. i + t - 1 : days[k] = dry
  <2>1. PICK j \in 1 .. n : run[j] = best[n]
    BY <1>3, <1>4, <1>5
  <2>2. RunFine(j) /\ run[j] \in Nat
    BY <1>3, <1>4
  <2> DEFINE i == j - t + 1
  <2>3. i \in 1 .. n /\ i + t - 1 <= n /\ i .. i + t - 1 \subseteq j - run[j] + 1 .. j
    BY <1>5, <2>1, <2>2
  <2> QED BY <2>2, <2>3
<1>6. ASSUME NEW i \in 1 .. n, i + t - 1 <= n, \A k \in i .. i + t - 1 : days[k] = dry
      PROVE  best[n] >= t
  <2> DEFINE j == i + t - 1
  <2>1. j \in 1 .. n /\ j \in 0 .. n /\ n \in 0 .. n
    BY <1>6
  <2>2. RunFine(j) /\ BestFine(n) /\ run[j] \in Nat /\ best[n] \in Nat
    BY <1>3, <1>4, <2>1
  <2>3. run[j] >= t
    <3> SUFFICES ASSUME run[j] < t PROVE FALSE
      BY <2>2
    <3>1. run[j] < j /\ j - run[j] \in i .. i + t - 1
      BY <2>1, <2>2
    <3> QED BY <1>6, <2>2, <3>1
  <2>4. run[j] <= best[n]
    BY <2>1, <2>2
  <2> QED BY <2>2, <2>3, <2>4
<1> QED BY <1>5, <1>6 DEF HasRun

(* So a spell of a window on a calendar is a run of its days in order.     *)
LEMMA SpellsAreRuns ==
  ASSUME NEW start \in Nat, NEW end \in Nat, start <= end,
         NEW days, Len(days) = end - start + 1, NEW dry, NEW Dry,
         \A d \in start .. end : days[d - start + 1] = dry <=> d \in Dry,
         NEW run, NEW best, Runs(days, dry, run, best), NEW t \in Nat \ {0}
  PROVE  best[end - start + 1] >= t <=> HasDrySpell(Dry, start, end, t)
<1> DEFINE n == end - start + 1
<1>1. n \in Nat /\ n = end - start + 1
  OBVIOUS
<1> HIDE DEF n
<1>2. best[n] >= t <=> HasRun(days, dry, n, t)
  BY <1>1, BestIsTheLongest
<1>3. ASSUME NEW i \in 1 .. n, i + t - 1 <= n, \A k \in i .. i + t - 1 : days[k] = dry
      PROVE  HasDrySpell(Dry, start, end, t)
  <2> DEFINE d == start + i - 1
  <2>1. d \in start .. end /\ d + t - 1 <= end
    BY <1>1, <1>3
  <2>2. ASSUME NEW e \in d .. d + t - 1 PROVE e \in Dry
    <3>1. e \in start .. end /\ e - start + 1 \in i .. i + t - 1
      BY <1>1, <1>3, <2>1
    <3> QED BY <1>3, <3>1
  <2> QED BY <2>1, <2>2 DEF HasDrySpell
<1>4. ASSUME HasDrySpell(Dry, start, end, t)
      PROVE  \E i \in 1 .. n : i + t - 1 <= n /\ \A k \in i .. i + t - 1 : days[k] = dry
  <2>1. PICK d \in start .. end : d + t - 1 <= end /\ d .. d + t - 1 \subseteq Dry
    BY <1>4 DEF HasDrySpell
  <2> DEFINE i == d - start + 1
  <2>2. i \in 1 .. n /\ i + t - 1 <= n
    BY <1>1, <2>1
  <2>3. ASSUME NEW k \in i .. i + t - 1 PROVE days[k] = dry
    <3> DEFINE e == k + start - 1
    <3>1. e \in start .. end /\ e \in d .. d + t - 1 /\ e - start + 1 = k
      BY <2>1
    <3>2. e \in Dry
      BY <2>1, <3>1
    <3> HIDE DEF e
    <3>3. days[e - start + 1] = dry
      BY <3>1, <3>2
    <3> QED BY <3>1, <3>3
  <2> QED BY <2>2, <2>3
<1> QED BY <1>1, <1>2, <1>3, <1>4 DEF HasRun

-----------------------------------------------------------------------------
(* The days that were published dry. *)
PublishedDry(c) == {d \in Days : published[c][d] = "Dry"}

(* The event of a policy, by what was published.                           *)
HadEvent(p) ==
  HasDrySpell(PublishedDry(Cover[p].cell), Cover[p].start, Cover[p].end, Cover[p].threshold)

(* A settled policy had its event, and a closed one had none in a window   *)
(* the log has passed: neither is ever undone.                             *)
Decided ==
  \A p \in PolicyIds :
    /\ policy[p] = "Settled" => HadEvent(p)
    /\ policy[p] = "Closed"  => Cover[p].end <= chain[Cover[p].cell].last /\ ~HadEvent(p)

(* A policy's window has days, and room for its threshold.                 *)
LEMMA CoversAreWindows ==
  ASSUME NEW p \in PolicyIds
  PROVE  /\ Cover[p].cell \in CellIds /\ Cover[p].start \in Nat /\ Cover[p].end \in Nat
         /\ Cover[p].start <= Cover[p].end /\ Cover[p].threshold \in Nat \ {0}
         /\ \A d \in Cover[p].start .. Cover[p].end : d \in Days
<1>1. /\ Cover[p].cell \in CellIds /\ Cover[p].start \in Days /\ Cover[p].end \in Days
      /\ MaxDay \in Nat /\ Cover[p].threshold \in 1 .. Cover[p].end - Cover[p].start + 1
  BY WorkerAssumption
<1> QED BY <1>1 DEF Days

(* What the program decides on is what was published.                      *)
LEMMA EventsArePublished ==
  ASSUME Inv, NEW p \in PolicyIds
  PROVE  /\ EventHappened(p) => HadEvent(p)
         /\ WindowComplete(p) /\ ~EventHappened(p) => Cover[p].end <= chain[Cover[p].cell].last /\ ~HadEvent(p)
<1> DEFINE c     == Cover[p].cell
           start == Cover[p].start
           end   == Cover[p].end
           t     == Cover[p].threshold
           log   == DryDays(chain[c])
           paper == PublishedDry(c)
<1>1. c \in CellIds /\ start \in Nat /\ end \in Nat /\ start <= end /\ t \in Nat
  BY CoversAreWindows
<1>2. TypeOK /\ LogAgrees(c)
  BY <1>1 DEF Inv, LogsAgree
<1>3. chain[c].first \in Nat /\ chain[c].last \in Int
  BY <1>1, <1>2 DEF TypeOK, Cells, NoDay
<1>4. ASSUME NEW d \in start .. end
      PROVE  /\ d \in Days /\ d \in log => d \in paper
             /\ HoldsDay(chain[c], d) /\ d \in paper => d \in log
  <2>1. d \in Days /\ d \in Nat
    BY <1>1, CoversAreWindows
  <2>2. d \in chain[c].first .. chain[c].last =>
          DayStateOf(chain[c], d) = IF published[c][d] = Unpublished THEN "NoCoverage" ELSE published[c][d]
    BY <1>2 DEF LogAgrees
  <2>3. HoldsDay(chain[c], d) => d \in chain[c].first .. chain[c].last
    BY <1>3, <2>1 DEF HoldsDay
  <2> QED BY <2>1, <2>2, <2>3 DEF DryDays, PublishedDry, Unpublished
<1>5. EventHappened(p) => HadEvent(p)
  <2> SUFFICES ASSUME EventHappened(p) PROVE HasDrySpell(paper, start, end, t)
    BY DEF HadEvent
  <2>1. PICK d \in start .. end : d + t - 1 <= end /\ d .. d + t - 1 \subseteq log
    BY DEF EventHappened, HasDrySpell
  <2>2. d .. d + t - 1 \subseteq start .. end
    BY <1>1, <2>1
  <2>3. d .. d + t - 1 \subseteq paper
    <3> SUFFICES ASSUME NEW e \in d .. d + t - 1 PROVE e \in paper
      OBVIOUS
    <3>1. e \in start .. end /\ e \in log
      BY <2>1, <2>2
    <3>2. e \in Days
      BY <1>1, <3>1, CoversAreWindows
    <3> HIDE DEF log, paper
    <3> QED BY <1>4, <3>1, <3>2
  <2> QED BY <2>1, <2>3 DEF HasDrySpell
<1>6. ASSUME WindowComplete(p), HadEvent(p) PROVE EventHappened(p)
  <2>1. PICK d \in start .. end : d + t - 1 <= end /\ d .. d + t - 1 \subseteq paper
    BY <1>6 DEF HadEvent, HasDrySpell
  <2>2. d .. d + t - 1 \subseteq start .. end
    BY <1>1, <2>1
  <2>3. \A e \in start .. end : HoldsDay(chain[c], e)
    BY <1>6 DEF WindowComplete, IsComplete
  <2>4. d .. d + t - 1 \subseteq log
    <3> HIDE DEF log, paper
    <3> QED BY <1>4, <2>1, <2>2, <2>3
  <2> QED BY <2>1, <2>4 DEF EventHappened, HasDrySpell
<1>7. WindowComplete(p) => end <= chain[c].last
  <2>1. end \in start .. end
    BY <1>1
  <2> QED BY <2>1 DEF WindowComplete, IsComplete, HoldsDay
<1> QED BY <1>5, <1>6, <1>7

(* Only settle_policy and close_policy decide a policy, on the log as it   *)
(* is.                                                                     *)
LEMMA PolicySteps ==
  ASSUME TypeOK, [Next]_vars, NEW p \in PolicyIds
  PROVE  \/ policy'[p] = policy[p]
         \/ UNCHANGED <<chain, published>> /\ policy'[p] = "Settled" /\ EventHappened(p)
         \/ UNCHANGED <<chain, published>> /\ policy'[p] = "Closed" /\ WindowComplete(p) /\ ~EventHappened(p)
<1>1. ASSUME NEW q \in PolicyIds, SomeoneElseActs(q)
      PROVE  \/ policy'[p] = policy[p]
             \/ UNCHANGED <<chain, published>> /\ policy'[p] = "Settled" /\ EventHappened(p)
             \/ UNCHANGED <<chain, published>> /\ policy'[p] = "Closed" /\ WindowComplete(p) /\ ~EventHappened(p)
  BY <1>1 DEF SomeoneElseActs, MaySettle, MayClose, TypeOK
<1>2. ASSUME NEW q \in PolicyIds, Dispatch(q)
      PROVE  \/ policy'[p] = policy[p]
             \/ UNCHANGED <<chain, published>> /\ policy'[p] = "Settled" /\ EventHappened(p)
             \/ UNCHANGED <<chain, published>> /\ policy'[p] = "Closed" /\ WindowComplete(p) /\ ~EventHappened(p)
  BY <1>2 DEF Dispatch, Call, MaySettle, MayClose, TypeOK
<1>3. \/ UNCHANGED policy
      \/ \E q \in PolicyIds : SomeoneElseActs(q)
      \/ \E q \in PolicyIds : Dispatch(q)
  BY DEF Next, WorkerStep, FaultStep, StartCycle, SaveDay, SaveFails, SendDay, SendRefused,
         SendFails, MarkDaySubmitted, MarkFails, DaysDone, OpenPolicies,
         DispatchFails, SettleDone, CycleDone, Crash, Tick, FlightLands, FlightEnds, Land, vars, world
<1> QED BY <1>1, <1>2, <1>3

(* A day the log has passed keeps its answer, or stays without one.        *)
LEMMA PassedDaysStay ==
  ASSUME Inv, [Next]_vars, NEW c \in CellIds, NEW d \in Days, d <= chain[c].last
  PROVE  published'[c][d] = published[c][d]
<1>1. TypeOK /\ LogsAgree
  BY DEF Inv
<1>2. ASSUME NEW tx \in Transactions, Land(tx) PROVE published'[c][d] = published[c][d]
  <2>1. CASE c # tx.cell
    BY <1>1, <1>2, <2>1, LandReads
  <2>2. CASE c = tx.cell
    <3>1. chain[c].last < tx.day /\ published'[c] = [published[c] EXCEPT ![tx.day] = tx.label]
          /\ chain[c].last \in Int /\ tx.day \in Nat
      BY <1>1, <1>2, <2>2, LandReads
    <3>2. d # tx.day /\ published[c] \in [Days -> DayStates \cup {Unpublished}]
      BY <1>1, <3>1, WorkerAssumption DEF TypeOK, Days
    <3> QED BY <3>1, <3>2
  <2> QED BY <2>1, <2>2
<1>3. SendDay => Land(RecordOf(current))
  BY DEF SendDay
<1>4. ASSUME NEW tx \in flight, FlightLands(tx) PROVE tx \in Transactions /\ Land(tx)
  BY <1>1, <1>4 DEF TypeOK, FlightLands
<1> QED BY <1>2, <1>3, <1>4, ChainSteps

(* What is decided stays true of what was published.                       *)
LEMMA DecidedStep == Inv /\ Decided /\ [Next]_vars => Decided'
<1> SUFFICES ASSUME Inv, Decided, [Next]_vars, NEW p \in PolicyIds
             PROVE  /\ policy'[p] = "Settled" => HadEvent(p)'
                    /\ policy'[p] = "Closed"  => Cover[p].end <= chain'[Cover[p].cell].last /\ ~HadEvent(p)'
  BY DEF Decided
<1> DEFINE c     == Cover[p].cell
           start == Cover[p].start
           end   == Cover[p].end
           t     == Cover[p].threshold
<1>0. c \in CellIds /\ start \in Nat /\ end \in Nat /\ start <= end /\ t \in Nat
  BY CoversAreWindows
<1>1. CASE UNCHANGED <<chain, published>> /\ policy'[p] # policy[p]
  <2>1. HadEvent(p)' = HadEvent(p)
    BY <1>1 DEF HadEvent, PublishedDry
  <2> QED BY <1>1, <2>1, PolicySteps, EventsArePublished DEF Inv
<1>2. CASE policy'[p] = policy[p]
  <2>1. /\ chain[c].last \in Int /\ chain'[c].last \in Int /\ chain[c].last <= chain'[c].last
        /\ \A d \in Days : published[c][d] # Unpublished => published'[c][d] = published[c][d]
    BY <1>0, PublishedStays
  <2>2. ASSUME policy[p] = "Settled" PROVE HadEvent(p)'
    <3>1. HadEvent(p)
      BY <2>2 DEF Decided
    <3>2. PICK d \in start .. end : d + t - 1 <= end /\ d .. d + t - 1 \subseteq PublishedDry(c)
      BY <3>1 DEF HadEvent, HasDrySpell
    <3>3. PublishedDry(c) \subseteq PublishedDry(c)'
      BY <2>1 DEF PublishedDry, Unpublished
    <3> QED BY <3>2, <3>3 DEF HadEvent, HasDrySpell
  <2>3. ASSUME policy[p] = "Closed" PROVE end <= chain'[c].last /\ ~HadEvent(p)'
    <3>1. end <= chain[c].last /\ ~HadEvent(p)
      BY <2>3 DEF Decided
    <3>2. \A d \in start .. end : published'[c][d] = published[c][d]
      BY <1>0, <2>1, <3>1, PassedDaysStay, CoversAreWindows
    <3>3. ASSUME HadEvent(p)' PROVE HadEvent(p)
      <4>1. PICK d \in start .. end : d + t - 1 <= end /\ d .. d + t - 1 \subseteq PublishedDry(c)'
        BY <3>3 DEF HadEvent, HasDrySpell
      <4>2. d .. d + t - 1 \subseteq start .. end
        BY <1>0, <4>1
      <4>3. d .. d + t - 1 \subseteq PublishedDry(c)
        BY <3>2, <4>1, <4>2 DEF PublishedDry
      <4> QED BY <4>1, <4>3 DEF HadEvent, HasDrySpell
    <3> QED BY <1>0, <2>1, <3>1, <3>3
  <2> QED BY <1>2, <2>2, <2>3
<1>3. policy'[p] = policy[p] \/ UNCHANGED <<chain, published>>
  BY PolicySteps DEF Inv
<1> QED BY <1>1, <1>2, <1>3

-----------------------------------------------------------------------------
(* The figure and the bracket are the longest run of dry rows.             *)
LEMMA PageCountsTheRows ==
  ASSUME TypeOK, NEW p \in PolicyIds
  PROVE  LET spell == SpellInWindow(Cover[p].cell, Cover[p].start, Cover[p].end) IN
         /\ LongestDryRun(PolicyWindow(p)).best = spell
         /\ spell \in Nat
         /\ spell >= Cover[p].threshold <=>
              HasDrySpell(DryRows(Cover[p].cell), Cover[p].start, Cover[p].end, Cover[p].threshold)
<1> DEFINE c       == Cover[p].cell
           start   == Cover[p].start
           end     == Cover[p].end
           n       == end - start + 1
           days    == DaysInWindow(c, start, end)
           squares == PolicyWindow(p)
<1>1. /\ c \in CellIds /\ start \in Nat /\ end \in Nat /\ start <= end /\ n \in Nat
      /\ Cover[p].threshold \in Nat \ {0}
      /\ \A d \in start .. end : d \in Days
  BY CoversAreWindows
<1>2. /\ DOMAIN days = 1 .. n /\ Len(days) = n
      /\ DOMAIN squares = 1 .. n /\ Len(squares) = n
  BY <1>1 DEF DaysInWindow, PolicyWindow
<1>3. ASSUME NEW k \in 1 .. n
      PROVE  /\ days[k] = "Dry" <=> start + k - 1 \in DryRows(c)
             /\ squares[k] = "dry" <=> start + k - 1 \in DryRows(c)
  <2> DEFINE d == start + k - 1
             row == rows[c][d]
  <2>1. d \in start .. end /\ d \in Days
    BY <1>1
  <2>2. row \in Rows \cup {NoRow}
    BY <1>1, <2>1 DEF TypeOK
  <2>3. row # NoRow => row.label \in DayStates
    BY <2>2 DEF Rows
  <2>4. d \in DryRows(c) <=> row # NoRow /\ row.label = "Dry"
    BY <2>1, <2>2 DEF DryRows, NoRow
  <2>5. start + k - 1 = d /\ d \in DayRecords(c, start, end) <=> row # NoRow
    BY <2>1 DEF DayRecords
  <2>6. days[k] = IF row # NoRow THEN row.label ELSE "NoCoverage"
    BY <2>5 DEF DaysInWindow
  <2>7. squares[k] = IF row = NoRow THEN "future"
                     ELSE CASE row.label = "Dry" -> "dry" [] row.label = "Wet" -> "wet" [] OTHER -> "none"
    BY DEF PolicyWindow
  <2>8. squares[k] = "dry" <=> row # NoRow /\ row.label = "Dry"
    <3> HIDE DEF row
    <3> QED BY <2>3, <2>7 DEF DayStates
  <2> HIDE DEF row
  <2> QED BY <2>4, <2>5, <2>6, <2>8
<1> HIDE DEF days, squares
<1>4. PICK run, best : Runs(days, "Dry", run, best) /\ DrySpell(days) = best[n]
  <2> HIDE DEF n
  <2> QED BY <1>1, <1>2, SpellIsCounted
<1>5. PICK runs, bests : Runs(squares, "dry", runs, bests) /\ LongestDryRun(squares).best = bests[n]
  <2> HIDE DEF n
  <2> QED BY <1>1, <1>2, BracketIsCounted
<1>6. best[n] = bests[n]
  <2>1. \A k \in 1 .. n : days[k] = "Dry" <=> squares[k] = "dry"
    BY <1>3
  <2> HIDE DEF n
  <2> QED BY <1>1, <1>2, <1>4, <1>5, <2>1, SameRuns
<1>7. best[n] >= Cover[p].threshold <=> HasDrySpell(DryRows(c), start, end, Cover[p].threshold)
  <2> DEFINE Dry == DryRows(c)
             t   == Cover[p].threshold
  <2>1. \A d \in start .. end : days[d - start + 1] = "Dry" <=> d \in Dry
    <3> SUFFICES ASSUME NEW d \in start .. end PROVE days[d - start + 1] = "Dry" <=> d \in Dry
      OBVIOUS
    <3>1. d - start + 1 \in 1 .. n /\ start + (d - start + 1) - 1 = d
      BY <1>1
    <3> HIDE DEF Dry
    <3> QED BY <1>3, <3>1 DEF Dry
  <2>2. Len(days) = end - start + 1
    BY <1>2
  <2> HIDE DEF Dry, start, end, t
  <2>3. best[end - start + 1] >= t <=> HasDrySpell(Dry, start, end, t)
    BY <1>1, <1>4, <2>1, <2>2, SpellsAreRuns DEF t
  <2> QED BY <2>3 DEF Dry, t
<1>8. best[n] \in Nat
  BY <1>1, <1>2, <1>4 DEF Runs
<1>9. SpellInWindow(c, start, end) = best[n]
  BY <1>4 DEF SpellInWindow, days
<1> QED BY <1>5, <1>6, <1>7, <1>8, <1>9 DEF squares

(* So the page of every policy agrees with its end.                        *)
LEMMA PagesExplain == Inv /\ Decided => PagesExplainOutcomes
<1> SUFFICES ASSUME Inv, Decided, NEW p \in PolicyIds, NEW view \in PolicyScreen(p)
             PROVE  LET c == Cover[p].cell
                        answered == \A d \in Cover[p].start .. Cover[p].end :
                                      rows[c][d] # NoRow /\ d <= chain[c].last => Signed(c, d) IN
                    /\ \A run \in view.figure : view.bracket = run
                    /\ answered /\ policy[p] # "Active" =>
                         (view.caption = "closed without paying"
                            <=> \A run \in view.figure : run < Cover[p].threshold)
  BY DEF PagesExplainOutcomes
<1> DEFINE c     == Cover[p].cell
           start == Cover[p].start
           end   == Cover[p].end
           t     == Cover[p].threshold
           spell == SpellInWindow(c, start, end)
           count == Cardinality(DayRecords(c, start, end))
<1>1. /\ c \in CellIds /\ start \in Nat /\ end \in Nat /\ start <= end /\ t \in Nat \ {0}
      /\ \A d \in start .. end : d \in Days
  BY CoversAreWindows
<1>2. TypeOK /\ LogAgrees(c) /\ RowsExplainTheChain
  BY <1>1 DEF Inv, LogsAgree
<1>3. /\ LongestDryRun(PolicyWindow(p)).best = spell /\ spell \in Nat
      /\ spell >= t <=> HasDrySpell(DryRows(c), start, end, t)
  BY <1>2, PageCountsTheRows
<1>4. PICK name \in StateNames(p) :
        view = PolicyView([state |-> name, threshold |-> t, spell |-> spell, recordedDays |-> count], PolicyWindow(p))
  BY DEF PolicyScreen, PolicyWires
<1> HIDE DEF spell, count
<1>5. /\ view.figure = IF count = 0 /\ name # "active" THEN {} ELSE {spell}
      /\ view.bracket = spell
  BY <1>3, <1>4 DEF PolicyView, RunFigure, JournalMissing
<1>6. /\ policy[p] = "Settled" => name # "active" /\ view.caption # "closed without paying"
      /\ policy[p] = "Closed" => name # "active" /\ view.caption = "closed without paying"
  BY <1>4 DEF PolicyView, RunCaption, StateNames
<1>7. ASSUME \A d \in start .. end : rows[c][d] # NoRow /\ d <= chain[c].last => Signed(c, d), policy[p] # "Active"
      PROVE  view.caption = "closed without paying" <=> \A run \in view.figure : run < t
  <2>1. ASSUME NEW d \in start .. end, d <= chain[c].last
        PROVE  d \in PublishedDry(c) <=> d \in DryRows(c)
    <3>1. d \in Days /\ rows[c][d] \in Rows \cup {NoRow}
      BY <1>1, <1>2, <2>1 DEF TypeOK
    <3>2. CASE rows[c][d] = NoRow
      <4>1. published[c][d] = Unpublished
        BY <1>1, <1>2, <3>1, <3>2 DEF RowsExplainTheChain
      <4> QED BY <3>2, <4>1 DEF PublishedDry, DryRows, NoRow, Unpublished
    <3>3. CASE rows[c][d] # NoRow
      <4>1. published[c][d] = rows[c][d].label
        BY <1>1, <1>2, <1>7, <2>1, <3>1, <3>3 DEF RowsExplainTheChain
      <4> QED BY <3>1, <4>1 DEF PublishedDry, DryRows
    <3> QED BY <3>2, <3>3
  <2>2. CASE policy[p] = "Settled"
    <3>1. PICK d \in start .. end : d + t - 1 <= end /\ d .. d + t - 1 \subseteq PublishedDry(c)
      BY <2>2 DEF Decided, HadEvent, HasDrySpell
    <3>2. ASSUME NEW e \in d .. d + t - 1 PROVE e \in DryRows(c)
      <4>1. e \in start .. end /\ e \in PublishedDry(c) /\ e \in Days
        BY <1>1, <3>1
      <4>2. e <= chain[c].last
        BY <1>2, <4>1 DEF LogAgrees, PublishedDry, Unpublished
      <4> QED BY <2>1, <4>1, <4>2
    <3>3. spell >= t
      BY <1>3, <3>1, <3>2 DEF HasDrySpell
    <3>4. d \in DayRecords(c, start, end)
      <4>1. d \in d .. d + t - 1 /\ d \in Days
        BY <1>1
      <4>2. rows[c][d].label = "Dry"
        BY <3>2, <4>1 DEF DryRows
      <4> QED BY <4>1, <4>2 DEF DayRecords, NoRow
    <3>5. count # 0
      <4> HIDE DEF start, end
      <4>1. IsFiniteSet(start .. end) /\ DayRecords(c, start, end) \subseteq start .. end
        <5>1. start \in Int /\ end \in Int
          BY <1>1
        <5> QED BY <5>1, FS_Interval DEF DayRecords
      <4>2. IsFiniteSet(DayRecords(c, start, end))
        BY <4>1, FS_Subset
      <4> QED BY <3>4, <4>2, FS_EmptySet DEF count
    <3>6. view.figure = {spell}
      BY <1>5, <1>6, <2>2, <3>5
    <3>7. ~(spell < t)
      BY <1>1, <1>3, <3>3
    <3> QED BY <1>6, <2>2, <3>6, <3>7
  <2>3. CASE policy[p] = "Closed"
    <3>1. end <= chain[c].last /\ ~HadEvent(p) /\ chain[c].last \in Int
      BY <1>1, <1>2, <2>3 DEF Decided, TypeOK, Cells, NoDay
    <3>2. ASSUME HasDrySpell(DryRows(c), start, end, t) PROVE HadEvent(p)
      <4>1. PICK d \in start .. end : d + t - 1 <= end /\ d .. d + t - 1 \subseteq DryRows(c)
        BY <3>2 DEF HasDrySpell
      <4>2. ASSUME NEW e \in d .. d + t - 1 PROVE e \in PublishedDry(c)
        <5>1. e \in start .. end /\ e <= chain[c].last /\ e \in DryRows(c)
          BY <1>1, <3>1, <4>1
        <5> QED BY <2>1, <5>1
      <4> QED BY <4>1, <4>2 DEF HadEvent, HasDrySpell
    <3>3. spell < t
      BY <1>1, <1>3, <3>1, <3>2
    <3> QED BY <1>5, <1>6, <2>3, <3>3
  <2>4. policy[p] \in {"Active", "Settled", "Closed"}
    BY <1>2 DEF TypeOK
  <2> QED BY <1>7, <2>2, <2>3, <2>4
<1>8. \A run \in view.figure : view.bracket = run
  BY <1>5
<1> QED BY <1>7, <1>8

(* The page of a closed policy adds up: the figure is the bracket, and it  *)
(* explains what settle_policy and close_policy decided on a log of their  *)
(* own, whatever crashed in the worker and whoever called them.            *)
THEOREM PagesAlwaysExplainOutcomes == Spec => []PagesExplainOutcomes
<1>1. Init => Decided
  BY DEF Init, Decided
<1>2. Inv /\ Decided /\ [Next]_vars => Inv' /\ Decided'
  BY InvStep, DecidedStep
<1> QED BY <1>1, <1>2, InvInit, PagesExplain, PTL DEF Spec
=============================================================================
