------------------------------- MODULE Worker -------------------------------
(***************************************************************************)
(* The aggregation worker between its database and the chain: one turn of  *)
(* runCycle (apps/worker/src/cycle.ts) with the dispatchers that write     *)
(* days, settle and close.  A day is three writes to two systems, in this  *)
(* order: the cell_days row, the transaction, the row's signature.  The    *)
(* process may die between any two of them, a call may fail, and a         *)
(* transaction whose answer was lost may still land.                       *)
(*                                                                         *)
(* The database and the chain survive a crash; what the cycle holds in     *)
(* memory does not.  Cycles do not overlap, and there is one worker.       *)
(*                                                                         *)
(* What is abstracted: the readings and the registry a day is computed     *)
(* from are the set of the labels they may give it, and the intervals and  *)
(* verdicts written beside the row are left out.  The dispatchers after    *)
(* closure (exclusions, mirrors, the reference, the sweep) write neither   *)
(* days nor policies.                                                      *)
(***************************************************************************)
EXTENDS DayRing

CONSTANTS
  CellIds,     (* the cells of the network, numbered as openDays orders them *)
  PolicyIds,
  Cover,       (* per policy: its cell, threshold and window                 *)
  Labels,      (* the labels the readings may give a day                     *)
  Relabels,    (* TRUE: a day closed again may get another label             *)
  Backlog,     (* BACKLOG_DAYS, 7 by default                                 *)
  MaxDay,      (* the bound on the clock, in days                            *)
  MaxFaults,   (* the bound on crashes, failed calls and lost answers        *)
  MaxMissed    (* the bound on days without one whole cycle free of faults   *)

Days == 0 .. MaxDay

ASSUME WorkerAssumption ==
  /\ CellIds \subseteq Nat
  /\ {MaxDay, MaxFaults, MaxMissed} \subseteq Nat /\ Backlog \in Nat \ {0}
  /\ Labels \subseteq DayStates /\ Relabels \in BOOLEAN
  /\ Cover \in [PolicyIds -> [cell : CellIds, threshold : Nat, start : Days, end : Days]]
  /\ \A p \in PolicyIds : Cover[p].threshold \in 1 .. Cover[p].end - Cover[p].start + 1

VARIABLES
  chain,      (* the CellState account of each cell                          *)
  published,  (* the label each day was recorded with on chain               *)
  policy,     (* the state of each policy account                            *)
  flight,     (* transactions that may yet land, and nobody waits for        *)
  rows,       (* the cell_days table                                         *)
  pc,         (* where the cycle is                                          *)
  todo,       (* the open days it has not come to yet                        *)
  current,    (* the day it is closing                                       *)
  fresh,      (* the cells it has submitted a day for                        *)
  left,       (* of those, the cells settle or close has not looked at yet   *)
  looking,    (* the open policies read of the cell it is looking at         *)
  today,      (* Pool::day_index(now)                                        *)
  faults, missed,
  dirty,      (* the cycle has met a fault, or began before today did        *)
  swept       (* a cycle without one has finished today                      *)

world  == <<chain, published, policy, flight>>
memory == <<pc, todo, current, fresh, left, looking>>
tally  == <<faults, missed, dirty, swept>>
vars   == <<world, rows, memory, today, tally>>

Unpublished == "Unpublished"

NoRow == [label |-> "None", signed |-> FALSE]
NoJob == <<NoDay, NoDay>>

Jobs == CellIds \X Days
Rows == [label : DayStates, signed : BOOLEAN]

(* A transaction as it was signed: what it records, and where. *)
Transactions == [cell : CellIds, day : Days, label : DayStates]

Init ==
  /\ chain = [c \in CellIds |-> EmptyCell]
  /\ published = [c \in CellIds |-> [d \in Days |-> Unpublished]]
  /\ policy = [p \in PolicyIds |-> "Active"]
  /\ flight = {}
  /\ rows = [c \in CellIds |-> [d \in Days |-> NoRow]]
  /\ pc = "idle" /\ todo = {} /\ current = NoJob /\ fresh = {} /\ left = {} /\ looking = {}
  /\ today = 0
  /\ faults = 0 /\ missed = 0 /\ dirty = FALSE /\ swept = FALSE

Signed(c, d) == rows[c][d].signed

Fault ==
  /\ faults < MaxFaults
  /\ faults' = faults + 1 /\ dirty' = TRUE
  /\ UNCHANGED <<missed, swept>>

(***************************************************************************)
(* The chain.  One transaction carries the day and its verdicts, and lands *)
(* or does not as a whole; everything but the day's place in the log holds *)
(* of a record the worker makes.                                           *)
(***************************************************************************)
Takes(tx) == tx.day < today /\ IsNewer(chain[tx.cell], tx.day)

Voters(label) == IF label = "NoCoverage" THEN {} ELSE SensorSlots

Land(tx) ==
  /\ Takes(tx)
  /\ chain' = [chain EXCEPT ![tx.cell] = RecordDay(@, tx.day, tx.label, Voters(tx.label))]
  /\ published' = [published EXCEPT ![tx.cell][tx.day] = tx.label]
  /\ UNCHANGED policy

EventHappened(p) ==
  LET cover == Cover[p] IN
  HasDrySpell(DryDays(chain[cover.cell]), cover.start, cover.end, cover.threshold)

WindowComplete(p) == IsComplete(chain[Cover[p].cell], Cover[p].start, Cover[p].end)

MaySettle(p) == policy[p] = "Active" /\ EventHappened(p)
MayClose(p)  == policy[p] = "Active" /\ WindowComplete(p) /\ ~EventHappened(p)

(* Either of them is open to every caller, the owner included; a call of   *)
(* the worker's own that lands late, unanswered, is one of these too.      *)
SomeoneElseActs(p) ==
  /\ \/ MaySettle(p) /\ policy' = [policy EXCEPT ![p] = "Settled"]
     \/ MayClose(p) /\ policy' = [policy EXCEPT ![p] = "Closed"]
  /\ UNCHANGED <<chain, published, flight, rows, memory, today, tally>>

FlightLands(tx) ==
  /\ Land(tx)
  /\ flight' = flight \ {tx}
  /\ UNCHANGED <<rows, memory, today, tally>>

(* Its blockhash expires, or the chain refuses it. *)
FlightEnds(tx) ==
  /\ flight' = flight \ {tx}
  /\ UNCHANGED <<chain, published, policy, rows, memory, today, tally>>

(***************************************************************************)
(* closeDueDays and closeCellDay.                                          *)
(***************************************************************************)

(* Mutant: the oldest day the horizon allows is forgotten.                 *)
OldestBacklogDayShort == IF today > Backlog THEN today - Backlog + 1 ELSE 0

(* Mutant: the backlog reaches back to the first day.                      *)
OldestBacklogDayEver == 0

OldestBacklogDay == IF today > Backlog THEN today - Backlog ELSE 0

OpenDays == {job \in Jobs : job[2] \in OldestBacklogDay .. today - 1 /\ ~Signed(job[1], job[2])}

StartCycle ==
  /\ pc = "idle"
  /\ pc' = "days" /\ todo' = OpenDays /\ fresh' = {} /\ dirty' = FALSE
  /\ UNCHANGED <<world, rows, current, left, looking, today, faults, missed, swept>>

(* openDays' order: by cell, then by day. *)
IsNext(job) ==
  /\ job \in todo
  /\ \A other \in todo :
       job[1] < other[1] \/ (job[1] = other[1] /\ job[2] <= other[2])

(* Mutant: one cell's failure ends the days of all.                        *)
StopNetwork(job) == {}

(* A cell stops at its first failure; the others carry on. *)
StopCell(job) == {other \in todo : other[1] # job[1]}

(* What the readings, the registry and the parameters of this moment say   *)
(* of a day: without Relabels, what they said the first time.              *)
Measured(c, d) ==
  IF rows[c][d] = NoRow \/ Relabels THEN Labels ELSE {rows[c][d].label}

(* saveDay inserts the row, or updates all of it but the signature, which  *)
(* it does not have: a day signed since openDays is passed over, and with  *)
(* one worker there is none.                                               *)
SaveDay(job, label) ==
  /\ pc = "days" /\ IsNext(job) /\ ~Signed(job[1], job[2])
  /\ label \in Measured(job[1], job[2])
  /\ rows' = [rows EXCEPT ![job[1]][job[2]] = [label |-> label, signed |-> FALSE]]
  /\ pc' = "send" /\ current' = job /\ todo' = todo \ {job}
  /\ UNCHANGED <<world, fresh, left, looking, today, tally>>

(* A read or a write before the row failed. *)
SaveFails(job) ==
  /\ pc = "days" /\ IsNext(job)
  /\ Fault
  /\ todo' = StopCell(job)
  /\ UNCHANGED <<world, rows, pc, current, fresh, left, looking, today>>

RecordOf(job) == [cell |-> job[1], day |-> job[2], label |-> rows[job[1]][job[2]].label]

SendDay ==
  /\ pc = "send"
  /\ Land(RecordOf(current))
  /\ pc' = "mark"
  /\ UNCHANGED <<flight, rows, todo, current, fresh, left, looking, today, tally>>

SendRefused ==
  /\ pc = "send"
  /\ ~Takes(RecordOf(current))
  /\ pc' = "days" /\ todo' = StopCell(current) /\ current' = NoJob
  /\ UNCHANGED <<world, rows, fresh, left, looking, today, tally>>

(* Mutant: a transaction without an answer is taken for one that landed.   *)
SendTakenForLanded ==
  /\ pc = "send"
  /\ Fault
  /\ \E lost \in SUBSET {RecordOf(current)} : flight' = flight \cup lost
  /\ pc' = "mark"
  /\ UNCHANGED <<chain, published, policy, rows, todo, current, fresh, left, looking, today>>

(* The transaction was never sent, or it was and its answer never came:    *)
(* then it may land at any later moment, or never.                         *)
SendFails ==
  /\ pc = "send"
  /\ Fault
  /\ \E lost \in SUBSET {RecordOf(current)} : flight' = flight \cup lost
  /\ pc' = "days" /\ todo' = StopCell(current) /\ current' = NoJob
  /\ UNCHANGED <<chain, published, policy, rows, fresh, left, looking, today>>

MarkDaySubmitted ==
  /\ pc = "mark"
  /\ rows' = [rows EXCEPT ![current[1]][current[2]].signed = TRUE]
  /\ fresh' = fresh \cup {current[1]}
  /\ pc' = "days" /\ current' = NoJob
  /\ UNCHANGED <<world, todo, left, looking, today, tally>>

MarkFails ==
  /\ pc = "mark"
  /\ Fault
  /\ pc' = "days" /\ todo' = StopCell(current) /\ current' = NoJob
  /\ UNCHANGED <<world, rows, fresh, left, looking, today>>

DaysDone ==
  /\ pc = "days" /\ todo = {}
  /\ pc' = "settle" /\ left' = fresh
  /\ UNCHANGED <<world, rows, todo, current, fresh, looking, today, tally>>

(***************************************************************************)
(* settleAfterDays and closeAfterDays: the cells that got a day this cycle *)
(* and, of each, the policies that were open when the cell was looked at.  *)
(***************************************************************************)

(* Mutant: only signed rows count towards the run.                         *)
DryRowsSigned(c) == {d \in Days : Signed(c, d) /\ rows[c][d].label = "Dry"}

DryRows(c) == {d \in Days : rows[c][d].label = "Dry"}

(* spellInWindow over the worker's own rows reaches the threshold. *)
SeesEvent(p) ==
  LET cover == Cover[p] IN
  HasDrySpell(DryRows(cover.cell), cover.start, cover.end, cover.threshold)

(* Mutant: a row is enough.                                                *)
WindowHasRows(p) ==
  \A d \in Cover[p].start .. Cover[p].end : rows[Cover[p].cell][d] # NoRow

WindowIsFinished(p) ==
  \A d \in Cover[p].start .. Cover[p].end : Signed(Cover[p].cell, d)

OpenPolicies(c) ==
  /\ pc \in {"settle", "close"} /\ looking = {}
  /\ c \in left /\ \A other \in left : c <= other
  /\ left' = left \ {c}
  /\ looking' = {p \in PolicyIds : Cover[p].cell = c /\ policy[p] = "Active"}
  /\ UNCHANGED <<world, rows, pc, todo, current, fresh, today, tally>>

WorthACall(p) ==
  IF pc = "settle" THEN SeesEvent(p) ELSE WindowIsFinished(p) /\ ~SeesEvent(p)

Call(p) ==
  policy' = IF pc = "settle"
              THEN [policy EXCEPT ![p] = IF MaySettle(p) THEN "Settled" ELSE @]
              ELSE [policy EXCEPT ![p] = IF MayClose(p) THEN "Closed" ELSE @]

Dispatch(p) ==
  /\ pc \in {"settle", "close"} /\ p \in looking
  /\ looking' = looking \ {p}
  /\ IF WorthACall(p) THEN Call(p) ELSE UNCHANGED policy
  /\ UNCHANGED <<chain, published, flight, rows, pc, todo, current, fresh, left, today, tally>>

(* The transaction did not land.  One that landed without an answer is a   *)
(* Dispatch: the worker keeps nothing of either.                           *)
DispatchFails(p) ==
  /\ pc \in {"settle", "close"} /\ p \in looking /\ WorthACall(p)
  /\ Fault
  /\ looking' = looking \ {p}
  /\ UNCHANGED <<world, rows, pc, todo, current, fresh, left, today>>

SettleDone ==
  /\ pc = "settle" /\ left = {} /\ looking = {}
  /\ pc' = "close" /\ left' = fresh
  /\ UNCHANGED <<world, rows, todo, current, fresh, looking, today, tally>>

CycleDone ==
  /\ pc = "close" /\ left = {} /\ looking = {}
  /\ pc' = "idle" /\ fresh' = {}
  /\ swept' = (swept \/ ~dirty) /\ dirty' = FALSE
  /\ UNCHANGED <<world, rows, todo, current, left, looking, today, faults, missed>>

(***************************************************************************)
(* The process dies, or an error no dispatcher catches ends the cycle.     *)
(***************************************************************************)
Crash ==
  /\ pc # "idle"
  /\ Fault
  /\ \E lost \in SUBSET (IF pc = "send" THEN {RecordOf(current)} ELSE {}) :
       flight' = flight \cup lost
  /\ pc' = "idle" /\ todo' = {} /\ current' = NoJob
  /\ fresh' = {} /\ left' = {} /\ looking' = {}
  /\ UNCHANGED <<chain, published, policy, rows, today>>

(***************************************************************************)
(* The clock.  A cycle turns every few seconds, so a day that ends without *)
(* one whole cycle free of faults is an outage, and counted as one.        *)
(***************************************************************************)
Tick ==
  /\ today < MaxDay
  /\ swept \/ missed < MaxMissed
  /\ missed' = IF swept THEN missed ELSE missed + 1
  /\ today' = today + 1
  /\ swept' = FALSE /\ dirty' = (pc # "idle")
  /\ UNCHANGED <<world, rows, memory, faults>>

WorkerStep ==
  \/ StartCycle
  \/ \E job \in Jobs, label \in Labels : SaveDay(job, label)
  \/ SendDay
  \/ SendRefused
  \/ MarkDaySubmitted
  \/ DaysDone
  \/ \E c \in CellIds : OpenPolicies(c)
  \/ \E p \in PolicyIds : Dispatch(p)
  \/ SettleDone
  \/ CycleDone

FaultStep ==
  \/ \E job \in Jobs : SaveFails(job)
  \/ SendFails
  \/ MarkFails
  \/ \E p \in PolicyIds : DispatchFails(p)
  \/ Crash

Next ==
  \/ WorkerStep
  \/ FaultStep
  \/ \E tx \in flight : FlightLands(tx)
  \/ \E tx \in flight : FlightEnds(tx)
  \/ \E p \in PolicyIds : SomeoneElseActs(p)
  \/ Tick

Spec == Init /\ [][Next]_vars

(* The loop goes on and time passes; nothing obliges a lost transaction or *)
(* anybody else, and faults come when they like, but not for ever.         *)
FairSpec == Spec /\ WF_vars(WorkerStep) /\ WF_vars(Tick)

-----------------------------------------------------------------------------
TypeOK ==
  /\ chain \in [CellIds -> Cells]
  /\ published \in [CellIds -> [Days -> DayStates \cup {Unpublished}]]
  /\ policy \in [PolicyIds -> {"Active", "Settled", "Closed"}]
  /\ flight \subseteq Transactions
  /\ rows \in [CellIds -> [Days -> Rows \cup {NoRow}]]
  /\ pc \in {"idle", "days", "send", "mark", "settle", "close"}
  /\ todo \subseteq Jobs
  /\ IF pc \in {"send", "mark"} THEN current \in Jobs ELSE current = NoJob
  /\ fresh \subseteq CellIds /\ left \subseteq CellIds /\ looking \subseteq PolicyIds
  /\ today \in Days
  /\ faults \in 0 .. MaxFaults /\ missed \in 0 .. MaxMissed
  /\ dirty \in BOOLEAN /\ swept \in BOOLEAN

(* Whatever crashes, is lost or lands late: a record on chain has a row    *)
(* that explains it, and a signature stands beside the very label that is  *)
(* on chain, although an unsigned row may have been computed again since   *)
(* its transaction was sent.  closeCellDay's order of writes is for this.  *)
RowsExplainTheChain ==
  \A c \in CellIds, d \in Days :
    /\ published[c][d] # Unpublished => rows[c][d] # NoRow
    /\ Signed(c, d) => published[c][d] = rows[c][d].label

(* A closure the worker thinks worth a call is one the program grants,     *)
(* while the ring still holds the window: the signatures close.ts asks for *)
(* make its own rows as good as the chain's log.                           *)
ClosuresAreNotInVain ==
  \A p \in looking :
    /\ pc = "close" /\ WorthACall(p) /\ policy[p] = "Active"
    /\ chain[Cover[p].cell].first <= Cover[p].start
    => MayClose(p)

(* The log only grows forwards, so a day passed over is lost: a record     *)
(* passes over nothing but days the backlog no longer reaches.             *)
SkipsOnlyOldDays ==
  [][\A c \in CellIds :
       \A d \in chain[c].last + 1 .. chain'[c].last - 1 : d < OldestBacklogDay]_vars

(* No day is lost to crashes, failures and lost answers alone, as long as  *)
(* one cycle a day goes through; nor to an outage shorter than the backlog *)
(* alone.  Together they may lose one.                                     *)
NoDayIsLost ==
  missed = 0 \/ (faults = 0 /\ missed < Backlog)
    => \A c \in CellIds, d \in Days : d < OldestBacklogDay => published[c][d] # Unpublished

(* One cell's failure is not a reason for the rest of the network to miss  *)
(* a day: once the days are closed, no more cells lack a day than there    *)
(* were faults.  (Yesterday may have ended after the cycle began.)         *)
FaultsStopOneCellEach ==
  pc = "settle" /\ missed = 0 =>
    Cardinality({c \in CellIds :
      \E d \in OldestBacklogDay .. today - 2 : published[c][d] = Unpublished}) <= faults

(* A day the chain has and the database thinks it has not blocks its cell, *)
(* but not for ever: the log comes to pass every day.                      *)
DaysReachTheChain ==
  \A c \in CellIds, d \in Days :
    d + Backlog < MaxDay => (today > d ~> chain[c].last >= d)

(* An event on chain is settled without anybody but the worker, whatever   *)
(* the faults, as long as they end and the days do not: SC-001 without its *)
(* sixty seconds.  Needs the rows' labels to be those on chain (Relabels). *)
OwedIsSettled ==
  \A p \in PolicyIds :
    Cover[p].end + 2 * Backlog + MaxFaults <= MaxDay => (MaySettle(p) ~> policy[p] # "Active")

(***************************************************************************)
(* What the comments of the worker say, and the code does not do.          *)
(***************************************************************************)

(* windowIsFinished is "whether the chain can answer for every day of the  *)
(* window".                                                                *)
FinishedIsAnswered ==
  pc = "idle" /\ flight = {} =>
    \A p \in PolicyIds : policy[p] = "Active" /\ WindowComplete(p) => WindowIsFinished(p)
=============================================================================
