----------------------------- MODULE Reference -----------------------------
(***************************************************************************)
(* The public reference beside the log: a day on chain is compared with    *)
(* what a weather service says, and a cell that is disputed too often      *)
(* stops selling cover (apps/worker/src/reference.ts and investigate.ts,   *)
(* packages/shared/src/reference.ts, packages/db/src/reference-store.ts,   *)
(* programs/pumpking/src/instructions/investigation.rs).                   *)
(*                                                                         *)
(* A tick is a part of a day.  The hours of a day are abstracted to their  *)
(* total, which an answer either completes or does not; what the source    *)
(* says is free, and may differ from one answer to the next.  A day's row  *)
(* is written and signed by the cycle, in the order of the days, before    *)
(* these steps (Worker has that part).                                     *)
(***************************************************************************)
EXTENDS Integers, Sequences, Functions, FiniteSets, FiniteSetsExt

CONSTANTS
  RefCells, RefDaysOf,      \* cells, and the days of each that are looked at
  RefDayTicks, RefSettle,   \* a day, and how long after it the reference settles
  RefWindow,                \* REFERENCE_WINDOW_DAYS
  RefEvery,                 \* REFERENCE_EVERY_MS
  RainfallsOf, Totals,      \* what a cell measures, if anything, and the reference's totals
  DryMost, Tolerance,       \* the pool's threshold, DISPUTE_TOLERANCE_X100
  DisputesWindow, DisputedDays, \* INVESTIGATION_WINDOW_DAYS, .._DISPUTED_DAYS
  MaxRefTime

ASSUME ReferenceAssumption ==
  /\ RefCells \subseteq Nat /\ IsFiniteSet(RefCells) /\ \A c \in RefCells : RefDaysOf[c] \subseteq Nat
  /\ {RefDayTicks, DisputedDays, RefEvery} \subseteq Nat \ {0}
  /\ {RefSettle, RefWindow, DisputesWindow, DryMost, Tolerance} \subseteq Nat

None == {}   \* an option is a set of at most one value

VARIABLES
  refNow,
  applies,    \* the pool's clock counts real days
  dayRows,    \* cell_days: cell -> day -> row
  hoursKept,  \* reference_hours: cell -> day -> the total kept, if any
  lastTry, lastAsked, \* the checker's memory
  checking,   \* what the step is in the middle of
  waited,     \* attempts that have asked others since the cell was waiting
  flagged     \* under_investigation, on chain

refVars == <<refNow, applies, dayRows, hoursKept, lastTry, lastAsked, checking, waited, flagged>>
clockAndChain == <<refNow, applies, flagged>>

RefToday(t) == t \div RefDayTicks
From(day)   == day * RefDayTicks
Idle        == [step |-> "idle"]

RefRow(c, d) == dayRows[c][d]
RefRows(c)   == DOMAIN dayRows[c]

(***************************************************************************)
(* The verdict on a day.                                                   *)
(***************************************************************************)
LabelOf(rain) == IF rain = None THEN "NoCoverage"
                 ELSE IF \A x \in rain : x <= DryMost THEN "Dry" ELSE "Wet"

Apart(x, y) == IF x < y THEN y - x ELSE x - y

(* The classes differ, and by enough to matter. *)
JudgeDay(row, total) ==
  IF row.state = "NoCoverage" \/ row.rain = None THEN "unchecked"
  ELSE IF /\ (row.state = "Dry") # (total <= DryMost)
          /\ \A x \in row.rain : Apart(x, total) >= Tolerance
       THEN "disputed" ELSE "agrees"

(* Mutant: days that are not on chain yet are compared too. *)
PendingDaysUnsigned(c, fromDay) ==
  {d \in RefRows(c) : d >= fromDay /\ RefRow(c, d).reference = "pending"}

PendingDays(c, fromDay) ==
  {d \in RefRows(c) : d >= fromDay /\ RefRow(c, d).signed /\ RefRow(c, d).reference = "pending"}

Settled(days, at) == {d \in days : From(d + 1) + RefSettle <= at}

(* One request covers a cell's days from the first to the last.            *)
Asked(days) == Min(days) .. Max(days)

(* A verdict is written only over a day still pending.                     *)
WithVerdicts(rowsOf, days, totals) ==
  [d \in DOMAIN rowsOf |->
     IF d \in days \cap DOMAIN totals /\ rowsOf[d].reference = "pending"
     THEN [rowsOf[d] EXCEPT !.reference = JudgeDay(rowsOf[d], totals[d]), !.total = {totals[d]}]
     ELSE rowsOf[d]]

(* The totals of an answer replace those kept before it. *)
Kept(totals, old) ==
  [d \in DOMAIN totals \cup DOMAIN old |-> IF d \in DOMAIN totals THEN totals[d] ELSE old[d]]

GiveUp(beforeDay) ==
  [c \in RefCells |->
     [d \in RefRows(c) |->
        IF d < beforeDay /\ RefRow(c, d).reference = "pending"
        THEN [RefRow(c, d) EXCEPT !.reference = "unchecked"] ELSE RefRow(c, d)]]

(* The query's order. *)
InOrder(cells) ==
  CHOOSE queue \in [1 .. Cardinality(cells) -> cells] : \A i, j \in DOMAIN queue : i < j => queue[i] < queue[j]

(* Mutant: each attempt begins with the last cell asked. *)
FromLast(cells, last) == InOrder({c \in cells : c >= last}) \o InOrder({c \in cells : c < last})

(* The cells in order, beginning after the last one asked. *)
FromAfter(cells, last) == InOrder({c \in cells : c > last}) \o InOrder({c \in cells : c <= last})

(***************************************************************************)
(* When a cell's disagreement is systematic.                               *)
(***************************************************************************)
(* Mutant: days disputed in either direction. *)
DisputedAnyDays(c, fromDay) ==
  {d \in RefRows(c) : d >= fromDay /\ RefRow(c, d).reference = "disputed"}

DisputedDryDays(c, fromDay) ==
  {d \in RefRows(c) : d >= fromDay /\ RefRow(c, d).state = "Dry" /\ RefRow(c, d).reference = "disputed"}

InvestigationDays(c, today) ==
  LET inWindow == {d \in DisputedDryDays(c, Max({0, today - DisputesWindow})) :
                     d < today /\ today - d <= DisputesWindow}
  IN IF Cardinality(inWindow) >= DisputedDays THEN inWindow ELSE {}

(* The chain's half.  Its log answers for as many days as the window has.  *)
ChainDry(c, d) ==
  LET recorded == {x \in RefRows(c) : RefRow(c, x).signed} IN
  d \in recorded /\ Max(recorded) - d < DisputesWindow /\ RefRow(c, d).state = "Dry"

CheckDisputedDays(days, c, today) ==
  /\ Cardinality(days) >= DisputedDays
  /\ \A d \in days : d < today /\ today - d <= DisputesWindow /\ ChainDry(c, d)

(***************************************************************************)
(* The steps.                                                              *)
(***************************************************************************)
ReferenceInit ==
  /\ refNow = 0 /\ applies \in BOOLEAN
  /\ dayRows = [c \in RefCells |-> <<>>]
  /\ hoursKept = [c \in RefCells |-> <<>>]
  /\ lastTry = None /\ lastAsked = -1 /\ checking = Idle
  /\ waited = [c \in RefCells |-> 0]
  /\ flagged = {}

RefTick ==
  /\ refNow < MaxRefTime /\ refNow' = refNow + 1
  /\ UNCHANGED <<applies, dayRows, hoursKept, lastTry, lastAsked, checking, waited, flagged>>

(* The cycle writes the row of a day that is over, or writes an unsigned   *)
(* one again, and may get it on chain.  saveDay leaves the verdict alone.  *)
CloseRefDay(c, d, rain, signed) ==
  /\ checking = Idle /\ From(d + 1) <= refNow
  /\ \A x \in RefRows(c) : RefRow(c, x).signed => x < d
  /\ LET old == IF d \in RefRows(c) THEN RefRow(c, d) ELSE [reference |-> "pending", total |-> None] IN
     dayRows' = [dayRows EXCEPT ![c] =
       [x \in RefRows(c) \cup {d} |-> IF x = d
          THEN [state |-> LabelOf(rain), rain |-> rain, signed |-> signed,
                reference |-> old.reference, total |-> old.total]
          ELSE RefRow(c, x)]]
  /\ UNCHANGED <<hoursKept, lastTry, lastAsked, checking, waited>> /\ UNCHANGED clockAndChain

Due == \A t \in lastTry : refNow - t >= RefEvery

(* The period counts from the attempt, whatever comes of it.               *)
BeginCheck ==
  /\ checking = Idle /\ Due /\ lastTry' = {refNow}
  /\ LET fromDay == Max({0, RefToday(refNow) - RefWindow})
         rowsOf  == GiveUp(IF applies THEN fromDay ELSE MaxRefTime + 1)
         ready   == [c \in RefCells |-> Settled(PendingDays(c, fromDay), refNow)]
         waiting == {c \in RefCells : ready[c] # {}}
     IN /\ dayRows' = rowsOf
        /\ waited' = [c \in RefCells |-> IF c \in waiting THEN waited[c] ELSE 0]
        /\ checking' = IF applies /\ waiting # {}
                       THEN [step |-> "asking", at |-> refNow, ready |-> ready,
                             queue |-> FromAfter(waiting, lastAsked)]
                       ELSE [step |-> "asked", at |-> refNow]
  /\ UNCHANGED <<lastAsked, hoursKept>> /\ UNCHANGED clockAndChain

(* The store fails, before or after it gave up the old days.               *)
CheckFails ==
  /\ checking = Idle /\ Due /\ lastTry' = {refNow}
  /\ dayRows' \in {dayRows, GiveUp(Max({0, RefToday(refNow) - RefWindow}))}
  /\ applies \/ dayRows' = dayRows
  /\ checking' = [step |-> "asked", at |-> refNow]
  /\ UNCHANGED <<lastAsked, hoursKept, waited>> /\ UNCHANGED clockAndChain

(* The next cell: it answers, fails, or has not answered when the budget   *)
(* ends; the budget may end after it too.                                  *)
AskCell ==
  /\ checking.step = "asking"
  /\ LET c    == Head(checking.queue)
         days == checking.ready[c]
         rest == Tail(checking.queue)
         answers == UNION {[ds -> Totals] : ds \in SUBSET Asked(days)}
     IN /\ lastAsked' = c
        /\ waited' = [x \in RefCells |-> IF x = c THEN 0
                        ELSE IF x \in Range(rest) THEN waited[x] + 1 ELSE waited[x]]
        /\ \/ \E totals \in answers :
                /\ dayRows' = [dayRows EXCEPT ![c] = WithVerdicts(@, days, totals)]
                /\ hoursKept' = [hoursKept EXCEPT ![c] = Kept(totals, @)]
           \/ UNCHANGED <<dayRows, hoursKept>>
        /\ \E more \in BOOLEAN :
             checking' = IF more /\ rest # <<>> THEN [checking EXCEPT !.queue = rest]
                         ELSE [step |-> "asked", at |-> checking.at]
  /\ UNCHANGED lastTry /\ UNCHANGED clockAndChain

(* Every cell the rule fires for is looked at, in whatever order, and the  *)
(* call may fail.                                                          *)
Investigate ==
  /\ checking.step = "asked" /\ checking' = Idle
  /\ LET today == RefToday(checking.at)
         fired == {c \in RefCells : InvestigationDays(c, today) # {}}
         taken == {c \in fired \ flagged : CheckDisputedDays(InvestigationDays(c, today), c, RefToday(refNow))}
     IN \E opened \in SUBSET taken : flagged' = flagged \cup opened
  /\ UNCHANGED <<refNow, applies, dayRows, hoursKept, lastTry, lastAsked, waited>>

(* Only the pool's authority closes one.                                   *)
CloseInvestigationOf(c) ==
  /\ c \in flagged /\ flagged' = flagged \ {c}
  /\ UNCHANGED <<refNow, applies, dayRows, hoursKept, lastTry, lastAsked, checking, waited>>

(* What the checker remembers is lost with its process.                    *)
CrashCheck ==
  /\ checking' = Idle /\ lastTry' = None /\ lastAsked' = -1
  /\ waited' = [c \in RefCells |-> 0]
  /\ UNCHANGED <<dayRows, hoursKept>> /\ UNCHANGED clockAndChain

ReferenceNext ==
  \/ RefTick \/ BeginCheck \/ CheckFails \/ AskCell \/ Investigate \/ CrashCheck
  \/ \E c \in RefCells : CloseInvestigationOf(c)
  \/ \E c \in RefCells : \E d \in RefDaysOf[c] :
       \E rain \in RainfallsOf[c], signed \in BOOLEAN : CloseRefDay(c, d, rain, signed)

ReferenceSpec == ReferenceInit /\ [][ReferenceNext]_refVars

(***************************************************************************)
(* Properties.                                                             *)
(***************************************************************************)
(* A verdict is on the label the chain holds, by the total the reference   *)
(* gave: a row closed again after it was judged would carry a verdict on   *)
(* another day than the one on chain.  The hours behind it are kept.       *)
VerdictsAreOfTheLog ==
  \A c \in RefCells : \A d \in RefRows(c) :
    LET row == RefRow(c, d) IN
    /\ row.reference \in {"agrees", "disputed"} => row.signed /\ row.total # None
    /\ row.total # None => d \in DOMAIN hoursKept[c]
    /\ \A total \in row.total : row.reference = JudgeDay(row, total)

(* What the worker sends is what the program takes: the days it names are  *)
(* in the program's window, in its ring and dry there, unless a day passes *)
(* between the reading and the call.                                       *)
NamedDaysAreAccepted ==
  checking.step = "asked" =>
    \A c \in RefCells :
      LET today == RefToday(checking.at)  days == InvestigationDays(c, today) IN
      days # {} => CheckDisputedDays(days, c, today)

(* The days an investigation opens on were judged on the labels of the     *)
(* log, and the program takes them.                                        *)
VerdictsReachTheProgram == VerdictsAreOfTheLog /\ NamedDaysAreAccepted

(* A source that hangs or a budget that ends cannot starve a cell: others  *)
(* are asked before it at most once each, as long as the process lives.    *)
NoCellStarves == \A c \in RefCells : waited[c] < Cardinality(RefCells)
=============================================================================
