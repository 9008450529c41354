--------------------------- MODULE RewardSchedule ---------------------------
(***************************************************************************)
(* The reward ledger of one cell: CellRewards of                           *)
(* programs/pumpking/src/state.rs.  A premium's reward share is laid out   *)
(* over the days of the policy's window on a ring indexed by               *)
(* day % REWARD_SCHEDULE_DAYS; each day, when the aggregator pays it,      *)
(* hands its budget to the slots that earned it.  Operators on a record;   *)
(* Policies lays out and pays with them.                                   *)
(*                                                                         *)
(* u64 arithmetic is checked in the code: a step whose ledger would leave  *)
(* Ledgers is refused, and the module that takes the step says so in its   *)
(* guard.                                                                  *)
(***************************************************************************)
EXTENDS Integers, Functions

CONSTANTS
  ScheduleLen,  (* REWARD_SCHEDULE_DAYS, 512 on chain          *)
  SensorSlots,  (* the addressable values of slot_in_cell      *)
  MaxMoney      (* u64::MAX, scaled: the bound on every amount *)

Money == 0 .. MaxMoney

ScheduleSlots == 0 .. ScheduleLen - 1

ScheduleSlot(day) == day % ScheduleLen

Ledgers ==
  [opened : BOOLEAN, next : Nat, reserve : Money,
   accrued : [SensorSlots -> Money], schedule : [ScheduleSlots -> Money]]

(* Not yet opened by the aggregator: pay_cell_day starts from this. *)
ClosedLedger ==
  [opened   |-> FALSE,
   next     |-> 0,
   reserve  |-> 0,
   accrued  |-> [s \in SensorSlots |-> 0],
   schedule |-> [s \in ScheduleSlots |-> 0]]

(* pay_cell_day's `fresh` branch. *)
OpenLedger(day) == [ClosedLedger EXCEPT !.opened = TRUE, !.next = day]

BudgetOf(r, day) ==
  IF r.next <= day /\ day < r.next + ScheduleLen THEN r.schedule[ScheduleSlot(day)] ELSE 0

(***************************************************************************)
(* Laying a share out.                                                     *)
(***************************************************************************)

(* Neither BeforeSchedule nor TooFarAhead. *)
CanSchedule(r, start, end) ==
  r.next <= start /\ start <= end /\ end < r.next + ScheduleLen

(* The remainder of the division goes one unit each to the first days. *)
ShareOfDay(amount, start, end, day) ==
  LET days == end - start + 1 IN
  amount \div days + (IF day - start < amount % days THEN 1 ELSE 0)

(* The one day of the horizon a slot stands for. *)
DayInSlot(r, s) == r.next + ((s - r.next) % ScheduleLen)

ScheduleWindow(r, amount, start, end) ==
  [r EXCEPT
     !.schedule = [s \in ScheduleSlots |->
                    LET day == DayInSlot(r, s) IN
                    r.schedule[s]
                      + IF day \in start .. end THEN ShareOfDay(amount, start, end, day) ELSE 0],
     !.reserve  = @ + amount]

(***************************************************************************)
(* Paying a day.                                                           *)
(***************************************************************************)

(* Mutant: the last of the skipped days is not returned and keeps its      *)
(* budget.                                                                 *)
SkippedSlotsButLast(r, day) == {ScheduleSlot(d) : d \in r.next .. day - 2}

(* The slots of the days the aggregator never paid, up to this one. *)
SkippedSlots(r, day) ==
  IF day - r.next >= ScheduleLen
    THEN ScheduleSlots
    ELSE {ScheduleSlot(d) : d \in r.next .. day - 1}

(* What each slot gets of the day, rounded down; nobody, if nobody earned. *)
EarnedOf(budget, weights) ==
  LET total == SumFunction(weights) IN
  [s \in SensorSlots |-> IF total = 0 THEN 0 ELSE (budget * weights[s]) \div total]

(* Mutant: the dust of the division is not returned.                       *)
ReturnedWithoutDust(r, day, weights) ==
  SumFunctionOnSet(r.schedule, SkippedSlots(r, day))
    + IF SumFunction(weights) = 0 THEN BudgetOf(r, day) ELSE 0

(* Back to capital: the skipped days, the unearned day and the dust. *)
ReturnedBy(r, day, weights) ==
  LET budget == BudgetOf(r, day) IN
  SumFunctionOnSet(r.schedule, SkippedSlots(r, day))
    + (budget - SumFunction(EarnedOf(budget, weights)))

PayDay(r, day, weights) ==
  LET earned == EarnedOf(BudgetOf(r, day), weights) IN
  [r EXCEPT
     !.schedule = [s \in ScheduleSlots |->
                    IF s \in SkippedSlots(r, day) \cup {ScheduleSlot(day)}
                      THEN 0 ELSE r.schedule[s]],
     !.accrued  = [s \in SensorSlots |-> r.accrued[s] + earned[s]],
     !.reserve  = @ - ReturnedBy(r, day, weights),
     !.next     = day + 1]

(* Mutant: the reserve is not reduced by what was claimed.                 *)
TakeAccruedKeepingReserve(r, slot) == [r EXCEPT !.accrued[slot] = 0]

(* Everything a slot has earned, taken and no longer kept for it. *)
TakeAccrued(r, slot) ==
  [r EXCEPT !.accrued[slot] = 0, !.reserve = @ - r.accrued[slot]]
=============================================================================
