------------------------------ MODULE DayRing ------------------------------
(***************************************************************************)
(* The day log of one cell: CellState of programs/pumpking/src/state.rs.   *)
(* The account keeps the last DAY_LOG_LEN days in a ring: two arrays       *)
(* indexed by day % DAY_LOG_LEN, and the first and the last day they       *)
(* answer for.  This module holds the operations of CellState as operators *)
(* on a record; DayLog runs them against a clock, Policies sells and       *)
(* settles cover on them.                                                  *)
(*                                                                         *)
(* What is abstracted: the contributors' bitmask is the set of the sensor  *)
(* slots whose bit is set, and a day's byte is its DayState.               *)
(***************************************************************************)
EXTENDS Integers, FiniteSets

CONSTANTS
  LogLen,       (* DAY_LOG_LEN, the days the ring holds: 128 on chain *)
  SensorSlots   (* the addressable values of slot_in_cell             *)

ASSUME LogLenAssumption == LogLen \in Nat \ {0}
ASSUME SensorSlotsAssumption == IsFiniteSet(SensorSlots)

DayStates == {"NoCoverage", "Dry", "Wet"}

(* day_state's None: a day the log cannot answer for.  It is not a state.  *)
Unknown == "Unknown"

(* last_day_index's None.  Smaller than every day, which is what makes the *)
(* comparisons below agree with the code's match on the Option.            *)
NoDay == -1

RingSlots == 0 .. LogLen - 1

RingSlot(day) == day % LogLen

Cells ==
  [first : Nat, last : Nat \cup {NoDay},
   log : [RingSlots -> DayStates], contributors : [RingSlots -> SUBSET SensorSlots]]

(* An account init_if_needed has just opened: all zeroes. *)
EmptyCell ==
  [first        |-> 0,
   last         |-> NoDay,
   log          |-> [s \in RingSlots |-> "NoCoverage"],
   contributors |-> [s \in RingSlots |-> {}]]

(***************************************************************************)
(* Reading.                                                                *)
(***************************************************************************)
(* Mutant: the first day of the window is left out.                        *)
HoldsDayAfterFirst(cell, day) == cell.last # NoDay /\ cell.first < day /\ day <= cell.last

HoldsDay(cell, day) == cell.last # NoDay /\ cell.first <= day /\ day <= cell.last

DayStateOf(cell, day) ==
  IF HoldsDay(cell, day) THEN cell.log[RingSlot(day)] ELSE Unknown

(* Defined where the log holds the day; contributors_of answers None       *)
(* elsewhere, and every reader treats that as nobody.                      *)
ContributorsOf(cell, day) ==
  IF HoldsDay(cell, day) THEN cell.contributors[RingSlot(day)] ELSE {}

LatestVotes(cell) == Cardinality(ContributorsOf(cell, cell.last))

(* Days the ring counts towards the price: dry_day_frequency_bps reads all *)
(* the slots, those outside the window too.                                *)
CoveredSlots(cell) == {s \in RingSlots : cell.log[s] # "NoCoverage"}
DrySlots(cell)     == {s \in RingSlots : cell.log[s] = "Dry"}

(***************************************************************************)
(* Writing.                                                                *)
(***************************************************************************)

(* Mutant: the slot of the oldest day is not emptied.                      *)
SlotsLeftButFirst(cell, f) == {RingSlot(d) : d \in cell.first + 1 .. f - 1}

(* The slots advance_window empties when the window's first day becomes f. *)
SlotsLeft(cell, f) ==
  IF f - cell.first >= LogLen
    THEN RingSlots
    ELSE {RingSlot(d) : d \in cell.first .. f - 1}

AdvanceWindow(cell, day) ==
  IF day < cell.first + LogLen
    THEN cell
    ELSE LET f == day - LogLen + 1 IN
         [cell EXCEPT
            !.first        = f,
            !.log          = [s \in RingSlots |->
                               IF s \in SlotsLeft(cell, f) THEN "NoCoverage" ELSE cell.log[s]],
            !.contributors = [s \in RingSlots |->
                               IF s \in SlotsLeft(cell, f) THEN {} ELSE cell.contributors[s]]]

(* Mutant: any day the ring still has room for may be recorded.            *)
IsNotPast(cell, day) == day >= cell.first

(* record_day's refusal: DayLogError::NotNewer *)
IsNewer(cell, day) == day > cell.last

RecordDay(cell, day, state, voters) ==
  [AdvanceWindow(cell, day) EXCEPT
     !.log[RingSlot(day)]          = state,
     !.contributors[RingSlot(day)] = voters,
     !.last                        = day]

(***************************************************************************)
(* What the readers of a ring rely on.                                     *)
(***************************************************************************)

(* The window is the LogLen days up to the last record, from day 0 on. *)
TracksLast(cell) ==
  /\ cell.last = NoDay => cell.first = 0
  /\ cell.last # NoDay =>
       cell.first = IF cell.last < LogLen THEN 0 ELSE cell.last - LogLen + 1

(* A slot that stands for no day of the window is zero. *)
OnlyWindowFilled(cell) ==
  \A s \in RingSlots :
    \/ \E d \in cell.first .. cell.last : RingSlot(d) = s
    \/ cell.log[s] = "NoCoverage" /\ cell.contributors[s] = {}

(***************************************************************************)
(* The index of a policy.                                                  *)
(***************************************************************************)

(* The days the log answers a measured label for, and those it answers     *)
(* "dry" for.                                                              *)
CoveredDays(cell) == {d \in cell.first .. cell.last : DayStateOf(cell, d) \in {"Dry", "Wet"}}
DryDays(cell) == {d \in cell.first .. cell.last : DayStateOf(cell, d) = "Dry"}

(* spell_in_window's longest is at least n: n days in a row, all dry and   *)
(* all inside the window.  DrySpell runs the loop and proves they agree.   *)
HasDrySpell(dry, start, end, n) ==
  \E d \in start .. end : d + n - 1 <= end /\ d .. d + n - 1 \subseteq dry

(* WindowSpell::complete: the log answers for every day of the window. *)
IsComplete(cell, start, end) == \A d \in start .. end : HoldsDay(cell, d)
=============================================================================
