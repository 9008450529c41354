------------------------------- MODULE DayLog -------------------------------
(***************************************************************************)
(* One cell's day log under its only writer.  The aggregator calls         *)
(* submit_day_record with whatever day it has just closed, in whatever     *)
(* order its backlog produces; check_day_record and record_day decide      *)
(* which of those calls the chain accepts.  The clock moves on its own.    *)
(***************************************************************************)
EXTENDS DayRing

CONSTANTS
  MinSensors,  (* Pool::min_sensors_per_cell, positive by PoolParams::validate *)
  MaxDay       (* the bound on the clock, in days                              *)

ASSUME DayLogAssumption == MinSensors \in Nat \ {0} /\ MaxDay \in Nat

VARIABLES
  cell,   (* the CellState account *)
  today   (* Pool::day_index(now)  *)

vars == <<cell, today>>

(***************************************************************************)
(* What check_day_record asks.  The rainfall, the coverage counts and the  *)
(* label of one record agree (check_coverage, check_classification) or the *)
(* record is refused, so a record is its label and its voters.             *)
(***************************************************************************)
AcceptableRecord(day, state, voters) ==
  /\ day < today
  /\ IF state = "NoCoverage" THEN voters = {} ELSE Cardinality(voters) >= MinSensors

Init == cell = EmptyCell /\ today = 0

SubmitDayRecord(day, state, voters) ==
  /\ AcceptableRecord(day, state, voters)
  /\ IsNewer(cell, day)
  /\ cell' = RecordDay(cell, day, state, voters)
  /\ UNCHANGED today

Tick == today < MaxDay /\ today' = today + 1 /\ UNCHANGED cell

Next ==
  \/ \E day \in 0 .. MaxDay, state \in DayStates, voters \in SUBSET SensorSlots :
       SubmitDayRecord(day, state, voters)
  \/ Tick

Spec == Init /\ [][Next]_vars

-----------------------------------------------------------------------------
TypeOK == cell \in Cells /\ today \in 0 .. MaxDay

(* The window of the log is the LogLen days up to the last record, from    *)
(* day 0 on: advance_window and record_day keep first and last in step, so *)
(* the log never claims more days than the ring has slots, and never stops *)
(* answering for a day it still has room for.                              *)
WindowTracksLast == TracksLast(cell)

(* price_of reads every slot of the ring and no window: the price is right *)
(* because each measured day of the window is counted in one slot, and no  *)
(* slot counts for a day that was skipped, has left or never came.         *)
PriceCountsTheWindow ==
  /\ Cardinality(CoveredSlots(cell)) = Cardinality(CoveredDays(cell))
  /\ Cardinality(DrySlots(cell)) = Cardinality(DryDays(cell))

(* A day with a measured state was voted on by the pool's minimum, and a   *)
(* day without coverage by nobody: claims and underwriting read the mask   *)
(* through latest_votes and slot_voted, long after the day was checked.    *)
VotesBehindEveryMeasuredDay ==
  \A d \in cell.first .. cell.last :
    LET votes == Cardinality(ContributorsOf(cell, d)) IN
    IF DayStateOf(cell, d) = "NoCoverage" THEN votes = 0 ELSE votes >= MinSensors

(* What a policy may have been settled on is never rewritten: an answer,   *)
(* once given, is kept until the day leaves the ring, and a day that was   *)
(* passed over or has left is never answered anew.                         *)
KeepsAnswers ==
  \A d \in 0 .. MaxDay :
    LET before == DayStateOf(cell, d)
        after  == DayStateOf(cell, d)' IN
    /\ before # Unknown => after = before \/ (after = Unknown /\ d < cell'.first)
    /\ before = Unknown /\ d <= cell.last => after = Unknown

AnswersAreFinal == [][KeepsAnswers]_vars

(***************************************************************************)
(* The ring implements the sheet of DayWindow: what it answers for a day   *)
(* is what was written for that day and for no other.                      *)
(***************************************************************************)
EntryOf(day) == <<DayStateOf(cell, day), ContributorsOf(cell, day)>>

Sheet == INSTANCE DayWindow WITH
  Days    <- 0 .. MaxDay,
  LogLen  <- LogLen,
  Entries <- DayStates \X SUBSET SensorSlots,
  NoEntry <- <<"NoCoverage", {}>>,
  last    <- cell.last,
  sheet   <- [d \in {x \in 0 .. cell.last : HoldsDay(cell, x)} |-> EntryOf(d)]

(* Every step of the ring is a line written on the sheet, or no line. *)
ImplementsSheet == Sheet!Spec
=============================================================================
