----------------------------- MODULE Aggregate -----------------------------
(***************************************************************************)
(* What a day of a cell is worth: the arithmetic of apps/worker/src/       *)
(* interval.ts over packages/shared (median, outlier, day, rewards), and   *)
(* the checks the program makes of what comes out of it.  DayClose runs it *)
(* against a registry that changes and a worker that stops half way.       *)
(*                                                                         *)
(* What is abstracted: an option is a set of at most one value; a Merkle   *)
(* root is the sequence, or the set, of what it was computed from (Merkle  *)
(* has the tree); a bitmask is the set of its slots, but for its width.    *)
(***************************************************************************)
EXTENDS Integers, FiniteSets, FiniteSetsExt, Functions

CONSTANTS
  DayTicks,        (* seconds_per_day, in ticks of the clock              *)
  IntervalsPerDay,
  MinimumVotes,    (* min_sensors_per_cell: the worker reads it           *)
  DryThreshold,    (* dry_day_threshold_mm_x100                           *)
  CoverageX100,    (* minimumCoverageX100                                 *)
  OutlierFloor,    (* OUTLIER_FLOOR_X100                                  *)
  OutlierRelBps,   (* OUTLIER_REL_BPS                                     *)
  WeightUnit,      (* REWARD_WEIGHT_UNIT                                  *)
  MaxSlots         (* MAX_SENSORS_PER_CELL, and the width of the bitmask  *)

ASSUME AggregateAssumption ==
  /\ {DayTicks, IntervalsPerDay, MinimumVotes, WeightUnit, MaxSlots} \subseteq Nat \ {0}
  /\ {DryThreshold, OutlierFloor, OutlierRelBps} \subseteq Nat
  /\ CoverageX100 \in 0 .. 100

Bps == 10000
Some(option) == CHOOSE x \in option : TRUE
Magnitude(n) == IF n < 0 THEN -n ELSE n

(***************************************************************************)
(* The clock.                                                              *)
(***************************************************************************)
Intervals == 0 .. IntervalsPerDay - 1

DayIndexAt(at) == at \div DayTicks

(* Divided last: a boundary is off by less than a tick, and never drifts.  *)
IntervalStart(day, i) == ((day * IntervalsPerDay + i) * DayTicks) \div IntervalsPerDay
IntervalEnd(day, i)   == IntervalStart(day, i + 1)

(***************************************************************************)
(* One interval.  A reading is a record with a sensor, its operator, its   *)
(* slot in the cell, a value and an instant.                               *)
(***************************************************************************)
(* The k-th smallest value, counting from zero and with repetitions. *)
OrderStatistic(S, k) ==
  CHOOSE v \in {x.value : x \in S} :
    /\ Cardinality({x \in S : x.value < v}) <= k
    /\ k < Cardinality({x \in S : x.value <= v})

(* An even count averages the middle two, rounded towards minus infinity.  *)
Median(S) ==
  LET n == Cardinality(S)  middle == n \div 2 IN
  CASE n = 0     -> {}
    [] n % 2 = 1 -> {OrderStatistic(S, middle)}
    [] OTHER     -> {(OrderStatistic(S, middle - 1) + OrderStatistic(S, middle)) \div 2}

OperatorsOf(readings) == {r.operator : r \in readings}

(* Mutant: every sensor votes. *)
VotesOfSensors(readings) ==
  {[operator |-> r.operator, sensor |-> r.sensor,
    value |-> Some(Median({x \in readings : x.sensor = r.sensor}))] : r \in readings}

(* One vote an operator, whatever its sensors. *)
Votes(readings) ==
  {[operator |-> o, sensor |-> {r.sensor : r \in {x \in readings : x.operator = o}},
    value |-> Some(Median({r \in readings : r.operator = o}))] : o \in OperatorsOf(readings)}

CellMedian(readings) ==
  IF Cardinality(Votes(readings)) < MinimumVotes THEN {} ELSE Median(Votes(readings))

IsOutlier(value, median) ==
  Magnitude(value - median) * Bps
    > Max({Magnitude(median) * OutlierRelBps, OutlierFloor * Bps})

(* Each sensor once, by the median of its own readings. *)
JudgeInterval(readings, cellMedian) ==
  {LET value == Some(Median({x \in readings : x.sensor = r.sensor})) IN
   [sensor |-> r.sensor, value |-> value, median |-> m, outlier |-> IsOutlier(value, m)] :
     r \in readings, m \in cellMedian}

(* The part of a reading its canonical bytes hold. *)
Leaf(r) == [sensor |-> r.sensor, counter |-> r.counter, at |-> r.at, value |-> r.value]

CloseInterval(readings) ==
  LET median == CellMedian(readings) IN
  [median       |-> median,
   votes        |-> Votes(readings),
   contributors |-> {r.slot : r \in readings},
   root         |-> {Leaf(r) : r \in readings},
   verdicts     |-> JudgeInterval(readings, median)]

(***************************************************************************)
(* The day, from its intervals: a function on Intervals.                   *)
(***************************************************************************)
Covered(intervals) == {i \in Intervals : intervals[i].median # {}}

Rainfall(intervals) == SumFunction([i \in Covered(intervals) |-> Some(intervals[i].median)])

(* Mutant: the coverage is of the intervals somebody reported in. *)
ClassifyReported(intervals) ==
  LET reported == {i \in Intervals : intervals[i].votes # {}} IN
  IF reported = {} \/ Cardinality(reported) * 100 < CoverageX100 * IntervalsPerDay THEN "NoCoverage"
  ELSE IF Rainfall(intervals) <= DryThreshold THEN "Dry" ELSE "Wet"

Classify(intervals) ==
  LET covered == Cardinality(Covered(intervals)) IN
  IF covered = 0 \/ covered * 100 < CoverageX100 * IntervalsPerDay THEN "NoCoverage"
  ELSE IF Rainfall(intervals) <= DryThreshold THEN "Dry" ELSE "Wet"

(* Who was paid for, not who was on. *)
Contributors(intervals) ==
  IF Classify(intervals) = "NoCoverage" THEN {}
  ELSE UNION {intervals[i].contributors : i \in Covered(intervals)}

CloseDay(intervals) ==
  LET state == Classify(intervals) IN
  [state        |-> state,
   contributors |-> Contributors(intervals),
   root         |-> [i \in Intervals |-> <<intervals[i].median, Cardinality(intervals[i].votes),
                                           intervals[i].root>>],
   rainfall     |-> IF state = "NoCoverage" THEN {} ELSE {Rainfall(intervals)},
   covered      |-> Cardinality(Covered(intervals)),
   total        |-> IntervalsPerDay]

(***************************************************************************)
(* The verdicts and the weights that ride with the day.  who is the map    *)
(* from a sensor to its slot and its operator.                             *)
(***************************************************************************)
Accepted(verdicts) == {v.sensor : v \in {x \in verdicts : ~x.outlier}}

(* Mutant: the interval is divided between sensors.                        *)
SensorWeight(verdicts, who, sensor) ==
  LET accepted == Accepted(verdicts) IN
  IF sensor \notin accepted THEN 0 ELSE WeightUnit \div Cardinality(accepted)

(* The interval's worth divides between its votes, a vote's between its    *)
(* accepted sensors.                                                       *)
IntervalWeight(verdicts, who, sensor) ==
  LET accepted == Accepted(verdicts)
      perVote  == WeightUnit \div Cardinality({who[s].operator : s \in accepted})
      siblings == {s \in accepted : who[s].operator = who[sensor].operator} IN
  IF sensor \notin accepted THEN 0 ELSE perVote \div Cardinality(siblings)

DayWeight(intervals, who, sensor) ==
  SumFunction([i \in Intervals |-> IntervalWeight(intervals[i].verdicts, who, sensor)])

Slots == 0 .. MaxSlots - 1

(* Mutant: a day that is not a measurement pays those it judged. *)
DayReputationOfAll(intervals, who, contributors) ==
  LET at(slot) == {s \in DOMAIN who : who[s].slot = slot}
      judgedIn(slot, wrong) ==
        SumFunction([i \in Intervals |-> Cardinality({v \in intervals[i].verdicts :
          v.sensor \in at(slot) /\ (wrong => v.outlier)})]) IN
  [judged   |-> [slot \in Slots |-> judgedIn(slot, FALSE)],
   outliers |-> [slot \in Slots |-> judgedIn(slot, TRUE)],
   weights  |-> [slot \in Slots |-> SumFunction([s \in at(slot) |-> DayWeight(intervals, who, s)])]]

DayReputation(intervals, who, contributors) ==
  LET at(slot) == {s \in DOMAIN who : who[s].slot = slot}
      judgedIn(slot, wrong) ==
        SumFunction([i \in Intervals |-> Cardinality({v \in intervals[i].verdicts :
          v.sensor \in at(slot) /\ (wrong => v.outlier)})]) IN
  [judged   |-> [slot \in Slots |-> judgedIn(slot, FALSE)],
   outliers |-> [slot \in Slots |-> judgedIn(slot, TRUE)],
   weights  |-> [slot \in Slots |->
                   IF slot \notin contributors THEN 0
                   ELSE SumFunction([s \in at(slot) |-> DayWeight(intervals, who, s)])]]

(***************************************************************************)
(* The way to the chain.                                                   *)
(***************************************************************************)
(* 1 << slot and |= are operations on signed words as wide as the mask:    *)
(* the last slot's bit is the sign.                                        *)
MaskNumber(slots) ==
  SumFunction([s \in slots |-> IF s = MaxSlots - 1 THEN -(2 ^ s) ELSE 2 ^ s])

(* The encoder writes a u32 and throws on what is not one. *)
Encodable(slots) == MaskNumber(slots) \in 0 .. 2 ^ MaxSlots - 1

(* check_coverage, check_contributors and check_classification. *)
CheckDayRecord(record) ==
  /\ record.total > 0 /\ record.covered <= record.total
  /\ record.contributors \subseteq Slots
  /\ IF record.state = "NoCoverage"
       THEN record.rainfall = {} /\ record.contributors = {}
       ELSE /\ record.covered > 0 /\ record.rainfall # {}
            /\ Cardinality(record.contributors) >= MinimumVotes
  /\ \A r \in record.rainfall :
       r >= 0 /\ record.state = IF r <= DryThreshold THEN "Dry" ELSE "Wet"

(* check_day_reputation and check_day_weights. *)
CheckDayReputation(reputation, contributors, sensorCount) ==
  \A slot \in Slots :
    LET judged   == reputation.judged[slot]
        outliers == reputation.outliers[slot]
        weight   == reputation.weights[slot] IN
    /\ outliers <= judged
    /\ slot >= sensorCount => judged = 0
    /\ weight > 0 => /\ judged > outliers /\ slot \in contributors
                     /\ weight <= (judged - outliers) * WeightUnit
=============================================================================
