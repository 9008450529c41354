------------------------------ MODULE DayClose ------------------------------
(***************************************************************************)
(* Closing the days of two cells between which sensors move: closeCellDay  *)
(* of apps/worker/src/interval.ts, one write an action, over the readings  *)
(* acceptedReadings gives it (packages/db/src/interval-store.ts).          *)
(*                                                                         *)
(* Which readings vote is asked of the registry's mirror when the day is   *)
(* read, not when they were measured; the mirror is older than the chain,  *)
(* readings arrive late and with whatever time the phone's clock shows,    *)
(* the worker stops between two writes and closes the day again, and an    *)
(* answer of the chain is lost.  Days are closed in any order here: Worker *)
(* has the order, and the clock it comes from.                             *)
(***************************************************************************)
EXTENDS Aggregate

CONSTANTS
  Sensors,
  Movers,        (* the sensors that may move or stop voting             *)
  OperatorOf,    (* a function on Sensors                                *)
  Registered,    (* where each is at first: a function to [cell, slot]   *)
  SensorCounts,  (* the cells' sensor_count at first                     *)
  MoveWait,      (* OUTLIER_WINDOW_DAYS + 1: days between two moves      *)
  DayBacklog,    (* BACKLOG_DAYS, and what a cycle takes                 *)
  Gauges,        (* what a rain gauge may read                           *)
  ClosedDays,    (* the days looked at                                   *)
  LateBy,        (* maxAgeMs                                             *)
  MaxReports,    (* the bound on readings                                *)
  MaxMoment      (* the bound on the clock                               *)

(* register_sensor hands out sensor_count as the slot, below the maximum.  *)
ASSUME DayCloseAssumption ==
  /\ IsFiniteSet(Sensors) /\ Movers \subseteq Sensors
  /\ Gauges \subseteq Int /\ ClosedDays \subseteq Nat
  /\ MoveWait \in Nat /\ DayBacklog \in Nat \ {0}
  /\ DOMAIN SensorCounts \subseteq Nat /\ SensorCounts \in [DOMAIN SensorCounts -> 0 .. MaxSlots]
  /\ \A s \in Sensors :
       /\ Registered[s].cell \in DOMAIN SensorCounts
       /\ Registered[s].slot \in 0 .. SensorCounts[Registered[s].cell] - 1
       /\ \A t \in Sensors \ {s} :
            Registered[s].cell = Registered[t].cell => Registered[s].slot # Registered[t].slot

Places  == DOMAIN SensorCounts
Moments == 0 .. MaxMoment
Never   == -1
DayKeys == Places \X ClosedDays

VARIABLES
  registry,    (* each sensor's account on chain                          *)
  sensorCount, (* each cell's sensor_count on chain                       *)
  mirrored,    (* the sensors table: the registry as it was last read     *)
  readAt,      (* when the mirror last read the registry                  *)
  reports,     (* the accepted readings                                   *)
  pass,
  cellHours, sensorVerdicts, cellDays,  (* the tables                     *)
  dayLog,      (* what the chain took, a record and its reputation, and   *)
               (* how old a mirror they were closed on                    *)
  moment

network == <<registry, sensorCount, mirrored, readAt, reports>>
tables  == <<cellHours, sensorVerdicts, cellDays>>
dayCloseVars == <<network, pass, tables, dayLog, moment>>

NoPass == [step |-> "idle"]

DayCloseFrom(taken, at) ==
  /\ registry = [s \in Sensors |->
       [cell |-> Registered[s].cell, slot |-> Registered[s].slot, previousCell |-> Never,
        previousSlot |-> Never, movedAt |-> Never, votes |-> TRUE]]
  /\ sensorCount = SensorCounts
  /\ mirrored = registry /\ readAt = 0
  /\ reports = taken
  /\ pass = NoPass
  /\ cellHours = [k \in DayKeys |-> {}] /\ sensorVerdicts = [k \in DayKeys |-> {}]
  /\ cellDays = [k \in DayKeys |-> {}] /\ dayLog = [k \in DayKeys |-> {}]
  /\ moment = at

DayCloseInit == DayCloseFrom({}, 0)

(***************************************************************************)
(* The network.                                                            *)
(***************************************************************************)
(* Accepted at the door, which compares its cell with the mirror's, and    *)
(* its age with a limit: when it was measured is the phone's word.         *)
Report(s, value, at) ==
  /\ Cardinality(reports) < MaxReports
  /\ at <= moment /\ moment - at <= LateBy
  /\ LET counter == Cardinality({r \in reports : r.sensor = s}) IN
     reports' = reports \cup
       {[sensor |-> s, cell |-> mirrored[s].cell, value |-> value, at |-> at, counter |-> counter]}
  /\ UNCHANGED <<registry, sensorCount, mirrored, readAt, pass, tables, dayLog, moment>>

(* move_sensor: a new slot in the other cell, and the old one remembered. *)
MoveSensor(s, to) ==
  /\ s \in Movers /\ registry[s].votes
  /\ to # registry[s].cell /\ sensorCount[to] < MaxSlots
  /\ registry[s].movedAt # Never =>
       DayIndexAt(moment) >= DayIndexAt(registry[s].movedAt) + MoveWait
  /\ registry' = [registry EXCEPT ![s].cell = to, ![s].slot = sensorCount[to],
                    ![s].previousCell = registry[s].cell, ![s].previousSlot = registry[s].slot,
                    ![s].movedAt = moment]
  /\ sensorCount' = [sensorCount EXCEPT ![to] = @ + 1]
  /\ UNCHANGED <<mirrored, readAt, reports, pass, tables, dayLog, moment>>

(* Excluded, or its stake taken below the minimum. *)
StopVoting(s) ==
  /\ s \in Movers /\ registry[s].votes
  /\ registry' = [registry EXCEPT ![s].votes = FALSE]
  /\ UNCHANGED <<sensorCount, mirrored, readAt, reports, pass, tables, dayLog, moment>>

MirrorRegistry ==
  /\ mirrored' = registry /\ readAt' = moment
  /\ UNCHANGED <<registry, sensorCount, reports, pass, tables, dayLog, moment>>

Advance ==
  /\ moment < MaxMoment
  /\ moment' = moment + 1
  /\ UNCHANGED <<network, pass, tables, dayLog>>

(***************************************************************************)
(* One call of closeCellDay.                                               *)
(***************************************************************************)
(* A sensor votes here, or where its last move took it from. *)
AcceptedHere(cell, day) ==
  {r \in reports :
     /\ r.cell = cell /\ DayIndexAt(r.at) = day
     /\ mirrored[r.sensor].votes
     /\ cell \in {mirrored[r.sensor].cell, mirrored[r.sensor].previousCell}}

(* A reading counts under the slot its sensor has in this cell, or left.   *)
AsVote(r) ==
  LET row == mirrored[r.sensor]  here == row.cell = r.cell IN
  [sensor     |-> r.sensor,
   operator   |-> OperatorOf[r.sensor],
   slot       |-> IF here THEN row.slot ELSE row.previousSlot,
   value      |-> r.value, at |-> r.at, counter |-> r.counter,
   votesFrom  |-> IF here /\ row.movedAt # Never THEN {row.movedAt} ELSE {},
   votesUntil |-> IF ~here THEN {row.movedAt} ELSE {}]

(* Mutant: the interval the move falls inside counts in both cells. *)
VotesTouching(r, start, end) ==
  /\ \A t \in r.votesFrom  : end > t
  /\ \A t \in r.votesUntil : start <= t

(* The interval the move falls inside counts in neither. *)
VotesInInterval(r, start, end) ==
  /\ \A t \in r.votesFrom  : start >= t
  /\ \A t \in r.votesUntil : end <= t

Buckets(readings, day) ==
  [i \in Intervals |->
     {r \in readings :
        /\ r.at >= IntervalStart(day, i) /\ r.at < IntervalEnd(day, i)
        /\ VotesInInterval(r, IntervalStart(day, i), IntervalEnd(day, i))}]

WhoOf(readings) ==
  [s \in {r.sensor : r \in readings} |->
     LET r == CHOOSE x \in readings : x.sensor = s IN [slot |-> r.slot, operator |-> r.operator]]

Signed(key) == \E row \in cellDays[key] : row.signed

BeginDay(cell, day) ==
  /\ pass = NoPass /\ day < DayIndexAt(moment) /\ ~Signed(<<cell, day>>)
  /\ DayIndexAt(moment) <= day + DayBacklog
  /\ LET readings  == {AsVote(r) : r \in AcceptedHere(cell, day)}
         buckets   == Buckets(readings, day)
         intervals == [i \in Intervals |-> CloseInterval(buckets[i])] IN
     pass' = [step |-> "intervals", key |-> <<cell, day>>, readAt |-> readAt, intervals |-> intervals,
              record |-> CloseDay(intervals),
              reputation |-> DayReputation(intervals, WhoOf(readings), Contributors(intervals))]
  /\ UNCHANGED <<network, tables, dayLog, moment>>

SaveIntervals ==
  /\ pass.step = "intervals"
  /\ cellHours' = [cellHours EXCEPT ![pass.key] =
       {<<i, pass.intervals[i].median, Cardinality(pass.intervals[i].votes),
          pass.intervals[i].root>> : i \in Intervals}]
  /\ pass' = [pass EXCEPT !.step = "verdicts"]
  /\ UNCHANGED <<network, sensorVerdicts, cellDays, dayLog, moment>>

(* Mutant: the verdicts of this pass are added to those of an earlier one. *)
MergeDayVerdicts ==
  /\ pass.step = "verdicts"
  /\ sensorVerdicts' = [sensorVerdicts EXCEPT ![pass.key] =
       @ \cup UNION {{<<i, v>> : v \in pass.intervals[i].verdicts} : i \in Intervals}]
  /\ pass' = [pass EXCEPT !.step = "day"]
  /\ UNCHANGED <<network, cellHours, cellDays, dayLog, moment>>

ReplaceDayVerdicts ==
  /\ pass.step = "verdicts"
  /\ sensorVerdicts' = [sensorVerdicts EXCEPT ![pass.key] =
       UNION {{<<i, v>> : v \in pass.intervals[i].verdicts} : i \in Intervals}]
  /\ pass' = [pass EXCEPT !.step = "day"]
  /\ UNCHANGED <<network, cellHours, cellDays, dayLog, moment>>

DayRow(record, signed) ==
  [state |-> record.state, rainfall |-> record.rainfall, covered |-> record.covered,
   root |-> record.root, signed |-> signed]

SaveDay ==
  /\ pass.step = "day"
  /\ cellDays' = [cellDays EXCEPT ![pass.key] = {DayRow(pass.record, FALSE)}]
  /\ pass' = [pass EXCEPT !.step = "submit"]
  /\ UNCHANGED <<network, cellHours, sensorVerdicts, dayLog, moment>>

(* One transaction: the record, and the verdicts and weights behind it.    *)
ChainTakes ==
  /\ dayLog[pass.key] = {}
  /\ CheckDayRecord(pass.record)
  /\ CheckDayReputation(pass.reputation, pass.record.contributors, sensorCount[pass.key[1]])

Submitted ==
  /\ Encodable(pass.record.contributors) /\ ChainTakes
  /\ dayLog' = [dayLog EXCEPT ![pass.key] =
       {[record |-> pass.record, reputation |-> pass.reputation, readAt |-> pass.readAt]}]

Submit ==
  /\ pass.step = "submit"
  /\ Submitted
  /\ pass' = [pass EXCEPT !.step = "mark"]
  /\ UNCHANGED <<network, tables, moment>>

(* It lands, and nobody says so. *)
SubmitUnanswered ==
  /\ pass.step = "submit"
  /\ Submitted
  /\ pass' = NoPass
  /\ UNCHANGED <<network, tables, moment>>

MarkDaySubmitted ==
  /\ pass.step = "mark"
  /\ cellDays' = [cellDays EXCEPT ![pass.key] = {[row EXCEPT !.signed = TRUE] : row \in @}]
  /\ pass' = NoPass
  /\ UNCHANGED <<network, cellHours, sensorVerdicts, dayLog, moment>>

(* A write that throws, a refusal of the chain, or the process ending. *)
AbandonDay ==
  /\ pass # NoPass
  /\ pass' = NoPass
  /\ UNCHANGED <<network, tables, dayLog, moment>>

CloseCellDay ==
  \/ \E c \in Places, d \in ClosedDays : BeginDay(c, d)
  \/ SaveIntervals \/ ReplaceDayVerdicts \/ SaveDay
  \/ Submit \/ SubmitUnanswered \/ MarkDaySubmitted \/ AbandonDay

DayCloseNext ==
  \/ \E s \in Sensors : \/ \E v \in Gauges, at \in Moments : Report(s, v, at)
                        \/ \E c \in Places : MoveSensor(s, c)
                        \/ StopVoting(s)
  \/ MirrorRegistry \/ Advance \/ CloseCellDay

DayCloseSpec == DayCloseInit /\ [][DayCloseNext]_dayCloseVars

-----------------------------------------------------------------------------
(* Whatever was reported, by whom and from where, what the worker is about *)
(* to send passes every check the program makes of it; a day it cannot     *)
(* send stops its cell until the day is out of the backlog.  One thing     *)
(* stops it: a day that sums below zero, which day.rs refuses, and which   *)
(* takes a reading below zero, where reading.ts has no lower bound.        *)
DaysAreTaken ==
  pass.step = "submit" /\ dayLog[pass.key] = {} =>
    \/ ChainTakes
    \/ /\ \E r \in pass.record.rainfall : r < 0
       /\ \E i \in Intervals : \E l \in pass.record.root[i][3] : l.value < 0

(* The same with the encoding of the mask, for a cell whose last slot is   *)
(* taken: day.rs tests that "every bit of the mask addresses a slot the    *)
(* cell has", and the worker's test accepts a reading of slot 31.          *)
DaysCanBeSent ==
  pass.step = "submit" /\ dayLog[pass.key] = {} => Encodable(pass.record.contributors)

(* A signed day can be rerun from what is stored: its intervals are the    *)
(* leaves of the root on chain, and its verdicts are the counts on chain,  *)
(* however often and on whatever readings the day was closed before.       *)
SignedDaysCanBeRerun ==
  \A k \in DayKeys : Signed(k) =>
    \E taken \in dayLog[k] :
      /\ cellHours[k] = {<<i, taken.record.root[i][1], taken.record.root[i][2],
                           taken.record.root[i][3]>> : i \in Intervals}
      /\ cellDays[k] = {DayRow(taken.record, TRUE)}
      /\ Cardinality(sensorVerdicts[k])
           = SumFunction(taken.reputation.judged)

(* No sensor votes in two cells at once, whenever it moves, the mirror     *)
(* follows, either cell closes the day, and whatever time the readings     *)
(* claim (FR-059).  A second move takes away what the chain says of the    *)
(* first: the days between them are more than the backlog.  A vote counts  *)
(* here if the mirror was read after its interval began, as it is every    *)
(* five minutes: one that could not be read for longer than an interval    *)
(* takes the vote of a sensor that left before it, and the other cell,     *)
(* closed later on a mirror that was, takes another.                       *)
VotersOf(key, i) ==
  {l.sensor : l \in UNION {t.record.root[i][3] :
                             t \in {u \in dayLog[key] : u.readAt > IntervalStart(key[2], i)}}}
NoVoteInTwoCells ==
  \A c, e \in Places, d \in ClosedDays, i \in Intervals :
    c # e => VotersOf(<<c, d>>, i) \cap VotersOf(<<e, d>>, i) = {}

(* Fewer than half of an interval's operators, whatever their sensors and  *)
(* whatever these report, cannot take its value out of the range of the    *)
(* other operators' votes (median.ts, "carries the same weight").          *)
MinoritiesStayInRange ==
  pass.step = "intervals" =>
    \A i \in Intervals : LET interval == pass.intervals[i] IN
      \A m \in interval.median :
        \A group \in SUBSET {v.operator : v \in interval.votes} :
          LET others == {v.value : v \in {x \in interval.votes : x.operator \notin group}} IN
          2 * Cardinality(group) < Cardinality({v.operator : v \in interval.votes})
            => (\E v \in others : v <= m) /\ (\E v \in others : m <= v)

(* What an interval pays an operator does not grow with its sensors: all   *)
(* operators with an accepted sensor are paid alike, but for the dust of a *)
(* division, and no interval pays more than its worth.                     *)
PaidByTheVote ==
  pass.step = "intervals" =>
    \A i \in Intervals :
      LET verdicts == pass.intervals[i].verdicts
          who      == [s \in Sensors |-> [operator |-> OperatorOf[s]]]
          paid(o)  == SumFunction([s \in {x \in Accepted(verdicts) : OperatorOf[x] = o} |->
                                     IntervalWeight(verdicts, who, s)])
          earning  == {OperatorOf[s] : s \in Accepted(verdicts)} IN
      /\ SumFunction([o \in earning |-> paid(o)]) <= WeightUnit
      /\ \A o, q \in earning : Magnitude(paid(o) - paid(q)) < Cardinality(Sensors)

(* An operator counts as one, in what a day says and in what it pays,      *)
(* however many sensors it has and whatever they report.                   *)
OperatorsCountAlike == MinoritiesStayInRange /\ PaidByTheVote
=============================================================================
