------------------------------- MODULE Demo -------------------------------
(***************************************************************************)
(* The networks that live in the process: a scenario played against a      *)
(* pool, and the feeder's sensors (apps/worker/src/scenario.ts and         *)
(* feeder.ts, behind apps/api/src/routes/scenario.ts and feeder.ts).       *)
(*                                                                         *)
(* Both publish through the intake, which takes a counter of a sensor once *)
(* (Intake).  One sensor stands for a scenario's; what its readings say is *)
(* abstracted to the run that made them, and the programme to the days it  *)
(* has and the intervals it is silent in.  The feeder's readings are a     *)
(* function of the sensor and the hour, so a sensor's table is its hours.  *)
(***************************************************************************)
EXTENDS Integers, Sequences, SequencesExt, FiniteSets, FiniteSetsExt, Functions

CONSTANTS
  Requests,                      \* requests for a run
  Geneses,                       \* instants a request may count its days from
  DayOfTicks, IntervalsOfDay,    \* the scenario's clock: ticks, intervals of a day
  Programme,                     \* its stretches: days, silent
  MaxSigning,                    \* what signing is estimated to take, at most
  PublishConcurrency, MaxDemoTime,
  FeederSensors, SecondOf,       \* the feeder's sensors, in order, and their tick of the hour
  HourTicks, MaxAgeTicks, FeederBatch, MaxFeederTime

ASSUME DemoAssumption ==
  /\ {DayOfTicks, IntervalsOfDay, PublishConcurrency, HourTicks, FeederBatch} \subseteq Nat \ {0}
  /\ {MaxSigning, MaxDemoTime, MaxAgeTicks, MaxFeederTime} \subseteq Nat /\ "nobody" \notin Requests
  /\ Geneses \subseteq Int
  /\ Programme \in Seq(Range(Programme))
  /\ \A i \in DOMAIN Programme : Programme[i].days \in Nat \ {0} /\ Programme[i].silent \in 0 .. IntervalsOfDay
  /\ FeederSensors \in Seq(Range(FeederSensors)) /\ IsInjective(FeederSensors) /\ FeederSensors # <<>>
  /\ SecondOf \in [Range(FeederSensors) -> 0 .. HourTicks - 1]

VARIABLES
  demoNow,
  active,    \* the run in flight, in the process's memory
  runs,      \* request -> where it is
  table,     \* readings stored: counter, day, the genesis it is counted from, run
  refused,   \* readings the intake refused
  raced      \* history: a request came in between another's check and its launch

scenarioVars == <<demoNow, active, runs, table, refused, raced>>

NoRun   == [phase |-> "none"]
Nobody  == "nobody"
Preparing == {"checking", "counted", "signing"}

(* The elements of a set by how many come before them.                     *)
ByRank(S, before(_, _)) ==
  [k \in 1 .. Cardinality(S) |-> CHOOSE x \in S : Cardinality({y \in S : before(y, x)}) = k - 1]

(***************************************************************************)
(* What a run publishes, and when.                                         *)
(***************************************************************************)
ProgrammeDays == SumFunction([i \in DOMAIN Programme |-> Programme[i].days])

DaysBefore(i) == SumFunction([j \in 1 .. i - 1 |-> Programme[j].days])

StretchOf(day) ==
  Programme[CHOOSE i \in DOMAIN Programme : DaysBefore(i) <= day /\ day < DaysBefore(i) + Programme[i].days]

DemoIntervalStart(genesis, day, i) == genesis + day * DayOfTicks + (i * DayOfTicks) \div IntervalsOfDay

DaysSince(genesis, readyAt) == IF readyAt > genesis THEN (readyAt - genesis) \div DayOfTicks ELSE 0

(* Mutant: the next boundary, whatever the day of now has in it already. *)
ScenarioStartToday(genesis, at, readyAt) == DaysSince(genesis, readyAt + DayOfTicks - 1)

(* The first day strictly after the one the run will be ready in, unless   *)
(* the days begin with it.                                                 *)
ScenarioStart(genesis, at, readyAt) == DaysSince(genesis, readyAt) + IF at > genesis THEN 1 ELSE 0

(* In the order they are due: the day, the interval, and the counter that  *)
(* goes on from the one last used.                                         *)
ScenarioReadings(genesis, dayOffset, counter) ==
  LET moments == {m \in (0 .. ProgrammeDays - 1) \X (0 .. IntervalsOfDay - 1) :
                    m[2] >= StretchOf(m[1]).silent}
      ordered == ByRank(moments, LAMBDA m, n : m[1] < n[1] \/ (m[1] = n[1] /\ m[2] < n[2]))
  IN [k \in DOMAIN ordered |->
        [counter |-> counter + k, day |-> dayOffset + ordered[k][1],
         at |-> DemoIntervalStart(genesis, dayOffset + ordered[k][1], ordered[k][2])]]

LastCounter == Max({0} \cup {r.counter : r \in table})

(***************************************************************************)
(* A request, from the door to the last reading.                           *)
(***************************************************************************)
ScenarioInit ==
  /\ demoNow = 0 /\ active = Nobody /\ runs = [r \in Requests |-> NoRun]
  /\ table = {} /\ refused = {} /\ raced = FALSE

ScenarioTick ==
  /\ demoNow < MaxDemoTime /\ demoNow' = demoNow + 1
  /\ UNCHANGED <<active, runs, table, refused, raced>>

(* 409 while a run is in flight; the scenario, the pool and the registry   *)
(* are read after that.  Every request names the instant its days are      *)
(* counted from, or they are counted from the request.  What a run takes   *)
(* is longer than an instant: nothing counted from this one is stored when *)
(* a request arrives at it.                                                *)
RequestRun(r) ==
  /\ runs[r] = NoRun /\ active = Nobody
  /\ \E genesis \in Geneses \cup {demoNow} :
       /\ genesis = demoNow => \A x \in table : x.genesis # genesis
       /\ runs' = [runs EXCEPT ![r] = [phase |-> "checking", at |-> demoNow, genesis |-> genesis]]
  /\ raced' = (raced \/ \E x \in Requests : runs[x].phase \in Preparing)
  /\ UNCHANGED <<demoNow, active, table, refused>>

(* The registry's answer may be that not every sensor votes.               *)
RefuseRun(r) ==
  /\ runs[r].phase = "checking" /\ runs' = [runs EXCEPT ![r] = [phase |-> "refused"]]
  /\ UNCHANGED <<demoNow, active, table, refused, raced>>

ReadCounters(r) ==
  /\ runs[r].phase = "checking"
  /\ runs' = [runs EXCEPT ![r] = [phase |-> "counted", at |-> @.at, genesis |-> @.genesis, counter |-> LastCounter]]
  /\ UNCHANGED <<demoNow, active, table, refused, raced>>

(* The day is chosen for when the run will be ready, by an estimate of     *)
(* what signing takes.                                                     *)
ChooseDay(r) ==
  /\ runs[r].phase = "counted"
  /\ \E estimate \in 0 .. MaxSigning :
       runs' = [runs EXCEPT ![r] =
         [phase |-> "signing", genesis |-> @.genesis,
          readings |-> ScenarioReadings(@.genesis, ScenarioStart(@.genesis, @.at, demoNow + estimate), @.counter)]]
  /\ UNCHANGED <<demoNow, active, table, refused, raced>>

LaunchRun(r) ==
  /\ runs[r].phase = "signing"
  /\ active' = r /\ runs' = [runs EXCEPT ![r].phase = "running"]
  /\ UNCHANGED <<demoNow, table, refused, raced>>

(* As many in the air as the bound allows, none before it is due; they     *)
(* land in any order.  An intake that fails says so, and the run goes on.  *)
PublishReading(r) ==
  /\ runs[r].phase = "running"
  /\ \E k \in 1 .. Min({PublishConcurrency, Len(runs[r].readings)}) :
       LET reading == runs[r].readings[k]
           used    == reading.counter \in {x.counter : x \in table} IN
       /\ reading.at <= demoNow
       /\ \/ ~used /\ UNCHANGED refused
             /\ table' = table \cup {[counter |-> reading.counter, day |-> reading.day,
                                      genesis |-> runs[r].genesis, run |-> r]}
          \/ used /\ refused' = refused \cup {r} /\ UNCHANGED table
          \/ UNCHANGED <<table, refused>>
       /\ runs' = [runs EXCEPT ![r].readings = RemoveAt(@, k)]
  /\ UNCHANGED <<demoNow, active, raced>>

(* The run is over, or a publication threw and it ends there.              *)
EndRun(r) ==
  /\ runs[r].phase = "running"
  /\ runs' = [runs EXCEPT ![r] = [phase |-> IF @.readings = <<>> THEN "done" ELSE "failed"]]
  /\ active' = IF active = r THEN Nobody ELSE active
  /\ UNCHANGED <<demoNow, table, refused, raced>>

(* The process dies, with what it remembers of the runs.                   *)
CrashRuns ==
  /\ active' = Nobody
  /\ runs' = [r \in Requests |-> IF runs[r] = NoRun THEN NoRun ELSE [phase |-> "failed"]]
  /\ UNCHANGED <<demoNow, table, refused, raced>>

ScenarioNext ==
  \/ ScenarioTick \/ CrashRuns
  \/ \E r \in Requests : \/ RequestRun(r) \/ RefuseRun(r) \/ ReadCounters(r) \/ ChooseDay(r)
                         \/ LaunchRun(r) \/ PublishReading(r) \/ EndRun(r)

ScenarioSpec == ScenarioInit /\ [][ScenarioNext]_scenarioVars

(***************************************************************************)
(* The feeder: a tick publishes the hours the network has not reached.     *)
(***************************************************************************)
VARIABLES
  feederNow,
  hoursOf,   \* the readings table: sensor -> hours stored
  ticking,    \* batches a tick in flight has yet to publish
  sinceFull,  \* history: when a tick first ended with every sensor heard of
  turnedAway  \* history: readings the intake did not take

feederVars == <<feederNow, hoursOf, ticking, sinceFull, turnedAway>>

Batch(readings) == SubSeq(readings, 1, Min({FeederBatch, Len(readings)}))

HourOf(at) == at \div HourTicks
MeasuredIn(s, hour) == hour * HourTicks + SecondOf[s]

(* Taken, and not late.                                                    *)
InTime(s, hour, at) == LET age == at - MeasuredIn(s, hour) IN 0 <= age /\ age <= MaxAgeTicks

(* No batch holds two readings of one sensor: between them, in the order   *)
(* they are published in, there is a batch of others.  So it is with the   *)
(* feeder's hundred sensors, which all read within a minute of the hour,   *)
(* and batches of eight.                                                   *)
ASSUME BatchesAssumption ==
  \A at \in 0 .. MaxFeederTime, i \in DOMAIN FeederSensors : \A hour \in 0 .. HourOf(at) :
    InTime(FeederSensors[i], hour, at) /\ InTime(FeederSensors[i], hour + 1, at) =>
      FeederBatch <= Cardinality({j \in DOMAIN FeederSensors :
                                    IF j < i THEN InTime(FeederSensors[j], hour + 1, at)
                                             ELSE InTime(FeederSensors[j], hour, at)})

(* Mutant: where the sensor that is furthest left off. *)
LastFullHourOfTheFirst ==
  LET reached == {Max(hoursOf[s]) : s \in {x \in Range(FeederSensors) : hoursOf[x] # {}}} IN
  IF reached = {} THEN {} ELSE {Max(reached)}

(* Where the network left off: the lowest of the last counters, or none.   *)
LastFullHour ==
  IF \E s \in Range(FeederSensors) : hoursOf[s] = {} THEN {}
  ELSE {Min({Max(hoursOf[s]) : s \in Range(FeederSensors)})}

DueHours(at) ==
  LET current == HourOf(at)
      from    == Max({current - (MaxAgeTicks + HourTicks - 1) \div HourTicks}
                       \cup (IF LastFullHour = {} THEN {current} ELSE {h + 1 : h \in LastFullHour}))
  IN {h \in 0 .. current : h >= from}

(* By the hour, then in the order of the sensors; only what has been taken *)
(* and is not late.                                                        *)
FeederReadings(at) ==
  LET due == {x \in (DOMAIN FeederSensors) \X DueHours(at) : InTime(FeederSensors[x[1]], x[2], at)}
      ordered == ByRank(due, LAMBDA x, y : x[2] < y[2] \/ (x[2] = y[2] /\ x[1] < y[1]))
  IN [k \in DOMAIN ordered |-> <<FeederSensors[ordered[k][1]], ordered[k][2]>>]

FeederInit ==
  /\ feederNow = 0 /\ hoursOf = [s \in Range(FeederSensors) |-> {}]
  /\ ticking = {} /\ sinceFull = {} /\ turnedAway = {}

FeederTime ==
  /\ feederNow < MaxFeederTime /\ feederNow' = feederNow + 1
  /\ UNCHANGED <<hoursOf, ticking, sinceFull, turnedAway>>

(* One tick at a time.                                                     *)
StartTick ==
  /\ ticking = {} /\ ticking' = {[at |-> feederNow, readings |-> FeederReadings(feederNow)]}
  /\ UNCHANGED <<feederNow, hoursOf, sinceFull, turnedAway>>

Store(readings) == hoursOf' = [s \in DOMAIN hoursOf |-> hoursOf[s] \cup {x[2] : x \in {y \in readings : y[1] = s}}]

(* A batch at once; the same reading again is answered as a retry.  What   *)
(* the intake does not take is counted, and the tick goes on.              *)
PublishBatch ==
  \E tick \in ticking :
    LET batch == Range(Batch(tick.readings)) IN
    /\ tick.readings # <<>>
    /\ \E stored \in SUBSET batch : Store(stored) /\ turnedAway' = turnedAway \cup (batch \ stored)
    /\ ticking' = {[tick EXCEPT !.readings = SubSeq(@, FeederBatch + 1, Len(@))]}
    /\ UNCHANGED <<feederNow, sinceFull>>

EndTick ==
  \E tick \in ticking :
    /\ tick.readings = <<>> /\ ticking' = {}
    /\ sinceFull' = IF sinceFull = {} /\ LastFullHour # {} THEN {tick.at} ELSE sinceFull
    /\ UNCHANGED <<feederNow, hoursOf, turnedAway>>

(* The process dies within a batch.                                        *)
CrashTick ==
  \E tick \in ticking :
    /\ \E stored \in SUBSET Range(Batch(tick.readings)) : Store(stored)
    /\ ticking' = {} /\ UNCHANGED <<feederNow, sinceFull, turnedAway>>

FeederNext == FeederTime \/ StartTick \/ PublishBatch \/ EndTick \/ CrashTick
FeederSpec == FeederInit /\ [][FeederNext]_feederVars

(***************************************************************************)
(* Properties.                                                             *)
(***************************************************************************)
(* A run takes the counters where the last one left them, and days nobody  *)
(* has written in who counts them from the same instant: as long as two    *)
(* did not begin unaware of each other, the intake refuses nothing and,    *)
(* of the runs that count from the pool's genesis, no day has two in it,   *)
(* whatever crashed before, whatever was played on another clock between   *)
(* them and however long signing takes.  A request that names no genesis   *)
(* counts from its own instant, and may write in days already written.     *)
RunsContinueEachOther ==
  ~raced => /\ refused = {}
            /\ \A x, y \in table : x.genesis = y.genesis /\ x.day = y.day => x.run = y.run

(* One run at a time: from the reading of the counters on, a run is the    *)
(* only writer.                                                            *)
OneRunAtATime == Cardinality({r \in Requests : runs[r].phase = "running"}) <= 1

(* However often a tick dies half way, the next to end has left no hole:   *)
(* once the network has been whole, whatever a tick could still publish in *)
(* time when it began is stored when it ends, for every sensor, but for    *)
(* what the intake did not take: a later hour it does take hides that one. *)
FeederLeavesNoHole ==
  \A tick \in ticking : tick.readings = <<>> =>
    \A full \in sinceFull : \A s \in Range(FeederSensors) : \A h \in HourOf(full) .. HourOf(tick.at) :
      InTime(s, h, tick.at) /\ MeasuredIn(s, h) > full => h \in hoursOf[s] \/ <<s, h>> \in turnedAway
=============================================================================
