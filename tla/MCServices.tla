---------------------------- MODULE MCServices -----------------------------
(***************************************************************************)
(* The parts that run in the services, each on an instance of its own; a   *)
(* behaviour is one part's.                                                *)
(*                                                                         *)
(* DayClose, from two sorts of states.  In the first nothing has happened  *)
(* and two readings at most are taken while a sensor moves, stops voting   *)
(* and is mirrored.  In the second a day of cell 0 is over, of which the   *)
(* four sensors of three operators have reported anything in the first     *)
(* interval and one of a few things in the second, and nothing else        *)
(* happens but its closing.  Intervals are of one tick and of two.  A pass *)
(* is not interleaved with the network: it has read what it reads before   *)
(* its first write.  The sensor that moves is not the one that stops.      *)
(*                                                                         *)
(* Intake: readings signed in the first two ticks, early enough to be      *)
(* swept and sent again.  A phone with two pages open has signed one       *)
(* reading by each at most, on a clock that is right, and has not moved; a *)
(* phone that has moved has signed one; a phone with one page at a time    *)
(* signs two.                                                              *)
(*                                                                         *)
(* Reference: a cell with three days of either side of the threshold, and  *)
(* one with a day without coverage.                                        *)
(* Demo: two requests for a run of two days, the second silent for half of *)
(* it, in which time stands still once two began unaware of each other;    *)
(* two feeder sensors that read at different ticks of the hour.        *)
(* The intake turns one of the feeder's readings away at most.             *)
(* Faucet: one transaction at most is lost sight of for each wallet, and   *)
(* once two keys were made one request is answered at a time.              *)
(* RewardMirror: the sensor measures in two days and cells at most.        *)
(***************************************************************************)
EXTENDS DayClose, Intake, Reference, Demo, Faucet, RewardMirror

CONSTANT MCFirstValues

VARIABLE part

MCOperatorOf   == [s \in Sensors |-> CASE s \in {"s1", "s2"} -> "a" [] s = "s3" -> "b" [] OTHER -> "c"]
MCRegistered   == [s \in Sensors |-> [cell |-> 0, slot |-> CASE s = "s1" -> 0 [] s = "s2" -> 1
                                                          [] s = "s3" -> 2 [] OTHER -> 3]]
MCSensorCounts == [c \in {0, 1} |-> IF c = 0 THEN Cardinality(Sensors) ELSE 0]

MCReport(s, value, at, counter) ==
  [sensor |-> s, cell |-> 0, value |-> value, at |-> at, counter |-> counter]
MCFirstIntervals ==
  UNION {{{MCReport(s, values[s], 0, 0) : s \in reporting} : values \in [reporting -> MCFirstValues]} :
           reporting \in SUBSET Sensors}
MCSecondIntervals ==
  {{}, {MCReport(s, 0, 1, 1) : s \in Sensors}, {MCReport("s3", 2, 2, 1)},
   {MCReport("s1", 0, 1, 1), MCReport("s1", 4, 2, 2), MCReport("s4", 2, 1, 1)}}
(* A day that sums below zero. *)
MCBelowZero == {MCReport("s1", -2, 0, 0), MCReport("s3", -2, 0, 0),
                MCReport("s1", 0, 1, 1), MCReport("s3", 0, 1, 1)}
MCDays == {MCBelowZero} \cup
  {first \cup second : first \in MCFirstIntervals, second \in MCSecondIntervals}

CloseInit == DayCloseInit \/ \E taken \in MCDays : DayCloseFrom(taken, DayTicks)

CloseNext ==
  /\ DayCloseNext
  /\ (\E r \in reports : r.sensor # "s1") =>
       /\ UNCHANGED <<sensorCount, reports, moment>>
       /\ (\E r \in reports : r.at > 0) => UNCHANGED network
       /\ pass' # NoPass => pass'.key[1] = 0
  /\ pass # NoPass => UNCHANGED <<network, moment>>
  /\ sensorCount'[0] + sensorCount'[1] <= Cardinality(Sensors) + 2
  /\ \A r \in reports' \ reports : r.sensor = "s1"
  /\ registry'["s1"].movedAt # Never => registry'["s1"].votes

PhoneNext ==
  /\ IntakeNext
  /\ crowded' => mirror' = 0
  /\ crowded' \/ mirror' # 0 => \A b \in sent' : b.counter = 1
  /\ \A b \in sent' \ sent : now <= 1 /\ (crowded' \/ b.counter = 2 => b.measuredAt = now)

MCDaysOf        == [c \in {1, 2} |-> IF c = 1 THEN {0, 1, 2} ELSE {0}]
MCRainfallsOf   == [c \in {1, 2} |-> IF c = 1 THEN {{1}, {2}} ELSE {{}}]
MCGeneses       == {1}
MCProgramme     == <<[days |-> 1, silent |-> 0], [days |-> 1, silent |-> 1]>>
MCFeederSensors == <<"f1", "f2">>
MCSecondOf      == [s \in {"f1", "f2"} |-> IF s = "f1" THEN 0 ELSE 1]
MCSymmetry      == Permutations(Pages)

MCAddressOf     == [p \in OperatorPages |-> p]

(* No day to close, for the parts that are not DayClose.                   *)
NoNetwork ==
  /\ registry = <<>> /\ sensorCount = <<>> /\ mirrored = <<>> /\ readAt = 0
  /\ reports = {} /\ pass = NoPass /\ moment = 0
  /\ cellHours = <<>> /\ sensorVerdicts = <<>>
  /\ cellDays = [k \in DayKeys |-> {}] /\ dayLog = [k \in DayKeys |-> {}]

ServicesInit ==
  /\ part \in {"close", "intake", "reference", "scenario", "feeder", "faucet", "rewards"}
  /\ IF part = "close" THEN CloseInit ELSE NoNetwork
  /\ IntakeInit /\ ReferenceInit /\ ScenarioInit /\ FeederInit /\ FaucetInit /\ RewardInit
  /\ part # "reference" => ~applies

WalletNext ==
  /\ FaucetNext
  /\ \A w \in Wallets : blind'[w] <= 1
  /\ estranged' => Cardinality(asking') <= 1

PlayNext == ScenarioNext /\ (raced => UNCHANGED demoNow)

NetworkNext == FeederNext /\ Cardinality(turnedAway') <= 1

HistoryNext == RewardNext /\ Cardinality(measured') <= 2

ServicesNext ==
  /\ UNCHANGED part
  /\ \/ part = "close" /\ CloseNext /\ UNCHANGED <<intakeVars, refVars, scenarioVars, feederVars, faucetVars, rewardVars>>
     \/ part = "intake" /\ PhoneNext /\ UNCHANGED <<dayCloseVars, refVars, scenarioVars, feederVars, faucetVars, rewardVars>>
     \/ part = "reference" /\ ReferenceNext /\ UNCHANGED <<dayCloseVars, intakeVars, scenarioVars, feederVars, faucetVars, rewardVars>>
     \/ part = "scenario" /\ PlayNext /\ UNCHANGED <<dayCloseVars, intakeVars, refVars, feederVars, faucetVars, rewardVars>>
     \/ part = "feeder" /\ NetworkNext /\ UNCHANGED <<dayCloseVars, intakeVars, refVars, scenarioVars, faucetVars, rewardVars>>
     \/ part = "faucet" /\ WalletNext /\ UNCHANGED <<dayCloseVars, intakeVars, refVars, scenarioVars, feederVars, rewardVars>>
     \/ part = "rewards" /\ HistoryNext /\ UNCHANGED <<dayCloseVars, intakeVars, refVars, scenarioVars, feederVars, faucetVars>>

ServicesSpec ==
  /\ ServicesInit
  /\ [][ServicesNext]_<<part, dayCloseVars, intakeVars, refVars, scenarioVars, feederVars, faucetVars, rewardVars>>
=============================================================================
