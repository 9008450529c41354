---------------------------- MODULE RewardMirror ----------------------------
(***************************************************************************)
(* What each slot earned on each day, read out of the day's transaction    *)
(* into slot_rewards (apps/worker/src/rewards.ts) and shown to the sensor  *)
(* that holds the slot.                                                    *)
(*                                                                         *)
(* One sensor, which moves on; it holds one slot in the cell it is in and  *)
(* one in the cell it left, and the mirror knows those of the moment it    *)
(* was read.  A cycle is atomic here: it may refresh the mirror, writes    *)
(* days, and reads the history when that is due.  The amounts, and who     *)
(* else earned, are abstracted.                                            *)
(***************************************************************************)
EXTENDS Integers, FiniteSets

CONSTANTS
  RewardDayTicks, RewardBacklog,  \* ticks of a day; BACKLOG_DAYS
  MoveSpacing,                    \* days between two moves: OUTLIER_WINDOW_DAYS + 1
  MirrorLag,                      \* how many days old the mirror may be: REGISTRY_SYNC_MS
  RetryTicks,                     \* REWARDS_RETRY_MS
  MaxRewardTime                   \* the bound on the clock

(* A move leaves its slot behind for longer than the worker looks back     *)
(* from a day whose readings were taken for the old cell.                  *)
ASSUME RewardMirrorAssumption ==
  /\ {RewardDayTicks, RewardBacklog, RetryTicks} \subseteq Nat \ {0} /\ MaxRewardTime \in Nat
  /\ {MoveSpacing, MirrorLag} \subseteq Nat /\ MoveSpacing > RewardBacklog + MirrorLag

VARIABLES
  rewardNow,
  holding,       \* the sensor's account: the cells it holds a slot in, the current one first
  movedOn,       \* the day of its last move, if any
  holdingMirror, \* the mirror of it
  measured,      \* cell and day its readings are in
  signedDays,    \* days with a signature: served since when, read, what was written
  nextAt, owed,  \* rewardMirror's memory
  looked         \* history: a cycle has just run to its end

rewardVars == <<rewardNow, holding, movedOn, holdingMirror, measured, signedDays, nextAt, owed, looked>>

RewardDay(t) == t \div RewardDayTicks
RewardToday  == RewardDay(rewardNow)
FromDay      == IF RewardToday > RewardBacklog THEN RewardToday - RewardBacklog ELSE 0

RewardInit ==
  /\ rewardNow = 0
  /\ holding = <<0>> /\ movedOn = {} /\ holdingMirror = <<0>>
  /\ measured = {} /\ signedDays = {}
  /\ nextAt = {} /\ owed = FALSE /\ looked = FALSE

(***************************************************************************)
(* The sensor and the clock.                                               *)
(***************************************************************************)
(* The mirror is one move behind at most, and not for longer than it lags. *)
Fresh ==
  \/ holdingMirror = holding
  \/ \E day \in movedOn : holdingMirror[1] = holding[2] /\ RewardToday <= day + MirrorLag

(* The door takes a reading in the cell the mirror has the sensor in.      *)
Measure ==
  /\ Fresh
  /\ measured' = measured \cup {<<holdingMirror[1], RewardToday>>} /\ measured' # measured
  /\ UNCHANGED <<rewardNow, holding, movedOn, holdingMirror, signedDays, nextAt, owed>>
  /\ looked' = FALSE

MoveOn ==
  /\ \A day \in movedOn : RewardToday >= day + MoveSpacing
  /\ holding' = <<holding[1] + 1, holding[1]>> /\ movedOn' = {RewardToday}
  /\ UNCHANGED <<rewardNow, holdingMirror, measured, signedDays, nextAt, owed>>
  /\ looked' = FALSE

(* The cluster has indexed a day's transaction.                            *)
Served(day) ==
  /\ day \in signedDays /\ day.since = {}
  /\ signedDays' = (signedDays \ {day}) \cup {[day EXCEPT !.since = {rewardNow}]}
  /\ UNCHANGED <<rewardNow, holding, movedOn, holdingMirror, measured, nextAt, owed>>
  /\ looked' = FALSE

RewardTick ==
  /\ rewardNow < MaxRewardTime /\ rewardNow' = rewardNow + 1
  /\ UNCHANGED <<holding, movedOn, holdingMirror, measured, signedDays, nextAt, owed>>
  /\ looked' = FALSE

(***************************************************************************)
(* The cycle.                                                              *)
(***************************************************************************)

(* The days it can send: the sensor's readings count where the mirror has  *)
(* it.                                                                     *)
Sendable(row) ==
  {[cell |-> m[1], day |-> m[2], since |-> {}, read |-> FALSE, holder |-> "none"] :
     m \in {x \in measured : /\ x[2] < RewardToday /\ x[2] >= FromDay
                             /\ \E i \in DOMAIN row : row[i] = x[1]
                             /\ \A s \in signedDays : <<s.cell, s.day>> # x}}

Unread(known) == {day \in known : day.day >= FromDay /\ ~day.read}

(* Mutant: only the cell the sensor is in.                                 *)
HolderInItsCell(row, cell) == IF row[1] = cell THEN "sensor" ELSE "nobody"

(* A slot of the cell, current or left, turns back into the sensor.        *)
HolderOf(row, cell) == IF \E i \in DOMAIN row : row[i] = cell THEN "sensor" ELSE "nobody"

ReadDays(known, row) ==
  {IF day \in Unread(known) /\ day.since # {}
   THEN [day EXCEPT !.read = TRUE, !.holder = HolderOf(row, day.cell)] ELSE day : day \in known}

(* Mutant: a busy cycle always leaves the history for the next quiet one.  *)
ReadIsDueWhenQuiet(submitted) == ~submitted /\ (owed \/ \A at \in nextAt : rewardNow >= at)

(* In the first quiet cycle after one that wrote a day, or once the retry  *)
(* period is over, busy or not.                                            *)
ReadIsDue(submitted) == (\A at \in nextAt : rewardNow >= at) \/ (~submitted /\ owed)

(* `owed` and `nextAt` are set before the database is asked; when it does  *)
(* not answer, no day was served.                                          *)
ReadIfDue(known, row, submitted) ==
  IF ReadIsDue(submitted)
  THEN /\ owed' = FALSE /\ nextAt' = {rewardNow + RetryTicks}
       /\ \/ signedDays' = ReadDays(known, row) /\ looked' = TRUE
          \/ /\ signedDays' = {IF day.read THEN day ELSE [day EXCEPT !.since = {}] : day \in known}
             /\ looked' = FALSE
  ELSE /\ owed' = (owed \/ submitted) /\ looked' = TRUE
       /\ signedDays' = known /\ UNCHANGED nextAt

(* Other cells may have days as well.                                      *)
Cycle ==
  /\ \E row \in {holding, holdingMirror} :
       /\ holdingMirror' = row
       /\ \E sent \in SUBSET Sendable(row), others \in BOOLEAN :
            ReadIfDue(signedDays \cup sent, row, sent # {} \/ others)
  /\ UNCHANGED <<rewardNow, holding, movedOn, measured>>

(* The process dies: what it remembers of its reading is gone.             *)
CrashMirror ==
  /\ nextAt' = {} /\ owed' = FALSE /\ <<nextAt, owed>>' # <<nextAt, owed>>
  /\ UNCHANGED <<rewardNow, holding, movedOn, holdingMirror, measured, signedDays>>
  /\ looked' = FALSE

RewardNext ==
  \/ Measure \/ MoveOn \/ RewardTick \/ Cycle \/ CrashMirror
  \/ \E day \in signedDays : Served(day)

RewardSpec == RewardInit /\ [][RewardNext]_rewardVars

(***************************************************************************)
(* Properties.                                                             *)
(***************************************************************************)
(* Earnings are shown to the sensor that earned them, however late they    *)
(* are read and however stale the mirror is: a slot is left behind for     *)
(* longer than the worker looks back for days to read.                     *)
EarningsFindTheirSensor == \A day \in signedDays : day.read => day.holder = "sensor"

(* The history lags behind a busy worker and is not starved by it: after a *)
(* cycle, no day within reach is unread which the cluster has served for a *)
(* retry period.                                                           *)
HistoryIsNotStarved ==
  looked => \A day \in Unread(signedDays) : \A since \in day.since : rewardNow < since + RetryTicks

(* What the operator page shows of earnings is complete in time, and       *)
(* theirs.                                                                 *)
HistoryIsKept == EarningsFindTheirSensor /\ HistoryIsNotStarved
=============================================================================
