------------------------------ MODULE Registry ------------------------------
(***************************************************************************)
(* The sensors a program holds: registration, stake, thaw, moves, the      *)
(* record they are judged on, exclusion, reinstatement, and the earnings   *)
(* parked in the slots they hold or held (programs/pumpking/src/           *)
(* instructions/sensor.rs, reputation.rs, rewards.rs, state.rs).           *)
(*                                                                         *)
(* An instruction takes the chain c to the set of the chains it may leave: *)
(* none when it is refused.  A transaction is a sequence of calls, all or  *)
(* none of them.  Days are the pool's.  A day's verdicts on a slot are     *)
(* abstracted to one, and what a slot has earned to whether there is any:  *)
(* the amounts are in Policies and RewardSchedule.                         *)
(***************************************************************************)
EXTENDS Integers, Sequences, FiniteSets, Functions

CONSTANTS SensorKeys, Wallets, SensorCells,
          SlotsPerCell,         \* MAX_SENSORS_PER_CELL
          OutlierWindow,       \* OUTLIER_WINDOW_DAYS
          UnstakeDelay,        \* pool.unstake_delay_days
          MinJudged, ShareOf5, \* OUTLIER_MIN_JUDGED, OUTLIER_SHARE_BPS in fifths
          MinStake

ASSUME RegistryAssumption ==
  /\ {SlotsPerCell, OutlierWindow, MinJudged, MinStake} \subseteq Nat \ {0}
  /\ UnstakeDelay \in Nat /\ UnstakeDelay > OutlierWindow
  /\ ShareOf5 \in 0..5

Never == -1
Slot  == 0..(SlotsPerCell - 1)

NoRecord == [judged |-> {}, outliers |-> {}]

RegistryStart ==
  [today   |-> 0,
   sensors |-> <<>>,
   taken   |-> [c \in SensorCells |-> 0],
   lastDay |-> [c \in SensorCells |-> Never],
   record  |-> [c \in SensorCells |-> [s \in Slot |-> NoRecord]],
   accrued |-> [c \in SensorCells |-> [s \in Slot |-> 0]],
   vault   |-> 0]

Held(s)      == <<s.cellId, s.slotInCell>>
Previous(s)  == {<<s.previousCellId, s.previousSlot>>} \ {Held(s)}
SlotsOf(s)   == {Held(s)} \cup Previous(s)
SensorVotes(s)     == s.active /\ s.stake >= MinStake
SlotIn(s, cellId) == {at \in SlotsOf(s) : at[1] = cellId}
DropPrevious(s)   == [s EXCEPT !.previousCellId = s.cellId, !.previousSlot = s.slotInCell]

(* Mutant: a slot a sensor has left is given again.                        *)
NextSlotOfThose(c, cellId) ==
  LET here == Cardinality({k \in DOMAIN c.sensors : c.sensors[k].cellId = cellId}) IN
  IF here < SlotsPerCell THEN {here} ELSE {}

NextSlot(c, cellId) == IF c.taken[cellId] < SlotsPerCell THEN {c.taken[cellId]} ELSE {}

NewSensor(call, slot) ==
  [operator |-> call.wallet, cellId |-> call.cellId, slotInCell |-> slot,
   previousCellId |-> call.cellId, previousSlot |-> slot, movedAt |-> Never,
   stake |-> 0, unstaking |-> 0, unlockAtDay |-> Never, active |-> TRUE]

RegisterSensor(c, call) ==
  {[c EXCEPT !.taken[call.cellId] = @ + 1,
             !.sensors = [k \in DOMAIN @ \cup {call.key} |->
                            IF k = call.key THEN NewSensor(call, slot) ELSE @[k]]] :
     slot \in IF call.key \in DOMAIN c.sensors THEN {} ELSE NextSlot(c, call.cellId)}

Unclaimed(c, s) == SumFunctionOnSet([at \in Previous(s) |-> c.accrued[at[1]][at[2]]], Previous(s))

CheckMove(c, s, cellId) ==
  /\ s.active
  /\ s.cellId # cellId
  /\ s.movedAt # Never => c.today >= s.movedAt + OutlierWindow + 1
  /\ Unclaimed(c, s) = 0

(* Mutant: the new slot is written before the old one is kept.             *)
MoveSensorSwapped(c, call) ==
  LET s == c.sensors[call.key] IN
  {[c EXCEPT !.taken[call.cellId] = @ + 1,
             !.sensors[call.key] =
               [s EXCEPT !.cellId = call.cellId, !.slotInCell = slot, !.movedAt = c.today,
                         !.previousCellId = call.cellId, !.previousSlot = slot]] :
     slot \in IF CheckMove(c, s, call.cellId) THEN NextSlot(c, call.cellId) ELSE {}}

MoveSensor(c, call) ==
  LET s == c.sensors[call.key] IN
  {[c EXCEPT !.taken[call.cellId] = @ + 1,
             !.sensors[call.key] =
               [s EXCEPT !.cellId = call.cellId, !.slotInCell = slot, !.movedAt = c.today,
                         !.previousCellId = s.cellId, !.previousSlot = s.slotInCell]] :
     slot \in IF CheckMove(c, s, call.cellId) THEN NextSlot(c, call.cellId) ELSE {}}

StakeSensor(c, call) ==
  {x \in {[c EXCEPT !.vault = @ + call.amount, !.sensors[call.key].stake = @ + call.amount]} : call.amount > 0}

(* Mutant: a second request thaws with the first.                          *)
ThawWithTheFirst(c, s) == IF s.unlockAtDay = Never THEN c.today + UnstakeDelay ELSE s.unlockAtDay

ThawEnds(c, s) == c.today + UnstakeDelay

RequestUnstake(c, call) ==
  LET s == c.sensors[call.key] IN
  {x \in {[c EXCEPT !.sensors[call.key] =
             [s EXCEPT !.stake = @ - call.amount, !.unstaking = @ + call.amount,
                       !.unlockAtDay = ThawEnds(c, s)]]} :
     s.active /\ call.amount \in 1..s.stake}

Thawed(c, s) == s.active /\ s.unstaking > 0 /\ c.today >= s.unlockAtDay

WithdrawStake(c, call) ==
  LET s == c.sensors[call.key] IN
  {x \in {[c EXCEPT !.vault = @ - s.unstaking,
                    !.sensors[call.key] = [s EXCEPT !.unstaking = 0, !.unlockAtDay = Never]]} : Thawed(c, s)}

(* The ring keeps OUTLIER_WINDOW_DAYS days, and the window is those before *)
(* today.                                                                  *)
InWindow(days, today) == Cardinality(days \cap (today - OutlierWindow)..(today - 1))

Breaches(judged, outliers) ==
  judged >= MinJudged /\ outliers <= judged /\ outliers * 5 > judged * ShareOf5

JudgedIn(c, slots)  ==
  SumFunctionOnSet([at \in slots |-> InWindow(c.record[at[1]][at[2]].judged, c.today)], slots)
OutlierIn(c, slots) ==
  SumFunctionOnSet([at \in slots |-> InWindow(c.record[at[1]][at[2]].outliers, c.today)], slots)

Excludable(c, s) == s.active /\ Breaches(JudgedIn(c, SlotsOf(s)), OutlierIn(c, SlotsOf(s)))

Forfeit(accrued, slots) ==
  [cell \in SensorCells |-> [slot \in Slot |-> IF <<cell, slot>> \in slots THEN 0 ELSE accrued[cell][slot]]]

(* Mutant: what is thawing is not burnt with the stake.                    *)
BurntOfTheStake(s) == s.stake

Burnt(s) == s.stake + s.unstaking

ExcludeSensor(c, call) ==
  LET s == c.sensors[call.key] IN
  {x \in {[c EXCEPT !.vault = @ - Burnt(s), !.accrued = Forfeit(@, SlotsOf(s)),
                    !.sensors[call.key] = [s EXCEPT !.stake = 0, !.unstaking = 0, !.unlockAtDay = Never,
                                                    !.active = FALSE]]} : Excludable(c, s)}

(* Mutant: the record of the slot is kept.                                 *)
ClearSlotNothing(ring, slot) == ring

ClearSlot(ring, slot) == [ring EXCEPT ![slot] = NoRecord]

ReinstateSensor(c, call) ==
  LET s == c.sensors[call.key] IN
  {x \in {[c EXCEPT !.sensors[call.key] = [DropPrevious(s) EXCEPT !.active = TRUE],
                    !.record[s.cellId] = ClearSlot(@, s.slotInCell)]} : ~s.active}

ClaimReward(c, call) ==
  {[c EXCEPT !.accrued[at[1]][at[2]] = 0] :
     at \in {x \in SlotIn(c.sensors[call.key], call.cellId) :
               c.sensors[call.key].active /\ c.accrued[x[1]][x[2]] > 0}}

Registered(c, call) == call.key \in DOMAIN c.sensors
ByOperator(c, call) == Registered(c, call) /\ c.sensors[call.key].operator = call.wallet

Execute(c, call) ==
  CASE call.name = "register" -> RegisterSensor(c, call)
    [] call.name = "stake"    -> IF ByOperator(c, call) THEN StakeSensor(c, call) ELSE {}
    [] call.name = "request"  -> IF ByOperator(c, call) THEN RequestUnstake(c, call) ELSE {}
    [] call.name = "withdraw" -> IF ByOperator(c, call) THEN WithdrawStake(c, call) ELSE {}
    [] call.name = "move"     -> IF ByOperator(c, call) THEN MoveSensor(c, call) ELSE {}
    [] call.name = "reinstate" -> IF ByOperator(c, call) THEN ReinstateSensor(c, call) ELSE {}
    [] call.name = "exclude"  -> IF Registered(c, call) THEN ExcludeSensor(c, call) ELSE {}
    [] call.name = "claim"    -> IF Registered(c, call) THEN ClaimReward(c, call) ELSE {}

(* The transactions of this system are one call or two.                    *)
Run(c, tx) ==
  IF Len(tx) = 1 THEN Execute(c, tx[1]) ELSE UNION {Execute(x, tx[2]) : x \in Execute(c, tx[1])}

(* The cell has its ring of verdicts: its first day opens it.              *)
RingIsOpen(c, cellId) == c.lastDay[cellId] # Never

(* One day of a cell: verdicts maps the slots judged to "kept" or          *)
(* "outlier".  The ring refuses a day no newer than its last.              *)
SubmitDayReputation(c, cellId, day, verdicts) ==
  LET judged(slot)  == slot \in DOMAIN verdicts
      outlier(slot) == judged(slot) /\ verdicts[slot] = "outlier" IN
  {x \in {[c EXCEPT !.lastDay[cellId] = day,
                    !.record[cellId] = [slot \in Slot |->
                       [judged   |-> @[slot].judged \cup {d \in {day} : judged(slot)},
                        outliers |-> @[slot].outliers \cup {d \in {day} : outlier(slot)}]],
                    !.accrued[cellId] = [slot \in Slot |->
                       IF judged(slot) /\ ~outlier(slot) THEN 1 ELSE @[slot]]]} :
     day > c.lastDay[cellId]}

(* The ring forgets what a lap overwrites, and no window reaches back to.  *)
NextDay(c) ==
  LET recent(days) == {d \in days : d >= c.today + 1 - OutlierWindow} IN
  [c EXCEPT !.today = @ + 1,
            !.record = [cell \in SensorCells |-> [slot \in Slot |->
               [judged |-> recent(@[cell][slot].judged), outliers |-> recent(@[cell][slot].outliers)]]]]
=============================================================================
