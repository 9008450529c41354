------------------------------ MODULE Sensors ------------------------------
(***************************************************************************)
(* An operator's sensors from every side: the registry on chain, the pages *)
(* that register, move and claim (apps/web/src/sensor), the worker's       *)
(* mirror of the registry, the days it writes from that mirror, and the    *)
(* exclusions it dispatches (apps/worker/src/registry.ts, exclude.ts).     *)
(*                                                                         *)
(* A page reads the chain once, plans, and sends; until the transaction    *)
(* lands or expires others act.  A page whose poll fails shows a failure   *)
(* and is free to press again while the first transaction is still alive,  *)
(* so up to MaxSent of them are in flight.                                 *)
(***************************************************************************)
EXTENDS Registry

CONSTANTS Strangers,  \* wallets made anew by a page whose vault was lost
          Bystanders, \* sensors that take a slot and never stake
          MaxToday,     \* bound on the pool's days
          MaxSent,    \* bound on the transactions in flight
          MaxThawing, \* bound on what one sensor has asked back
          MaxLate     \* a day is recorded at most this many days after it ended

ASSUME SensorsAssumption == Bystanders \subseteq SensorKeys /\ {MaxToday, MaxSent, MaxThawing, MaxLate} \subseteq Nat

VARIABLES chain,        \* the registry on chain
          mirror,       \* the worker's copy of the sensors
          sent,         \* the pages' transactions in flight
          dropped,      \* slots reinstatements have dropped
          askedOn       \* the day a sensor last asked for stake it has not taken

sensorVars == <<chain, mirror, sent, dropped, askedOn>>

SensorsInit ==
  /\ chain = RegistryStart
  /\ mirror = <<>>
  /\ sent = {}
  /\ dropped = {}
  /\ askedOn = [k \in SensorKeys |-> Never]

(***************************************************************************)
(* The calls of a transaction.                                             *)
(***************************************************************************)
Call(name, key, wallet) == [name |-> name, key |-> key, wallet |-> wallet]
CallIn(name, key, wallet, cellId) == [name |-> name, key |-> key, wallet |-> wallet, cellId |-> cellId]
CallFor(name, key, wallet, amount) == [name |-> name, key |-> key, wallet |-> wallet, amount |-> amount]

(***************************************************************************)
(* The pages.  A plan is the transaction to send; none, when the page      *)
(* refuses or has nothing to do.  The wallet is the one the page's vault   *)
(* holds; to one made anew after a vault was lost the sensor is foreign.   *)
(* Balances of wallets are not kept: whether one holds what the page asks  *)
(* of it for a call (LAMPORTS_TO_REGISTER, ..._MOVE, ..._CLAIM, and the    *)
(* tokens of a stake) is any answer, and one that does covers the call.    *)
(***************************************************************************)
NoPlan == <<>>

PlanFor(c, key, wallet, cellId) ==
  IF key \notin DOMAIN c.sensors
  THEN IF c.taken[cellId] >= SlotsPerCell THEN NoPlan
       ELSE <<CallIn("register", key, wallet, cellId), CallFor("stake", key, wallet, MinStake)>>
  ELSE LET s == c.sensors[key] IN
       IF s.operator # wallet \/ s.stake >= MinStake THEN NoPlan
       ELSE <<CallFor("stake", key, wallet, MinStake - s.stake)>>

(* Mutant: a sensor moves again when the window has passed, not the day    *)
(* after.                                                                  *)
MoveSpacingOfTheWindow == OutlierWindow

MoveSpacingDays == OutlierWindow + 1

MovePlanFor(c, key, wallet, cellId, funded) ==
  IF \/ key \notin DOMAIN c.sensors
     \/ c.sensors[key].operator # wallet
     \/ ~c.sensors[key].active
     \/ c.sensors[key].cellId = cellId
     \/ c.sensors[key].movedAt # Never /\ c.today < c.sensors[key].movedAt + MoveSpacingDays
     \/ c.taken[cellId] >= SlotsPerCell
     \/ ~funded
  THEN NoPlan
  ELSE LET s    == c.sensors[key]
           move == CallIn("move", key, wallet, cellId) IN
       IF Unclaimed(c, s) > 0 THEN <<CallIn("claim", key, wallet, s.previousCellId), move>> ELSE <<move>>

Claimable(c, s) == {at \in SlotsOf(s) : c.accrued[at[1]][at[2]] > 0}

ClaimPlanFor(c, key, wallet, cellId, funded) ==
  IF \/ key \notin DOMAIN c.sensors
     \/ c.sensors[key].operator # wallet
     \/ ~c.sensors[key].active
     \/ \A at \in Claimable(c, c.sensors[key]) : at[1] # cellId
     \/ ~funded
  THEN NoPlan
  ELSE <<CallIn("claim", key, wallet, cellId)>>

Send(plan) ==
  /\ plan # NoPlan /\ Cardinality(sent) < MaxSent
  /\ sent' = sent \cup {plan}
  /\ UNCHANGED <<chain, mirror, dropped, askedOn>>

(* To register the page asks the faucet for what the wallet lacks, and     *)
(* sends the plan it made before that, or nothing if it still lacks it.    *)
PressRegister(key, wallet, cellId, funded) == funded /\ Send(PlanFor(chain, key, wallet, cellId))
PressMove(key, wallet, cellId, funded)     == Send(MovePlanFor(chain, key, wallet, cellId, funded))
PressClaim(key, wallet, cellId, funded)    == Send(ClaimPlanFor(chain, key, wallet, cellId, funded))

(* The transaction lands and does all of it, or fails and does nothing. *)
TransactionLands(tx) ==
  /\ chain' \in IF Run(chain, tx) = {} THEN {chain} ELSE Run(chain, tx)
  /\ sent' = sent \ {tx}
  /\ UNCHANGED <<mirror, dropped, askedOn>>

(* Its blockhash is too old, or it was never received. *)
TransactionExpires(tx) ==
  /\ sent' = sent \ {tx}
  /\ UNCHANGED <<chain, mirror, dropped, askedOn>>

(***************************************************************************)
(* What operators do without a page, and anybody's exclusion.              *)
(***************************************************************************)
Joins(key, wallet, cellId) ==
  /\ key \in Bystanders
  /\ chain' \in Run(chain, <<CallIn("register", key, wallet, cellId)>>)
  /\ UNCHANGED <<mirror, sent, dropped, askedOn>>

RequestsUnstake(key, amount) ==
  /\ key \in DOMAIN chain.sensors
  /\ chain.sensors[key].unstaking + amount <= MaxThawing
  /\ chain' \in Run(chain, <<CallFor("request", key, chain.sensors[key].operator, amount)>>)
  /\ askedOn' = [askedOn EXCEPT ![key] = chain.today]
  /\ UNCHANGED <<mirror, sent, dropped>>

Withdraws(key) ==
  /\ key \in DOMAIN chain.sensors
  /\ chain' \in Run(chain, <<Call("withdraw", key, chain.sensors[key].operator)>>)
  /\ askedOn' = [askedOn EXCEPT ![key] = Never]
  /\ UNCHANGED <<mirror, sent, dropped>>

Reinstates(key) ==
  /\ key \in DOMAIN chain.sensors
  /\ chain' \in Run(chain, <<Call("reinstate", key, chain.sensors[key].operator)>>)
  /\ dropped' = dropped \cup Previous(chain.sensors[key])
  /\ UNCHANGED <<mirror, sent, askedOn>>

AnyoneExcludes(key) ==
  /\ key \in DOMAIN chain.sensors
  /\ \E wallet \in Wallets : chain' \in Run(chain, <<Call("exclude", key, wallet)>>)
  /\ askedOn' = [askedOn EXCEPT ![key] = Never]
  /\ UNCHANGED <<mirror, sent, dropped>>

(***************************************************************************)
(* The worker.  A scan of the chain that comes back short leaves the rows  *)
(* it misses alone.                                                        *)
(***************************************************************************)
ChainSensorOf(s) ==
  [operator |-> s.operator, cellId |-> s.cellId, slotInCell |-> s.slotInCell,
   previousCellId |-> s.previousCellId, previousSlot |-> s.previousSlot, movedAt |-> s.movedAt,
   stake |-> s.stake, active |-> s.active]

MirrorIsTheChain == mirror = [k \in DOMAIN chain.sensors |-> ChainSensorOf(chain.sensors[k])]

DiffRegistry(scan, rows) ==
  {k \in DOMAIN scan : k \notin DOMAIN rows \/ rows[k] # ChainSensorOf(scan[k])}

SyncIfDue ==
  \E found \in SUBSET DOMAIN chain.sensors :
    LET scan    == [k \in found |-> chain.sensors[k]]
        changed == DiffRegistry(scan, mirror) IN
    /\ changed # {}
    /\ mirror' = [k \in changed \cup DOMAIN mirror |->
                    IF k \in changed THEN ChainSensorOf(scan[k]) ELSE mirror[k]]
    /\ UNCHANGED <<chain, sent, dropped, askedOn>>

(* The slots that may be judged on a day of a cell, by the mirror: a       *)
(* sensor votes where it was, and on the day it moved in either place.     *)
VotersOn(cellId, day) ==
  UNION {LET s == mirror[k] IN
         {at[2] : at \in {x \in SlotsOf(s) :
                    /\ x[1] = cellId
                    /\ s.movedAt # Never => IF x = Held(s) THEN day >= s.movedAt ELSE day <= s.movedAt}} :
         k \in {x \in DOMAIN mirror : SensorVotes(mirror[x])}}

DayIsWritten(cellId) ==
  LET day == chain.lastDay[cellId] + 1 IN
  /\ day < chain.today
  /\ \E judged \in SUBSET VotersOn(cellId, day) : \E verdicts \in [judged -> {"kept", "outlier"}] :
       chain' \in SubmitDayReputation(chain, cellId, day, verdicts)
  /\ UNCHANGED <<mirror, sent, dropped, askedOn>>

(* Mutant: the worker counts only the slot a sensor holds now.             *)
BreachingWhereItIs(cellId) ==
  {k \in DOMAIN mirror : /\ RingIsOpen(chain, cellId)
                         /\ cellId \in {at[1] : at \in SlotsOf(mirror[k])}
                         /\ Breaches(JudgedIn(chain, {Held(mirror[k])}), OutlierIn(chain, {Held(mirror[k])}))}

(* excludeBreaching: the mirror's slots, summed over the chain's rings; a  *)
(* cell without a ring has nobody to exclude.                              *)
Breaching(cellId) ==
  {k \in DOMAIN mirror : /\ RingIsOpen(chain, cellId)
                         /\ cellId \in {at[1] : at \in SlotsOf(mirror[k])}
                         /\ Breaches(JudgedIn(chain, SlotsOf(mirror[k])), OutlierIn(chain, SlotsOf(mirror[k])))}

WorkerExcludes(cellId) ==
  /\ \E k \in Breaching(cellId), wallet \in Wallets :
       /\ chain.sensors[k].active /\ chain' \in Run(chain, <<Call("exclude", k, wallet)>>)
       /\ askedOn' = [askedOn EXCEPT ![k] = Never]
  /\ UNCHANGED <<mirror, sent, dropped>>

(* Bounds: a day waits at most MaxLate days for its record, and the scan   *)
(* of the registry is complete at least once a day (it runs every five     *)
(* minutes).                                                               *)
DayPasses ==
  /\ chain.today < MaxToday
  /\ \A c \in SensorCells : chain.lastDay[c] >= chain.today - MaxLate
  /\ MirrorIsTheChain
  /\ chain' = NextDay(chain)
  /\ UNCHANGED <<mirror, sent, dropped, askedOn>>

PagesStep ==
  \/ \E key \in SensorKeys \ Bystanders, wallet \in Wallets, cellId \in SensorCells, funded \in BOOLEAN :
       \/ PressRegister(key, wallet, cellId, funded)
       \/ PressMove(key, wallet, cellId, funded)
       \/ PressClaim(key, wallet, cellId, funded)
  \/ \E tx \in sent : TransactionLands(tx) \/ TransactionExpires(tx)

OperatorsStep ==
  \E key \in SensorKeys :
    \/ \E amount \in 1..MinStake : RequestsUnstake(key, amount)
    \/ \E wallet \in Wallets, cellId \in SensorCells : Joins(key, wallet, cellId)
    \/ Withdraws(key)
    \/ Reinstates(key)
    \/ AnyoneExcludes(key)

WorkerStep == SyncIfDue \/ \E cellId \in SensorCells : DayIsWritten(cellId) \/ WorkerExcludes(cellId)

SensorsNext == PagesStep \/ OperatorsStep \/ WorkerStep \/ DayPasses

SensorsSpec == SensorsInit /\ [][SensorsNext]_sensorVars

(***************************************************************************)
(* Properties.                                                             *)
(***************************************************************************)
OnChain == DOMAIN chain.sensors

(* A slot is one sensor's: no two hold it, now or before a move, and a     *)
(* slot that has not been given out has neither a record nor earnings, so  *)
(* whoever takes it starts with none (next_slot: a reused bit would change *)
(* who voted on a day already written).                                    *)
SlotsNeverShared ==
  /\ \A j, k \in OnChain : j # k => SlotsOf(chain.sensors[j]) \cap SlotsOf(chain.sensors[k]) = {}
  /\ \A c \in SensorCells : \A slot \in chain.taken[c]..(SlotsPerCell - 1) :
       chain.record[c][slot] = NoRecord /\ chain.accrued[c][slot] = 0
  /\ \A k \in OnChain : \A at \in SlotsOf(chain.sensors[k]) : at[2] < chain.taken[at[1]]

(* The stake vault holds exactly the stakes and what is leaving them,      *)
(* whatever was asked back, withdrawn or burnt in between.                 *)
StakesAreInTheVault ==
  chain.vault = SumFunction([k \in OnChain |-> chain.sensors[k].stake + chain.sensors[k].unstaking])

(* A stake leaves only when no day up to the one it was last asked for is  *)
(* still in the window an exclusion counts (FR-053: a thaw no longer than  *)
(* the window lets a sensor be gone before the count is finished).         *)
ThawOutlastsVerdicts ==
  \A k \in OnChain : Thawed(chain, chain.sensors[k]) => chain.today - OutlierWindow > askedOn[k]

(* What a slot has earned can be claimed: the sensor it was earned for     *)
(* still points at it, unless a reinstatement dropped it, provided days    *)
(* are recorded before their sensor can move twice.                        *)
MovesStrandNothing ==
  \A c \in SensorCells, slot \in Slot :
    chain.accrued[c][slot] > 0 =>
      \/ \E k \in OnChain : <<c, slot>> \in SlotsOf(chain.sensors[k])
      \/ <<c, slot>> \in dropped

(* Nothing is stranded: across registrations, moves, exclusions, burns and *)
(* reinstatements every slot has one owner, every unit of stake is in the  *)
(* vault for one sensor, and every earning has somebody who can claim it.  *)
NothingIsStranded == SlotsNeverShared /\ StakesAreInTheVault /\ MovesStrandNothing

(* The pages and the program agree on what may be done now: a plan made    *)
(* from the chain as it is lands, and a move the page refuses for anything *)
(* but the wallet's balance would be refused (planFor, movePlanFor,        *)
(* claimRefusal against sensor.rs).                                        *)
PagesPlanWhatLands ==
  \A key \in SensorKeys, wallet \in Wallets \cup Strangers, cellId \in SensorCells :
    /\ \A funded \in BOOLEAN :
         \A plan \in {PlanFor(chain, key, wallet, cellId), MovePlanFor(chain, key, wallet, cellId, funded),
                     ClaimPlanFor(chain, key, wallet, cellId, funded)} \ {NoPlan} : Run(chain, plan) # {}
    /\ MovePlanFor(chain, key, wallet, cellId, TRUE) = NoPlan =>
         Run(chain, <<CallIn("move", key, wallet, cellId)>>) = {}

(* A worker whose mirror is the chain finds exactly the sensors the        *)
(* program would exclude, wherever they have been: in each of a sensor's   *)
(* cells that has a ring, and when it is to be excluded in one at least    *)
(* (exclude.ts sums the mirror's slots and passes over a cell without a    *)
(* ring, exclude_sensor sums the account's).                               *)
DispatcherAgrees ==
  MirrorIsTheChain =>
    \A k \in OnChain : chain.sensors[k].active =>
      /\ \A at \in SlotsOf(chain.sensors[k]) : RingIsOpen(chain, at[1]) =>
           (k \in Breaching(at[1]) <=> Excludable(chain, chain.sensors[k]))
      /\ Excludable(chain, chain.sensors[k]) => \E at \in SlotsOf(chain.sensors[k]) : k \in Breaching(at[1])

(* Whoever plans from the chain as it is plans what the program does: the  *)
(* pages their transactions, the worker its exclusions.                    *)
PlansLand == PagesPlanWhatLands /\ DispatcherAgrees

(* A reinstated sensor cannot be excluded on the record that excluded it.  *)
ReinstatedStartsClean ==
  [][\A k \in OnChain :
       ~chain.sensors[k].active /\ chain'.sensors[k].active => ~Excludable(chain', chain'.sensors[k])]_sensorVars
=============================================================================
