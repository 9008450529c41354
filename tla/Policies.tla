------------------------------ MODULE Policies ------------------------------
(***************************************************************************)
(* The pool and the cover it sells: every instruction of                   *)
(* programs/pumpking/src/instructions that moves capital or decides a      *)
(* policy, over the day logs (DayRing) and the reward ledgers              *)
(* (RewardSchedule) of the cells.  A transaction is atomic, so each        *)
(* instruction is one action: its guard is the account constraints and the *)
(* require!s in their order, its updates are its assignments and its token *)
(* transfers.  Between two transactions anybody may send any other one.    *)
(*                                                                         *)
(* Checked arithmetic: a step whose amounts would leave u64 is refused by  *)
(* the code, and here by `pool' \in Pools` and its like.                   *)
(*                                                                         *)
(* Every policy belongs to one buyer; Accounts are that buyer's token      *)
(* accounts, some of which the issuer of the asset may have frozen.        *)
(* What is not here: the buyer's price bound (a refusal only), the parts   *)
(* of a record the label stands for, and who holds which sensor slot.      *)
(***************************************************************************)
EXTENDS DayRing, Functions

CONSTANTS
  ScheduleLen,        (* REWARD_SCHEDULE_DAYS, 512 on chain            *)
  MaxMoney,           (* u64::MAX, scaled: the bound on every amount   *)
  CellIds, PolicyIds,
  Depositors,         (* the wallets that put capital in               *)
  Accounts,           (* the token accounts of the buyer               *)
  MinSensors,         (* Pool::min_sensors_per_cell                    *)
  WaitingDays,        (* Pool::waiting_period_days                     *)
  RewardsBps,         (* Pool::premium_rewards_bps                     *)
  LoadingBps,         (* Pool::risk_loading_bps                        *)
  MinRateBps,         (* Pool::min_rate_bps                            *)
  MaxCoverage,        (* MAX_COVERAGE_DAYS, 90 on chain                *)
  MinHistory,         (* MIN_HISTORY_DAYS, 14 on chain                 *)
  DisputedDays,       (* INVESTIGATION_DISPUTED_DAYS, 3 on chain       *)
  DisputeWindow,      (* INVESTIGATION_WINDOW_DAYS, 90 on chain        *)
  RiskChoices,        (* what set_pool_params may be called with       *)
  Deposits, Burns,    (* amounts deposited, stakes burnt               *)
  Terms,              (* [threshold, payout, start, end] buyers ask    *)
  Weights,            (* a slot's weight in the division of a day      *)
  MaxDay              (* the bound on the clock, in days               *)

INSTANCE RewardSchedule

BPS == 10000

Risks == [exposureBps : 1 .. BPS, minStake : Money \ {0}]

ASSUME PoliciesAssumption ==
  /\ {ScheduleLen, MinSensors, WaitingDays, MaxCoverage, MinRateBps, MinHistory} \subseteq Nat \ {0}
  /\ {DisputedDays, DisputeWindow, MaxDay, LoadingBps, MaxMoney} \subseteq Nat
  /\ RewardsBps \in 0 .. BPS
  /\ MaxCoverage < LogLen
  /\ RiskChoices \subseteq Risks
  /\ Deposits \subseteq Nat /\ Burns \subseteq Nat /\ Weights \subseteq Nat
  /\ Terms \subseteq [threshold : Nat, payout : Nat, start : Nat, end : Nat]

(* A chain holds finitely many accounts.                                   *)
ASSUME AccountsAssumption == IsFiniteSet(CellIds) /\ IsFiniteSet(PolicyIds)

VARIABLES
  pool,           (* the Pool account                                      *)
  positions,      (* CapitalPosition::shares, per depositor                *)
  vault,          (* the balance of the token account holding capital      *)
  cells,          (* the day log of each CellState                         *)
  cellReserved,   (* CellState::reserved                                   *)
  flagged,        (* CellState::under_investigation: the cells that are    *)
  rewards,        (* the CellRewards account of each cell                  *)
  policies,       (* the Policy accounts                                   *)
  frozen,         (* the accounts the asset's issuer has frozen            *)
  today,          (* Pool::day_index(now)                                  *)
  published       (* the DayRecorded events of each cell                   *)

chain == <<pool, positions, vault, cells, cellReserved, flagged, rewards, policies, published>>
vars  == <<chain, frozen, today>>

Days == 0 .. MaxDay

Unpublished == "Unpublished"

Pools ==
  [capital : Money, reserved : Money, shares : Money,
   exposureBps : 1 .. BPS, minStake : Money \ {0}]

NoPolicy == [state |-> "NotIssued"]

PolicyStates == {"Active", "PaidOut", "ClosedNoEvent", "Unclaimed"}

PolicyRecords ==
  [cell : CellIds, threshold : Nat, payout : Nat, premium : Nat, start : Nat, end : Nat,
   state : PolicyStates]

(* initialize_pool, with no cell, policy or reward account opened yet. *)
Init ==
  /\ \E risk \in RiskChoices :
       pool = [capital |-> 0, reserved |-> 0, shares |-> 0,
               exposureBps |-> risk.exposureBps, minStake |-> risk.minStake]
  /\ positions = [d \in Depositors |-> 0]
  /\ vault = 0
  /\ cells = [c \in CellIds |-> EmptyCell]
  /\ cellReserved = [c \in CellIds |-> 0]
  /\ flagged = {}
  /\ rewards = [c \in CellIds |-> ClosedLedger]
  /\ policies = [p \in PolicyIds |-> NoPolicy]
  /\ frozen = {}
  /\ today = 0
  /\ published = [c \in CellIds |-> [d \in Days |-> Unpublished]]

(***************************************************************************)
(* Capital: instructions/pool.rs.                                          *)
(***************************************************************************)
FreeLiquidity == IF pool.capital >= pool.reserved THEN pool.capital - pool.reserved ELSE 0

(* The first deposit sets the scale; a pool with shares and no capital     *)
(* cannot price one.                                                       *)
SharesForDeposit(amount) ==
  IF pool.shares = 0 THEN amount ELSE (amount * pool.shares) \div pool.capital

DepositCapital(depositor, amount) ==
  /\ pool.shares = 0 \/ pool.capital > 0
  /\ SharesForDeposit(amount) > 0
  /\ LET minted == SharesForDeposit(amount) IN
     /\ pool' = [pool EXCEPT !.capital = @ + amount, !.shares = @ + minted]
     /\ positions' = [positions EXCEPT ![depositor] = @ + minted]
  /\ pool' \in Pools
  /\ vault' = vault + amount
  /\ UNCHANGED <<cells, cellReserved, flagged, rewards, policies, published, frozen, today>>

SetPoolParams(risk) ==
  /\ risk \in Risks
  /\ pool' = [pool EXCEPT !.exposureBps = risk.exposureBps, !.minStake = risk.minStake]
  /\ UNCHANGED <<positions, vault, cells, cellReserved, flagged, rewards, policies, published,
                 frozen, today>>

(***************************************************************************)
(* Days: instructions/day.rs and reputation.rs, the aggregator's two       *)
(* writes.  The chain takes them as separate calls.                        *)
(***************************************************************************)
Log(c) == INSTANCE DayLog WITH cell <- cells[c]

SubmitDayRecord(c, day, state, voters) ==
  /\ Log(c)!AcceptableRecord(day, state, voters)
  /\ IsNewer(cells[c], day)
  /\ cells' = [cells EXCEPT ![c] = RecordDay(@, day, state, voters)]
  /\ published' = [published EXCEPT ![c][day] = state]
  /\ UNCHANGED <<pool, positions, vault, cellReserved, flagged, rewards, policies, frozen, today>>

(* check_day_reputation pins the day to the cell's last one.  The verdicts *)
(* it also records are the reputation ring's, which moves in step with the *)
(* ledger's next day; a weight needs an accepted interval, so a vote.      *)
SubmitDayReputation(c, weights) ==
  LET day    == cells[c].last
      ledger == IF rewards[c].opened THEN rewards[c] ELSE OpenLedger(day) IN
  /\ day # NoDay
  /\ \A s \in SensorSlots : weights[s] > 0 => s \in ContributorsOf(cells[c], day)
  /\ day >= ledger.next
  /\ ReturnedBy(ledger, day, weights) \in Money
  /\ rewards' = [rewards EXCEPT ![c] = PayDay(ledger, day, weights)]
  /\ rewards'[c] \in Ledgers
  /\ pool' = [pool EXCEPT !.capital = @ + ReturnedBy(ledger, day, weights)]
  /\ pool' \in Pools
  /\ UNCHANGED <<positions, vault, cells, cellReserved, flagged, policies, published,
                 frozen, today>>

(***************************************************************************)
(* Selling: check_underwriting, price_of and issue_policy.                 *)
(***************************************************************************)
CapitalExposureLimit == (pool.capital * pool.exposureBps) \div BPS

(* Half of the least number of votes that make a value, rounded up. *)
CollusionFloor == pool.minStake * ((MinSensors + 1) \div 2)

(* Mutant: the floor itself is the limit, not half of it.                  *)
CellExposureAtTheFloor ==
  IF CapitalExposureLimit < CollusionFloor THEN CapitalExposureLimit ELSE CollusionFloor

CellExposureLimit ==
  LET half == CollusionFloor \div 2 IN
  IF CapitalExposureLimit < half THEN CapitalExposureLimit ELSE half

MayUnderwrite(c, terms) ==
  /\ terms.payout > 0
  /\ terms.start <= terms.end
  /\ terms.end - terms.start + 1 <= MaxCoverage
  /\ terms.threshold > 0 /\ terms.threshold <= terms.end - terms.start + 1
  /\ terms.start >= today + WaitingDays
  /\ LatestVotes(cells[c]) >= MinSensors
  /\ FreeLiquidity >= terms.payout
  /\ cellReserved[c] + terms.payout <= CellExposureLimit

HasHistory(c) == Cardinality(CoveredSlots(cells[c])) >= MinHistory

(* The rate rounds down, the premium rounds up. *)
PremiumRate(c) ==
  LET covered   == Cardinality(CoveredSlots(cells[c]))
      frequency == (Cardinality(DrySlots(cells[c])) * BPS) \div covered
      loaded    == (frequency * (BPS + LoadingBps)) \div BPS IN
  IF loaded > MinRateBps THEN loaded ELSE MinRateBps

PremiumFor(c, payout) == (payout * PremiumRate(c) + BPS - 1) \div BPS

(* split_premium: the reward share rounds down, capital takes the rest. *)
RewardShare(premium) == (premium * RewardsBps) \div BPS

IssuePolicy(p, c, terms) ==
  /\ policies[p] = NoPolicy
  /\ rewards[c].opened
  /\ c \notin flagged
  /\ MayUnderwrite(c, terms)
  /\ HasHistory(c)
  /\ CanSchedule(rewards[c], terms.start, terms.end)
  /\ LET premium   == PremiumFor(c, terms.payout)
         toRewards == RewardShare(premium) IN
     /\ vault' = vault + premium
     /\ pool' = [pool EXCEPT !.reserved = @ + terms.payout,
                             !.capital  = @ + (premium - toRewards)]
     /\ rewards' = [rewards EXCEPT ![c] = ScheduleWindow(@, toRewards, terms.start, terms.end)]
     /\ policies' = [policies EXCEPT
          ![p] = [cell |-> c, threshold |-> terms.threshold, payout |-> terms.payout,
                  premium |-> premium, start |-> terms.start, end |-> terms.end,
                  state |-> "Active"]]
  /\ cellReserved' = [cellReserved EXCEPT ![c] = @ + terms.payout]
  /\ pool' \in Pools /\ rewards'[c] \in Ledgers /\ cellReserved'[c] \in Money
  /\ UNCHANGED <<positions, cells, flagged, published, frozen, today>>

(***************************************************************************)
(* Settling and closing.  Anybody may call; the caller picks one of the    *)
(* owner's accounts.                                                       *)
(***************************************************************************)
SpellIn(dry, policy) == HasDrySpell(dry, policy.start, policy.end, policy.threshold)

EventHappened(p) == SpellIn(DryDays(cells[policies[p].cell]), policies[p])

(* Mutant: a window is over when the clock has passed it, recorded or not. *)
WindowOver(p) == policies[p].end < today

WindowComplete(p) ==
  IsComplete(cells[policies[p].cell], policies[p].start, policies[p].end)

(* The transfer from the vault, and the checked_subs of release_payout: an *)
(* amount that is not there takes the whole transaction with it.           *)
PayoutIsCovered(p) ==
  LET payout == policies[p].payout IN
  /\ vault >= payout
  /\ pool.capital >= payout
  /\ pool.reserved >= payout
  /\ cellReserved[policies[p].cell] >= payout

(* Mutant: the cell keeps the reservation of a policy that was paid.       *)
ReleasePayoutOfThePool(p) ==
  LET payout == policies[p].payout IN
  /\ PayoutIsCovered(p)
  /\ vault' = vault - payout
  /\ pool' = [pool EXCEPT !.capital = @ - payout, !.reserved = @ - payout]
  /\ policies' = [policies EXCEPT ![p].state = "PaidOut"]
  /\ UNCHANGED <<positions, cells, cellReserved, flagged, rewards, published, frozen, today>>

(* Mutant: the pool keeps the reservation of a policy that was paid.       *)
ReleasePayoutOfTheCell(p) ==
  LET payout == policies[p].payout IN
  /\ PayoutIsCovered(p)
  /\ vault' = vault - payout
  /\ pool' = [pool EXCEPT !.capital = @ - payout]
  /\ cellReserved' = [cellReserved EXCEPT ![policies[p].cell] = @ - payout]
  /\ policies' = [policies EXCEPT ![p].state = "PaidOut"]
  /\ UNCHANGED <<positions, cells, flagged, rewards, published, frozen, today>>

(* The money leaves, and the books say so. *)
ReleasePayout(p) ==
  LET payout == policies[p].payout IN
  /\ PayoutIsCovered(p)
  /\ vault' = vault - payout
  /\ pool' = [pool EXCEPT !.capital = @ - payout, !.reserved = @ - payout]
  /\ cellReserved' = [cellReserved EXCEPT ![policies[p].cell] = @ - payout]
  /\ policies' = [policies EXCEPT ![p].state = "PaidOut"]
  /\ UNCHANGED <<positions, cells, flagged, rewards, published, frozen, today>>

SettlePolicy(p, account) ==
  /\ policies[p].state = "Active"
  /\ EventHappened(p)
  /\ account \notin frozen
  /\ ReleasePayout(p)

(* Mutant: what is left unclaimed is no longer reserved.                   *)
LeaveUnclaimedUnreserved(p, account) ==
  /\ policies[p].state = "Active"
  /\ EventHappened(p)
  /\ account \in frozen
  /\ pool' = [pool EXCEPT !.reserved = @ - policies[p].payout]
  /\ pool' \in Pools
  /\ policies' = [policies EXCEPT ![p].state = "Unclaimed"]
  /\ UNCHANGED <<positions, vault, cells, cellReserved, flagged, rewards, published,
                 frozen, today>>

(* settle_policy against a frozen account: the payout stays reserved. *)
LeaveUnclaimed(p, account) ==
  /\ policies[p].state = "Active"
  /\ EventHappened(p)
  /\ account \in frozen
  /\ policies' = [policies EXCEPT ![p].state = "Unclaimed"]
  /\ UNCHANGED <<pool, positions, vault, cells, cellReserved, flagged, rewards, published,
                 frozen, today>>

(* The token program refuses a transfer to a frozen account. *)
ClaimUnclaimedPayout(p, account) ==
  /\ policies[p].state = "Unclaimed"
  /\ account \notin frozen
  /\ ReleasePayout(p)

ClosePolicy(p) ==
  LET c      == policies[p].cell
      payout == policies[p].payout IN
  /\ policies[p].state = "Active"
  /\ WindowComplete(p)
  /\ ~EventHappened(p)
  /\ pool' = [pool EXCEPT !.reserved = @ - payout]
  /\ pool' \in Pools
  /\ cellReserved[c] >= payout
  /\ cellReserved' = [cellReserved EXCEPT ![c] = @ - payout]
  /\ policies' = [policies EXCEPT ![p].state = "ClosedNoEvent"]
  /\ UNCHANGED <<positions, vault, cells, flagged, rewards, published, frozen, today>>

(***************************************************************************)
(* Sensors' money: rewards.rs and the capital side of exclude_sensor.      *)
(***************************************************************************)
ClaimReward(c, slot) ==
  LET amount == rewards[c].accrued[slot] IN
  /\ amount > 0
  /\ vault >= amount
  /\ vault' = vault - amount
  /\ rewards' = [rewards EXCEPT ![c] = TakeAccrued(@, slot)]
  /\ rewards'[c] \in Ledgers
  /\ UNCHANGED <<pool, positions, cells, cellReserved, flagged, policies, published,
                 frozen, today>>

(* Where one sensor may have earned: its slot, and the slot it held in     *)
(* another cell before its last move.                                      *)
SensorPlaces ==
  {places \in SUBSET (CellIds \X SensorSlots) :
     /\ Cardinality(places) \in {1, 2}
     /\ \A a, b \in places : a[1] = b[1] => a = b}

ForfeitedIn(c, places) ==
  SumFunctionOnSet(rewards[c].accrued, {s \in SensorSlots : <<c, s>> \in places})

Forfeited(places) == SumFunction([c \in CellIds |-> ForfeitedIn(c, places)])

(* The stake comes over from the stake vault; the forfeited rewards are in *)
(* the vault already.  Which record justifies it is not this module's.     *)
ExcludeSensor(places, burnt) ==
  /\ vault' = vault + burnt
  /\ rewards' = [c \in CellIds |->
                  [rewards[c] EXCEPT
                     !.accrued = [s \in SensorSlots |->
                                   IF <<c, s>> \in places THEN 0 ELSE rewards[c].accrued[s]],
                     !.reserve = @ - ForfeitedIn(c, places)]]
  /\ rewards' \in [CellIds -> Ledgers]
  /\ Forfeited(places) \in Money
  /\ pool' = [pool EXCEPT !.capital = @ + burnt + Forfeited(places)]
  /\ pool' \in Pools
  /\ UNCHANGED <<positions, cells, cellReserved, flagged, policies, published, frozen, today>>

(***************************************************************************)
(* Investigations: instructions/investigation.rs.                          *)
(***************************************************************************)
DisputableDays(c) ==
  {d \in DryDays(cells[c]) : d < today /\ today - d <= DisputeWindow}

OpenInvestigation(c) ==
  /\ c \notin flagged
  /\ Cardinality(DisputableDays(c)) >= DisputedDays
  /\ flagged' = flagged \cup {c}
  /\ UNCHANGED <<pool, positions, vault, cells, cellReserved, rewards, policies, published,
                 frozen, today>>

CloseInvestigation(c) ==
  /\ c \in flagged
  /\ flagged' = flagged \ {c}
  /\ UNCHANGED <<pool, positions, vault, cells, cellReserved, rewards, policies, published,
                 frozen, today>>

(***************************************************************************)
(* The world: the asset's issuer freezes and thaws accounts, days pass.    *)
(***************************************************************************)
Freeze(account) == account \notin frozen /\ frozen' = frozen \cup {account} /\ UNCHANGED <<chain, today>>
Thaw(account)   == account \in frozen /\ frozen' = frozen \ {account} /\ UNCHANGED <<chain, today>>

Tick == today < MaxDay /\ today' = today + 1 /\ UNCHANGED <<chain, frozen>>

PoolStep ==
  \/ \E d \in Depositors, amount \in Deposits : DepositCapital(d, amount)
  \/ \E risk \in RiskChoices : SetPoolParams(risk)

CellStep ==
  \E c \in CellIds :
    \/ \E day \in Days, state \in DayStates, voters \in SUBSET SensorSlots :
         SubmitDayRecord(c, day, state, voters)
    \/ \E weights \in [SensorSlots -> Weights] : SubmitDayReputation(c, weights)
    \/ \E slot \in SensorSlots : ClaimReward(c, slot)
    \/ OpenInvestigation(c)
    \/ CloseInvestigation(c)

PolicyStep ==
  \E p \in PolicyIds :
    \/ \E c \in CellIds, terms \in Terms : IssuePolicy(p, c, terms)
    \/ \E account \in Accounts :
         SettlePolicy(p, account) \/ LeaveUnclaimed(p, account) \/ ClaimUnclaimedPayout(p, account)
    \/ ClosePolicy(p)

SensorStep == \E places \in SensorPlaces, burnt \in Burns : ExcludeSensor(places, burnt)

WorldStep == Tick \/ \E account \in Accounts : Freeze(account) \/ Thaw(account)

Next == PoolStep \/ CellStep \/ PolicyStep \/ SensorStep \/ WorldStep

Spec == Init /\ [][Next]_vars

-----------------------------------------------------------------------------
TypeOK ==
  /\ pool \in Pools
  /\ positions \in [Depositors -> Nat]
  /\ vault \in Nat
  /\ cells \in [CellIds -> Cells]
  /\ cellReserved \in [CellIds -> Money]
  /\ flagged \subseteq CellIds
  /\ rewards \in [CellIds -> Ledgers]
  /\ policies \in [PolicyIds -> PolicyRecords \cup {NoPolicy}]
  /\ frozen \subseteq Accounts
  /\ today \in Days
  /\ published \in [CellIds -> [Days -> DayStates \cup {Unpublished}]]

(***************************************************************************)
(* Money.                                                                  *)
(***************************************************************************)
IsOpen(p) == policies[p].state \in {"Active", "Unclaimed"}

OwedOn(c) == {p \in PolicyIds : IsOpen(p) /\ policies[p].cell = c}

SumPayouts(ids) == SumFunction([p \in ids |-> policies[p].payout])

(* The pool never owes more than it holds: whatever is sold, settled,      *)
(* closed, claimed, forfeited or burnt, every reserved payout has capital  *)
(* behind it (FR-019).                                                     *)
ReservedIsBacked == pool.reserved <= pool.capital

(* The reservations are the open obligations and nothing else, pool-wide   *)
(* and per cell: a policy left unclaimed keeps its share of both, one paid *)
(* or closed keeps none, and none is released twice.                       *)
ReservedIsOwed ==
  /\ pool.reserved = SumPayouts({p \in PolicyIds : IsOpen(p)})
  /\ \A c \in CellIds : cellReserved[c] = SumPayouts(OwedOn(c))

(* One vault holds two kinds of money told apart only by the books: at any *)
(* moment it holds the capital and every cell's reward reserve, to the     *)
(* unit, whatever was rounded on the way (FR-061, FR-064).                 *)
VaultMatchesTheBooks ==
  vault = pool.capital + SumFunction([c \in CellIds |-> rewards[c].reserve])

(* take_accrued calls a reserve short of its accruals a bug in the books:  *)
(* a ledger's reserve is what its days still hold and its slots have       *)
(* earned.                                                                 *)
ReserveIsScheduledOrEarned ==
  \A c \in CellIds :
    rewards[c].reserve = SumFunction(rewards[c].schedule) + SumFunction(rewards[c].accrued)

(* The budget of every day still to be paid is the shares the sold windows *)
(* laid on that day and no other: the ring's laps, the skipped days and    *)
(* the days already paid leave nothing behind for a later policy (FR-062). *)
BudgetsFollowTheCover ==
  \A c \in CellIds :
    \A d \in rewards[c].next .. rewards[c].next + ScheduleLen - 1 :
      BudgetOf(rewards[c], d) =
        SumFunction([p \in {q \in PolicyIds : /\ policies[q] # NoPolicy
                                              /\ policies[q].cell = c
                                              /\ d \in policies[q].start .. policies[q].end} |->
                       ShareOfDay(RewardShare(policies[p].premium),
                                  policies[p].start, policies[p].end, d)])

(* No transaction that owes a payout is refused by the books: a policy     *)
(* whose event has happened, or that was left unclaimed, finds its payout  *)
(* in the vault, in the capital and in both reservations (FR-030).         *)
SettlementIsNeverRefused ==
  \A p \in PolicyIds :
    \/ policies[p].state = "Unclaimed"
    \/ policies[p].state = "Active" /\ EventHappened(p)
    => PayoutIsCovered(p)

(* Cover that starts in the future never falls before the schedule: the    *)
(* ledger's next day cannot overtake the clock, so BeforeSchedule refuses  *)
(* nobody who has waited.                                                  *)
SchedulesBehindTheClock == \A c \in CellIds : rewards[c].next <= today

(***************************************************************************)
(* The trace: payouts against the DayRecorded events.                      *)
(***************************************************************************)
PublishedDry(c) == {d \in Days : published[c][d] = "Dry"}

OutcomeFollows(p) ==
  LET policy == policies[p] IN
  /\ policy.state \in {"PaidOut", "Unclaimed"} => SpellIn(PublishedDry(policy.cell), policy)
  /\ policy.state = "ClosedNoEvent" =>
       ~SpellIn(PublishedDry(policy.cell), policy) /\ policy.end <= cells[policy.cell].last

(* Everything paid or owed unclaimed can be re-derived from the events:    *)
(* the window holds the run of published dry days, though the ring has     *)
(* long forgotten them.  Everything closed had no such run, and every day  *)
(* of its window was over for the log when it was closed (FR-016, FR-028). *)
OutcomesFollowTheEvents == \A p \in PolicyIds : OutcomeFollows(p)

(* The log answers what was published, and "no coverage" for a day of the  *)
(* window nobody published: what settlement reads is what anyone can read. *)
LogIsPublished ==
  \A c \in CellIds : \A d \in cells[c].first .. cells[c].last :
    DayStateOf(cells[c], d) =
      IF published[c][d] = Unpublished THEN "NoCoverage" ELSE published[c][d]

(***************************************************************************)
(* What a step may never do.                                               *)
(***************************************************************************)

(* A policy is sold once, its terms and its premium are then fixed, and it *)
(* ends once: paid at once or after being left unclaimed, or closed.       *)
Succeeds(before, after) ==
  \/ after = before
  \/ before.state = "NotIssued" /\ after.state = "Active"
  \/ /\ after = [before EXCEPT !.state = after.state]
     /\ \/ before.state = "Active"
        \/ before.state = "Unclaimed" /\ after.state = "PaidOut"

PoliciesEndOnce == [][\A p \in PolicyIds : Succeeds(policies[p], policies'[p])]_vars

(* Only a sale takes capacity: a payout, a closing, a claim or a forfeit   *)
(* never leaves the pool less free liquidity than before.                  *)
OnlySalesTakeCapacity ==
  [][FreeLiquidity' < FreeLiquidity => \E p \in PolicyIds : policies[p] = NoPolicy /\ policies'[p] # NoPolicy]_vars

(* What a share is worth falls only when a payout leaves: no deposit       *)
(* dilutes those who carried the risk before it, however it rounds.        *)
ShareWorthHolds ==
  pool.shares > 0 => pool'.capital * pool.shares >= pool.capital * pool'.shares

SharesFallOnlyByPayouts ==
  [][(\A p \in PolicyIds : policies'[p].state = "PaidOut" => policies[p].state = "PaidOut")
       => ShareWorthHolds]_vars

(* An event, once it has happened, can be settled until its window begins  *)
(* to leave the ring, whatever is recorded, flagged or re-parameterised.   *)
DueIsKept ==
  [][\A p \in PolicyIds :
       /\ policies[p].state = "Active" /\ EventHappened(p)
       /\ policies'[p].state = "Active"
       /\ cells'[policies[p].cell].first <= policies[p].start
       => EventHappened(p)']_vars

(* Each cell's log is a DayLog, so what is proved of DayLog holds here.    *)
LogsAreDayLogs ==
  /\ \A c \in CellIds : Log(c)!Init
  /\ [][\A c \in CellIds : [Log(c)!Next]_(Log(c)!vars)]_vars

(***************************************************************************)
(* What the comments of policy.rs say, and the code does not do.           *)
(***************************************************************************)

(* "no caller can choose to defer a payout that would have gone through":  *)
(* a payout is left unclaimed only when no account of the owner takes it.  *)
NobodyDefersAPayout ==
  [][\A p \in PolicyIds :
       policies[p].state = "Active" /\ policies'[p].state = "Unclaimed" => Accounts \subseteq frozen]_vars
=============================================================================
