---------------------------- MODULE PolicyProofs ----------------------------
(***************************************************************************)
(* What Policies does for every value of its constants.  First, the pool   *)
(* stays solvent, the day logs are the published events, every outcome can *)
(* be re-derived from them, and a policy ends once.  Then, what the books  *)
(* are worth: reservations are open obligations, the vault is what the     *)
(* books say, a reward reserve is what is scheduled and earned, the budget *)
(* of a day is the cover sold for it.                                      *)
(*                                                                         *)
(* The argument: TypeOK bounds the money; the logs agree with the events   *)
(* because a record is always newer than the last (DayRingProofs says what *)
(* the ring then reads); events are therefore only added beyond the last   *)
(* day, and an outcome, which looks at a window behind the last day or at  *)
(* a run already there, is never contradicted by a later one.              *)
(*                                                                         *)
(* The code keeps its totals by adding and subtracting as it goes.  Each   *)
(* proof about the books relates a running total to the sum it stands for, *)
(* step by step, with the facts of Sums.                                   *)
(***************************************************************************)
EXTENDS Exposure, DayRingProofs, Sums

(* Integer division of naturals rounds down and stays a natural: premiums, *)
(* shares and rates are quotients.                                         *)
LEMMA DivideDown ==
  ASSUME NEW a \in Nat, NEW n \in Nat \ {0}
  PROVE  /\ a \div n \in Nat
         /\ n * (a \div n) <= a
BY SMT

(* A product grows with its factor, for the one place a rate is compared   *)
(* with its whole.                                                         *)
LEMMA ProductGrows ==
  ASSUME NEW a \in Nat, NEW b \in Nat, NEW n \in Nat, b <= n
  PROVE  a * b \in Nat /\ a * b <= a * n
<1>1. n - b \in Nat
  OBVIOUS
<1>2. a * (n - b) \in Nat
  BY <1>1
<1>3. a * n = a * b + a * (n - b)
  BY <1>1
<1> QED BY <1>2, <1>3

(* split_premium: the rewards' share of a premium is at most the premium,  *)
(* so capital's part is never negative and its checked_sub never fails.    *)
LEMMA RewardShareFits ==
  ASSUME NEW premium \in Nat
  PROVE  RewardShare(premium) \in 0 .. premium
<1>1. RewardsBps \in Nat /\ BPS \in Nat \ {0} /\ RewardsBps <= BPS
  BY PoliciesAssumption DEF BPS
<1>2. premium * RewardsBps \in Nat /\ premium * RewardsBps <= premium * BPS
  BY <1>1, ProductGrows
<1>3. /\ RewardShare(premium) \in Nat
      /\ BPS * RewardShare(premium) <= premium * RewardsBps
  BY <1>1, <1>2, DivideDown DEF RewardShare
<1> QED BY <1>1, <1>2, <1>3 DEF BPS

(* shares_for_deposit yields a whole, non-negative number of shares        *)
(* whenever the pool can price one.                                        *)
LEMMA SharesFit ==
  ASSUME TypeOK, NEW amount \in Nat, pool.shares = 0 \/ pool.capital > 0
  PROVE  SharesForDeposit(amount) \in Nat
<1>1. pool.shares \in Nat /\ pool.capital \in Nat
  BY PoliciesAssumption DEF TypeOK, Pools, Money
<1>2. CASE pool.shares = 0
  BY <1>2 DEF SharesForDeposit
<1>3. CASE pool.shares # 0
  <2>1. amount * pool.shares \in Nat /\ pool.capital \in Nat \ {0}
    BY <1>1, <1>3
  <2> QED BY <2>1, <1>3, DivideDown DEF SharesForDeposit
<1> QED BY <1>2, <1>3

(* premium_for yields a whole, non-negative premium for every cell that    *)
(* has the history to be priced: the division by the covered days is       *)
(* defined.                                                                *)
LEMMA PremiumFits ==
  ASSUME TypeOK, NEW c \in CellIds, HasHistory(c), NEW payout \in Nat
  PROVE  PremiumFor(c, payout) \in Nat
<1> DEFINE covered == Cardinality(CoveredSlots(cells[c]))
           dry     == Cardinality(DrySlots(cells[c]))
           freq    == (dry * BPS) \div covered
           loaded  == (freq * (BPS + LoadingBps)) \div BPS
<1>1. IsFiniteSet(RingSlots)
  BY FS_Interval, LogLenAssumption DEF RingSlots
<1>2. IsFiniteSet(CoveredSlots(cells[c])) /\ IsFiniteSet(DrySlots(cells[c]))
  BY <1>1, FS_Subset DEF CoveredSlots, DrySlots
<1>3. covered \in Nat \ {0} /\ dry \in Nat
  <2>1. covered \in Nat /\ dry \in Nat
    BY <1>2, FS_CardinalityType
  <2> QED BY <2>1, PoliciesAssumption DEF HasHistory
<1> HIDE DEF covered, dry
<1>4. freq \in Nat
  <2>1. dry * BPS \in Nat
    BY <1>3 DEF BPS
  <2> QED BY <2>1, <1>3, DivideDown
<1> HIDE DEF freq
<1>5. loaded \in Nat
  <2>1. freq * (BPS + LoadingBps) \in Nat
    BY <1>4, PoliciesAssumption DEF BPS
  <2> QED BY <2>1, DivideDown DEF BPS
<1>6. PremiumRate(c) = IF loaded > MinRateBps THEN loaded ELSE MinRateBps
  BY DEF PremiumRate, loaded, freq, covered, dry
<1> HIDE DEF loaded
<1>7. PremiumRate(c) \in Nat
  BY <1>5, <1>6, PoliciesAssumption
<1>8. payout * PremiumRate(c) + BPS - 1 \in Nat
  BY <1>7 DEF BPS
<1> QED BY <1>8, DivideDown DEF PremiumFor, BPS

-----------------------------------------------------------------------------
(* What the day logs, the published events and the clock know of each      *)
(* other: the invariant of each log (CellProofs), that it is not ahead   *)
(* of the clock, and that nothing was published beyond its last day. The   *)
(* last part is what makes a new record never contradict an event.         *)
LogsAgree ==
  /\ LogIsPublished
  /\ \A c \in CellIds :
       /\ TracksLast(cells[c]) /\ OnlyWindowFilled(cells[c])
       /\ cells[c].last < today
       /\ \A d \in Days : published[c][d] # Unpublished => d <= cells[c].last

(* No policy ends before it starts: check_underwriting refuses such terms, *)
(* and a complete window is then one whose last day the log holds.         *)
WindowsOrdered ==
  \A p \in PolicyIds : policies[p] # NoPolicy => policies[p].start <= policies[p].end

(* The inductive invariant. ReservedIsBacked needs only the types; the     *)
(* outcomes need the logs to agree with the events and the windows to be   *)
(* ordered; the schedules need the logs to be behind the clock.            *)
Inv ==
  /\ TypeOK
  /\ ReservedIsBacked
  /\ LogsAgree
  /\ SchedulesBehindTheClock
  /\ WindowsOrdered
  /\ OutcomesFollowTheEvents

(* initialize_pool establishes the invariant.                              *)
LEMMA InitInv == Init => Inv
<1> SUFFICES ASSUME Init PROVE Inv
  OBVIOUS
<1> USE PoliciesAssumption
<1>0. PICK risk \in RiskChoices :
        pool = [capital |-> 0, reserved |-> 0, shares |-> 0,
                exposureBps |-> risk.exposureBps, minStake |-> risk.minStake]
  BY DEF Init
<1>1. pool \in Pools
  BY <1>0 DEF Pools, Risks, Money
<1>2. EmptyCell \in Cells /\ TracksLast(EmptyCell) /\ OnlyWindowFilled(EmptyCell)
  BY EmptyCellWellFormed
<1>3. ClosedLedger \in Ledgers
  BY DEF ClosedLedger, Ledgers, Money
<1>4. TypeOK
  BY <1>1, <1>2, <1>3 DEF Init, TypeOK, Days, Money
<1>5. ReservedIsBacked
  BY <1>0 DEF ReservedIsBacked
<1>6. LogsAgree
  <2>1. ASSUME NEW c \in CellIds
        PROVE  cells[c] = EmptyCell /\ \A d \in Days : published[c][d] = Unpublished
    BY DEF Init
  <2>2. EmptyCell.first = 0 /\ EmptyCell.last = -1 /\ today = 0
    BY DEF EmptyCell, NoDay, Init
  <2> QED BY <1>2, <2>1, <2>2 DEF LogsAgree, LogIsPublished
<1>7. SchedulesBehindTheClock
  BY DEF Init, SchedulesBehindTheClock, ClosedLedger
<1>8. WindowsOrdered /\ OutcomesFollowTheEvents
  BY DEF Init, WindowsOrdered, OutcomesFollowTheEvents, OutcomeFollows, NoPolicy
<1> QED BY <1>4, <1>5, <1>6, <1>7, <1>8 DEF Inv

(* Only a day record, or the clock, moves the logs, the events and the     *)
(* day.                                                                    *)
LEMMA LogSteps ==
  Next => \/ UNCHANGED <<cells, published, today>>
          \/ Tick
          \/ \E c \in CellIds, day \in Days, state \in DayStates, voters \in SUBSET SensorSlots :
               SubmitDayRecord(c, day, state, voters)
<1> DEFINE Still == UNCHANGED <<cells, published, today>>
<1>1. PoolStep => Still
  BY DEF PoolStep, DepositCapital, SetPoolParams
<1>2. ASSUME NEW c \in CellIds
      PROVE  /\ \A weights \in [SensorSlots -> Weights] : SubmitDayReputation(c, weights) => Still
             /\ \A slot \in SensorSlots : ClaimReward(c, slot) => Still
             /\ OpenInvestigation(c) \/ CloseInvestigation(c) => Still
  <2>1. ASSUME NEW weights \in [SensorSlots -> Weights], SubmitDayReputation(c, weights) PROVE Still
    BY <2>1 DEF SubmitDayReputation
  <2>2. ASSUME NEW slot \in SensorSlots, ClaimReward(c, slot) PROVE Still
    BY <2>2 DEF ClaimReward
  <2>3. OpenInvestigation(c) \/ CloseInvestigation(c) => Still
    BY DEF OpenInvestigation, CloseInvestigation
  <2> HIDE DEF Still
  <2> QED BY <2>1, <2>2, <2>3
<1>3. PolicyStep => Still
  <2>1. ASSUME NEW p \in PolicyIds, ReleasePayout(p) \/ ClosePolicy(p) PROVE Still
    BY <2>1 DEF ReleasePayout, ClosePolicy
  <2>2. ASSUME NEW p \in PolicyIds, NEW account \in Accounts,
               SettlePolicy(p, account) \/ LeaveUnclaimed(p, account) \/ ClaimUnclaimedPayout(p, account)
        PROVE  Still
    <3>1. CASE LeaveUnclaimed(p, account)
      BY <3>1 DEF LeaveUnclaimed
    <3>2. CASE SettlePolicy(p, account) \/ ClaimUnclaimedPayout(p, account)
      BY <2>1, <3>2 DEF SettlePolicy, ClaimUnclaimedPayout
    <3> QED BY <2>2, <3>1, <3>2
  <2>3. ASSUME NEW p \in PolicyIds, NEW c \in CellIds, NEW terms \in Terms, IssuePolicy(p, c, terms)
        PROVE  Still
    BY <2>3 DEF IssuePolicy
  <2> HIDE DEF Still
  <2> QED BY <2>1, <2>2, <2>3 DEF PolicyStep
<1>4. SensorStep => Still
  BY DEF SensorStep, ExcludeSensor
<1>5. WorldStep => Still \/ Tick
  BY DEF WorldStep, Freeze, Thaw, chain
<1> HIDE DEF Still
<1>6. CellStep =>
        \/ Still
        \/ \E c \in CellIds, day \in Days, state \in DayStates, voters \in SUBSET SensorSlots :
             SubmitDayRecord(c, day, state, voters)
  BY <1>2 DEF CellStep
<1> QED BY <1>1, <1>3, <1>4, <1>5, <1>6 DEF Next, Still

(* Only a sale, a settlement, a claim and a closing touch a policy.        *)
LEMMA PolicySteps ==
  Next => \/ UNCHANGED policies
          \/ \E p \in PolicyIds, c \in CellIds, terms \in Terms : IssuePolicy(p, c, terms)
          \/ \E p \in PolicyIds, account \in Accounts :
               SettlePolicy(p, account) \/ LeaveUnclaimed(p, account) \/ ClaimUnclaimedPayout(p, account)
          \/ \E p \in PolicyIds : ClosePolicy(p)
<1> DEFINE Still == UNCHANGED policies
<1>1. PoolStep => Still
  BY DEF PoolStep, DepositCapital, SetPoolParams
<1>2. CellStep => Still
  BY DEF CellStep, SubmitDayRecord, SubmitDayReputation, ClaimReward, OpenInvestigation,
         CloseInvestigation
<1>3. SensorStep => Still
  BY DEF SensorStep, ExcludeSensor
<1>4. WorldStep => Still
  BY DEF WorldStep, Tick, Freeze, Thaw, chain
<1> HIDE DEF Still
<1> QED BY <1>1, <1>2, <1>3, <1>4 DEF Next, PolicyStep, Still

(* Every instruction leaves every account well typed: the guards of the    *)
(* checked arithmetic are what keeps the money in range.                   *)
LEMMA TypeInv == Inv /\ [Next]_vars => TypeOK'
<1> SUFFICES ASSUME Inv, [Next]_vars PROVE TypeOK'
  OBVIOUS
<1> USE PoliciesAssumption
<1>0. TypeOK
  BY DEF Inv
<1>1. ASSUME NEW d \in Depositors, NEW amount \in Deposits, DepositCapital(d, amount)
      PROVE  TypeOK'
  <2>1. SharesForDeposit(amount) \in Nat
    BY <1>0, <1>1, SharesFit DEF DepositCapital
  <2> HIDE DEF SharesForDeposit
  <2>2. positions' \in [Depositors -> Nat]
    BY <1>0, <1>1, <2>1 DEF DepositCapital, TypeOK
  <2>3. vault' \in Nat
    BY <1>0, <1>1 DEF DepositCapital, TypeOK
  <2> QED BY <1>0, <1>1, <2>2, <2>3 DEF DepositCapital, TypeOK
<1>2. ASSUME NEW risk \in RiskChoices, SetPoolParams(risk) PROVE TypeOK'
  BY <1>0, <1>2 DEF SetPoolParams, TypeOK, Pools, Risks
<1>3. ASSUME NEW c \in CellIds, NEW day \in Days, NEW state \in DayStates,
             NEW voters \in SUBSET SensorSlots, SubmitDayRecord(c, day, state, voters)
      PROVE  TypeOK'
  <2>1. RecordDay(cells[c], day, state, voters) \in Cells
    BY <1>0, <1>3, RecordDayReads DEF Inv, LogsAgree, TypeOK, SubmitDayRecord, Days
  <2>2. cells' \in [CellIds -> Cells]
    BY <1>0, <1>3, <2>1 DEF SubmitDayRecord, TypeOK
  <2>3. published' \in [CellIds -> [Days -> DayStates \cup {Unpublished}]]
    BY <1>0, <1>3 DEF SubmitDayRecord, TypeOK
  <2> QED BY <1>0, <1>3, <2>2, <2>3 DEF SubmitDayRecord, TypeOK
<1>4. ASSUME NEW c \in CellIds, NEW weights \in [SensorSlots -> Weights],
             SubmitDayReputation(c, weights)
      PROVE  TypeOK'
  <2>1. rewards' \in [CellIds -> Ledgers]
    BY <1>0, <1>4 DEF SubmitDayReputation, TypeOK
  <2> QED BY <1>0, <1>4, <2>1 DEF SubmitDayReputation, TypeOK
<1>5. ASSUME NEW c \in CellIds, NEW slot \in SensorSlots, ClaimReward(c, slot) PROVE TypeOK'
  <2>1. rewards' \in [CellIds -> Ledgers]
    BY <1>0, <1>5 DEF ClaimReward, TypeOK
  <2>2. vault' \in Nat
    BY <1>0, <1>5 DEF ClaimReward, TypeOK, Ledgers, Money
  <2> QED BY <1>0, <1>5, <2>1, <2>2 DEF ClaimReward, TypeOK
<1>6. ASSUME NEW c \in CellIds, OpenInvestigation(c) \/ CloseInvestigation(c) PROVE TypeOK'
  BY <1>0, <1>6 DEF OpenInvestigation, CloseInvestigation, TypeOK
<1>7. ASSUME NEW p \in PolicyIds, NEW c \in CellIds, NEW terms \in Terms, IssuePolicy(p, c, terms)
      PROVE  TypeOK'
  <2> DEFINE premium == PremiumFor(c, terms.payout)
  <2>1. premium \in Nat
    BY <1>0, <1>7, PremiumFits DEF IssuePolicy
  <2> HIDE DEF premium
  <2>2. vault' = vault + premium
    BY <1>7 DEF IssuePolicy, premium
  <2>3. rewards' \in [CellIds -> Ledgers] /\ cellReserved' \in [CellIds -> Money]
    BY <1>0, <1>7 DEF IssuePolicy, TypeOK
  <2>4. policies' = [policies EXCEPT
          ![p] = [cell |-> c, threshold |-> terms.threshold, payout |-> terms.payout,
                  premium |-> premium, start |-> terms.start, end |-> terms.end,
                  state |-> "Active"]]
    BY <1>7 DEF IssuePolicy, premium
  <2>5. policies' \in [PolicyIds -> PolicyRecords \cup {NoPolicy}]
    BY <1>0, <2>1, <2>4 DEF TypeOK, PolicyRecords, PolicyStates
  <2> QED BY <1>0, <1>7, <2>1, <2>2, <2>3, <2>5 DEF IssuePolicy, TypeOK
<1>8. ASSUME NEW p \in PolicyIds, ReleasePayout(p), policies[p] # NoPolicy PROVE TypeOK'
  <2>1. policies[p] \in PolicyRecords
    BY <1>0, <1>8 DEF TypeOK
  <2>2. vault' \in Nat /\ pool' \in Pools
    <3> DEFINE payout == policies[p].payout
    <3>1. payout \in Nat /\ vault >= payout /\ pool.capital >= payout /\ pool.reserved >= payout
      BY <1>8, <2>1 DEF ReleasePayout, PayoutIsCovered, PolicyRecords
    <3>2. vault' = vault - payout /\ pool' = [pool EXCEPT !.capital = @ - payout, !.reserved = @ - payout]
      BY <1>8 DEF ReleasePayout
    <3> HIDE DEF payout
    <3>3. vault' \in Nat
      BY <1>0, <3>1, <3>2 DEF TypeOK
    <3>4. pool.capital - payout \in Money /\ pool.reserved - payout \in Money
      BY <1>0, <3>1 DEF TypeOK, Pools, Money
    <3>5. pool' \in Pools
      BY <1>0, <3>2, <3>4 DEF TypeOK, Pools
    <3> QED BY <3>3, <3>5
  <2>3. cellReserved' \in [CellIds -> Money]
    BY <1>0, <1>8, <2>1 DEF ReleasePayout, PayoutIsCovered, TypeOK, PolicyRecords, Money
  <2>4. policies' \in [PolicyIds -> PolicyRecords \cup {NoPolicy}]
    BY <1>0, <1>8, <2>1 DEF ReleasePayout, TypeOK, PolicyRecords, PolicyStates
  <2> QED BY <1>0, <1>8, <2>2, <2>3, <2>4 DEF ReleasePayout, TypeOK
<1>9. ASSUME NEW p \in PolicyIds, NEW account \in Accounts,
             SettlePolicy(p, account) \/ ClaimUnclaimedPayout(p, account)
      PROVE  TypeOK'
  BY <1>8, <1>9 DEF SettlePolicy, ClaimUnclaimedPayout, NoPolicy
<1>10. ASSUME NEW p \in PolicyIds, NEW account \in Accounts, LeaveUnclaimed(p, account)
       PROVE  TypeOK'
  <2>1. policies[p] \in PolicyRecords
    BY <1>0, <1>10 DEF TypeOK, LeaveUnclaimed, NoPolicy
  <2>2. policies' \in [PolicyIds -> PolicyRecords \cup {NoPolicy}]
    BY <1>0, <1>10, <2>1 DEF LeaveUnclaimed, TypeOK, PolicyRecords, PolicyStates
  <2> QED BY <1>0, <1>10, <2>2 DEF LeaveUnclaimed, TypeOK
<1>11. ASSUME NEW p \in PolicyIds, ClosePolicy(p) PROVE TypeOK'
  <2>1. policies[p] \in PolicyRecords
    BY <1>0, <1>11 DEF TypeOK, ClosePolicy, NoPolicy
  <2>2. cellReserved' \in [CellIds -> Money]
    BY <1>0, <1>11, <2>1 DEF ClosePolicy, TypeOK, PolicyRecords, Money
  <2>3. policies' \in [PolicyIds -> PolicyRecords \cup {NoPolicy}]
    BY <1>0, <1>11, <2>1 DEF ClosePolicy, TypeOK, PolicyRecords, PolicyStates
  <2> QED BY <1>0, <1>11, <2>2, <2>3 DEF ClosePolicy, TypeOK
<1>12. ASSUME NEW places \in SensorPlaces, NEW burnt \in Burns, ExcludeSensor(places, burnt)
       PROVE  TypeOK'
  <2>1. /\ pool' \in Pools /\ rewards' \in [CellIds -> Ledgers] /\ vault' = vault + burnt
        /\ UNCHANGED <<positions, cells, cellReserved, flagged, policies, published, frozen, today>>
    BY <1>12 DEF ExcludeSensor
  <2>2. burnt \in Nat /\ vault \in Nat
    BY <1>0 DEF TypeOK, PoliciesAssumption
  <2>3. vault' \in Nat
    BY <2>1, <2>2
  <2>4. /\ positions' \in [Depositors -> Nat] /\ cells' \in [CellIds -> Cells]
        /\ cellReserved' \in [CellIds -> Money] /\ flagged' \subseteq CellIds
        /\ policies' \in [PolicyIds -> PolicyRecords \cup {NoPolicy}]
        /\ frozen' \subseteq Accounts /\ today' \in Days
        /\ published' \in [CellIds -> [Days -> DayStates \cup {Unpublished}]]
    BY <1>0, <2>1 DEF TypeOK
  <2> QED BY <2>1, <2>3, <2>4 DEF TypeOK
<1>13. ASSUME WorldStep PROVE TypeOK'
  <2>1. ASSUME UNCHANGED chain PROVE UNCHANGED <<pool, positions, vault, cells, cellReserved,
                                                 flagged, rewards, policies, published>>
    BY <2>1 DEF chain
  <2>2. CASE Tick
    <3>1. UNCHANGED chain /\ today' \in Days /\ frozen' = frozen
      BY <1>0, <2>2 DEF Tick, TypeOK, Days
    <3> QED BY <1>0, <2>1, <3>1 DEF TypeOK
  <2>3. CASE \E account \in Accounts : Freeze(account) \/ Thaw(account)
    <3>1. UNCHANGED chain /\ today' = today /\ frozen' \subseteq Accounts
      BY <1>0, <2>3 DEF Freeze, Thaw, TypeOK
    <3> QED BY <1>0, <2>1, <3>1 DEF TypeOK
  <2> QED BY <1>13, <2>2, <2>3 DEF WorldStep
<1>14. CASE UNCHANGED vars
  BY <1>0, <1>14 DEF vars, chain, TypeOK
<1> QED
  BY <1>1, <1>2, <1>3, <1>4, <1>5, <1>6, <1>7, <1>9, <1>10, <1>11, <1>12, <1>13, <1>14
     DEF Next, PoolStep, CellStep, PolicyStep, SensorStep

(* What the pool could still sell against; negative in no reachable state, *)
(* and so what free_liquidity answers.                                     *)
Uncommitted == pool.capital - pool.reserved

(* Every instruction but a sale leaves at least as much uncommitted        *)
(* capital: payouts take the same from both sides, and everything else     *)
(* only adds capital or releases a reservation.                            *)
LEMMA CapacityStep ==
  Inv /\ [Next]_vars =>
    \/ Uncommitted' >= Uncommitted
    \/ \E p \in PolicyIds, c \in CellIds, terms \in Terms : IssuePolicy(p, c, terms)
<1> SUFFICES ASSUME Inv, [Next]_vars,
                    ~ \E p \in PolicyIds, c \in CellIds, terms \in Terms : IssuePolicy(p, c, terms)
             PROVE  Uncommitted' >= Uncommitted
  OBVIOUS
<1> USE PoliciesAssumption
<1>0. /\ TypeOK /\ pool.reserved \in Nat /\ pool.capital \in Nat
  BY DEF Inv, TypeOK, Pools, Money
<1>1. ASSUME NEW d \in Depositors, NEW amount \in Deposits, DepositCapital(d, amount)
      PROVE  Uncommitted' >= Uncommitted
  BY <1>0, <1>1 DEF DepositCapital, Uncommitted, TypeOK, Pools
<1>2. ASSUME NEW c \in CellIds, NEW weights \in [SensorSlots -> Weights],
             SubmitDayReputation(c, weights)
      PROVE  Uncommitted' >= Uncommitted
  <2>1. PICK returned \in Money : pool' = [pool EXCEPT !.capital = @ + returned]
    BY <1>2 DEF SubmitDayReputation
  <2> QED BY <1>0, <2>1 DEF Uncommitted, TypeOK, Pools, Money
<1>3. ASSUME NEW p \in PolicyIds, ReleasePayout(p), policies[p] # NoPolicy
      PROVE  Uncommitted' >= Uncommitted
  <2>1. policies[p].payout \in Nat
    BY <1>0, <1>3 DEF TypeOK, PolicyRecords
  <2> QED BY <1>0, <1>3, <2>1 DEF ReleasePayout, Uncommitted, TypeOK, Pools
<1>4. ASSUME NEW p \in PolicyIds, NEW account \in Accounts,
             SettlePolicy(p, account) \/ LeaveUnclaimed(p, account) \/ ClaimUnclaimedPayout(p, account)
      PROVE  Uncommitted' >= Uncommitted
  <2>1. CASE LeaveUnclaimed(p, account)
    BY <1>0, <2>1 DEF LeaveUnclaimed, Uncommitted
  <2> QED BY <1>3, <1>4, <2>1 DEF SettlePolicy, ClaimUnclaimedPayout, NoPolicy
<1>5. ASSUME NEW p \in PolicyIds, ClosePolicy(p) PROVE Uncommitted' >= Uncommitted
  <2>1. policies[p].payout \in Nat
    BY <1>0, <1>5 DEF TypeOK, PolicyRecords, ClosePolicy, NoPolicy
  <2> QED BY <1>0, <1>5, <2>1 DEF ClosePolicy, Uncommitted, TypeOK, Pools
<1>6. ASSUME NEW places \in SensorPlaces, NEW burnt \in Burns, ExcludeSensor(places, burnt)
      PROVE  Uncommitted' >= Uncommitted
  <2>1. PICK forfeited \in Money : pool' = [pool EXCEPT !.capital = @ + burnt + forfeited]
    BY <1>6 DEF ExcludeSensor
  <2> QED BY <1>0, <2>1 DEF Uncommitted, TypeOK, Pools, Money
<1>7. ASSUME UNCHANGED <<pool.reserved, pool.capital>> PROVE Uncommitted' >= Uncommitted
  BY <1>0, <1>7 DEF Uncommitted
<1>8. ASSUME NEW risk \in RiskChoices, SetPoolParams(risk) PROVE Uncommitted' >= Uncommitted
  BY <1>0, <1>7, <1>8 DEF SetPoolParams, TypeOK, Pools
<1>9. ASSUME UNCHANGED pool PROVE Uncommitted' >= Uncommitted
  BY <1>7, <1>9
<1>10. ASSUME NEW c \in CellIds, NEW day \in Days, NEW state \in DayStates,
              NEW voters \in SUBSET SensorSlots, SubmitDayRecord(c, day, state, voters)
       PROVE  Uncommitted' >= Uncommitted
  BY <1>9, <1>10 DEF SubmitDayRecord
<1>11. ASSUME NEW c \in CellIds, NEW slot \in SensorSlots, ClaimReward(c, slot)
       PROVE  Uncommitted' >= Uncommitted
  BY <1>9, <1>11 DEF ClaimReward
<1>12. ASSUME NEW c \in CellIds, OpenInvestigation(c) \/ CloseInvestigation(c)
       PROVE  Uncommitted' >= Uncommitted
  BY <1>9, <1>12 DEF OpenInvestigation, CloseInvestigation
<1>13. CASE WorldStep
  BY <1>9, <1>13 DEF WorldStep, Tick, Freeze, Thaw, chain
<1>14. CASE UNCHANGED vars
  BY <1>9, <1>14 DEF vars, chain
<1> QED
  BY <1>1, <1>2, <1>4, <1>5, <1>6, <1>8, <1>10, <1>11, <1>12, <1>13, <1>14
     DEF Next, PoolStep, CellStep, PolicyStep, SensorStep

(* A sale reserves no more than is uncommitted, so the pool stays solvent  *)
(* through every step.                                                     *)
LEMMA BackedInv == Inv /\ [Next]_vars => ReservedIsBacked'
<1> SUFFICES ASSUME Inv, [Next]_vars PROVE ReservedIsBacked'
  OBVIOUS
<1> USE PoliciesAssumption
<1>0. /\ TypeOK /\ pool.reserved \in Nat /\ pool.capital \in Nat
      /\ pool.reserved <= pool.capital
  BY DEF Inv, TypeOK, Pools, Money, ReservedIsBacked
<1>1. ASSUME NEW p \in PolicyIds, NEW c \in CellIds, NEW terms \in Terms, IssuePolicy(p, c, terms)
      PROVE  ReservedIsBacked'
  <2> DEFINE premium   == PremiumFor(c, terms.payout)
             toCapital == premium - RewardShare(premium)
  <2>1. premium \in Nat
    BY <1>0, <1>1, PremiumFits DEF IssuePolicy
  <2>2. RewardShare(premium) \in 0 .. premium
    BY <2>1, RewardShareFits
  <2>3. toCapital \in Nat
    BY <2>1, <2>2
  <2>4. pool' = [pool EXCEPT !.reserved = @ + terms.payout, !.capital = @ + toCapital]
    BY <1>1 DEF IssuePolicy
  <2>5. terms.payout <= pool.capital - pool.reserved /\ terms.payout \in Nat
    BY <1>0, <1>1 DEF IssuePolicy, MayUnderwrite, FreeLiquidity
  <2> HIDE DEF toCapital
  <2>6. pool'.reserved = pool.reserved + terms.payout /\ pool'.capital = pool.capital + toCapital
    BY <1>0, <2>4 DEF TypeOK, Pools
  <2> QED BY <1>0, <2>3, <2>5, <2>6 DEF ReservedIsBacked
<1>2. CASE Uncommitted' >= Uncommitted
  <2>1. pool'.reserved \in Nat /\ pool'.capital \in Nat
    BY TypeInv DEF TypeOK, Pools, Money
  <2> QED BY <1>0, <1>2, <2>1 DEF Uncommitted, ReservedIsBacked
<1> QED BY <1>1, <1>2, CapacityStep

(* The logs keep agreeing with the events: a record is both the newest day *)
(* and the newest event, and RecordDayReads says nothing else of the ring  *)
(* moves.                                                                  *)
LEMMA LogInv == Inv /\ [Next]_vars => LogsAgree'
<1> SUFFICES ASSUME Inv, [Next]_vars PROVE LogsAgree'
  OBVIOUS
<1> USE PoliciesAssumption
<1>0. TypeOK /\ LogsAgree
  BY DEF Inv
<1>1. CASE UNCHANGED <<cells, published, today>>
  BY <1>0, <1>1 DEF LogsAgree, LogIsPublished
<1>2. CASE Tick
  <2>1. cells' = cells /\ published' = published /\ today' = today + 1
    BY <1>2 DEF Tick, chain
  <2>2. today \in Nat
    BY <1>0 DEF TypeOK, Days
  <2>3. \A c \in CellIds : cells[c].last \in Int
    BY <1>0 DEF TypeOK, Cells, NoDay
  <2> QED BY <1>0, <2>1, <2>2, <2>3 DEF LogsAgree, LogIsPublished
<1>3. ASSUME NEW c \in CellIds, NEW day \in Days, NEW state \in DayStates,
             NEW voters \in SUBSET SensorSlots, SubmitDayRecord(c, day, state, voters)
      PROVE  LogsAgree'
  <2> DEFINE log == cells'[c]
  <2>1. /\ cells[c] \in Cells /\ day \in Nat /\ TracksLast(cells[c]) /\ OnlyWindowFilled(cells[c])
        /\ IsNewer(cells[c], day)
    BY <1>0, <1>3 DEF TypeOK, LogsAgree, SubmitDayRecord, Days
  <2>2. log = RecordDay(cells[c], day, state, voters)
    BY <1>0, <1>3 DEF SubmitDayRecord, TypeOK
  <2>3. /\ log \in Cells /\ TracksLast(log) /\ OnlyWindowFilled(log) /\ log.last = day
        /\ log.first >= cells[c].first
        /\ \A d \in log.first .. day :
             DayStateOf(log, d) = IF d = day THEN state
                                  ELSE IF HoldsDay(cells[c], d) THEN DayStateOf(cells[c], d)
                                  ELSE "NoCoverage"
    BY <2>1, <2>2, RecordDayReads
  <2>4. \A other \in CellIds \ {c} : cells'[other] = cells[other] /\ published'[other] = published[other]
    BY <1>0, <1>3 DEF SubmitDayRecord, TypeOK
  <2>5. /\ published'[c] = [published[c] EXCEPT ![day] = state]
        /\ published[c] \in [Days -> DayStates \cup {Unpublished}]
    BY <1>0, <1>3 DEF SubmitDayRecord, TypeOK
  <2>6. today' = today /\ day < today
    BY <1>3 DEF SubmitDayRecord, Log!AcceptableRecord
  <2> HIDE DEF log
  <2>7. /\ \A d \in Days : published[c][d] # Unpublished => d <= cells[c].last
        /\ \A d \in cells[c].first .. cells[c].last :
             DayStateOf(cells[c], d) =
               IF published[c][d] = Unpublished THEN "NoCoverage" ELSE published[c][d]
    BY <1>0 DEF LogsAgree, LogIsPublished
  <2>8. cells[c].last < day /\ cells[c].last \in Int /\ cells[c].first \in Nat
    BY <2>1 DEF IsNewer, Cells, NoDay
  <2>9. ASSUME NEW d \in log.first .. day
        PROVE  DayStateOf(log, d) =
                 IF published'[c][d] = Unpublished THEN "NoCoverage" ELSE published'[c][d]
    <3>1. d \in Days /\ log.first \in Nat
      BY <2>3, <2>9 DEF Days, Cells
    <3>2. CASE d = day
      BY <2>3, <2>5, <3>1, <3>2 DEF DayStates, Unpublished
    <3>3. CASE d # day /\ HoldsDay(cells[c], d)
      <4>1. d \in cells[c].first .. cells[c].last
        BY <2>8, <3>1, <3>3 DEF HoldsDay, Days
      <4> QED BY <2>3, <2>5, <2>7, <3>1, <3>3, <4>1
    <3>4. CASE d # day /\ ~HoldsDay(cells[c], d)
      <4>1. d > cells[c].last
        BY <2>3, <2>8, <2>9, <3>1, <3>4 DEF HoldsDay, Cells, NoDay, Days
      <4>2. published[c][d] = Unpublished
        BY <2>7, <2>8, <3>1, <4>1 DEF Days
      <4> QED BY <2>3, <2>5, <3>1, <3>4, <4>2
    <3> QED BY <3>2, <3>3, <3>4
  <2>10. ASSUME NEW d \in Days, published'[c][d] # Unpublished PROVE d <= log.last
    <3>1. d = day => d <= log.last
      BY <2>3 DEF Days
    <3>2. d # day => published[c][d] # Unpublished
      BY <2>5, <2>10
    <3>3. d # day => d <= cells[c].last
      BY <2>7, <3>2
    <3> QED BY <2>3, <2>8, <3>1, <3>3 DEF Days
  <2>11. LogIsPublished'
    <3> SUFFICES ASSUME NEW k \in CellIds, NEW d \in cells'[k].first .. cells'[k].last
                 PROVE  DayStateOf(cells'[k], d) =
                          IF published'[k][d] = Unpublished THEN "NoCoverage" ELSE published'[k][d]
      BY DEF LogIsPublished
    <3>1. CASE k = c
      BY <2>3, <2>9, <3>1 DEF log
    <3>2. CASE k # c
      BY <1>0, <2>4, <3>2 DEF LogsAgree, LogIsPublished
    <3> QED BY <3>1, <3>2
  <2>12. ASSUME NEW k \in CellIds
         PROVE  /\ TracksLast(cells'[k]) /\ OnlyWindowFilled(cells'[k])
                /\ cells'[k].last < today'
                /\ \A d \in Days : published'[k][d] # Unpublished => d <= cells'[k].last
    <3>1. CASE k = c
      BY <2>3, <2>6, <2>10, <3>1 DEF log
    <3>2. CASE k # c
      BY <1>0, <2>4, <2>6, <3>2 DEF LogsAgree
    <3> QED BY <3>1, <3>2
  <2> QED BY <2>11, <2>12 DEF LogsAgree
<1> QED BY <1>1, <1>2, <1>3, LogSteps DEF vars, chain

(* A ledger's next day only moves to the day after a recorded one, and     *)
(* recorded days are over.                                                 *)
LEMMA LedgerInv == Inv /\ [Next]_vars => SchedulesBehindTheClock'
<1> SUFFICES ASSUME Inv, [Next]_vars PROVE SchedulesBehindTheClock'
  OBVIOUS
<1> USE PoliciesAssumption
<1>0. TypeOK /\ SchedulesBehindTheClock
  BY DEF Inv
<1>1. /\ today \in Nat
      /\ \A c \in CellIds : rewards[c] \in Ledgers /\ rewards[c].next \in Nat
  BY <1>0 DEF TypeOK, Days, Ledgers
<1>2. ASSUME today' = today \/ today' = today + 1,
             \A c \in CellIds : rewards'[c].next = rewards[c].next
      PROVE  SchedulesBehindTheClock'
  BY <1>0, <1>1, <1>2 DEF SchedulesBehindTheClock
<1>3. ASSUME NEW c \in CellIds, NEW weights \in [SensorSlots -> Weights],
             SubmitDayReputation(c, weights)
      PROVE  SchedulesBehindTheClock'
  <2>1. PICK ledger \in {rewards[c], OpenLedger(cells[c].last)} :
          rewards' = [rewards EXCEPT ![c] = PayDay(ledger, cells[c].last, weights)]
    BY <1>3 DEF SubmitDayReputation
  <2>2. cells[c].last \in Int /\ cells[c].last < today
    <3>1. LogsAgree
      BY DEF Inv
    <3> QED BY <1>0, <3>1 DEF TypeOK, Cells, NoDay, LogsAgree
  <2>3. DOMAIN ledger = {"opened", "next", "reserve", "accrued", "schedule"}
    BY <1>1, <2>1 DEF OpenLedger, ClosedLedger, Ledgers
  <2>4. PayDay(ledger, cells[c].last, weights).next = cells[c].last + 1
    BY <2>3 DEF PayDay
  <2> QED BY <1>0, <1>1, <1>3, <2>1, <2>2, <2>4
          DEF SchedulesBehindTheClock, SubmitDayReputation, TypeOK
<1>4. ASSUME NEW c \in CellIds, NEW ledger, ledger.next = rewards[c].next,
             rewards' = [rewards EXCEPT ![c] = ledger], today' = today
      PROVE  SchedulesBehindTheClock'
  BY <1>0, <1>2, <1>4 DEF TypeOK
<1>5. ASSUME NEW c \in CellIds, NEW slot \in SensorSlots, ClaimReward(c, slot)
      PROVE  SchedulesBehindTheClock'
  <2>1. TakeAccrued(rewards[c], slot).next = rewards[c].next
    BY <1>1 DEF TakeAccrued, Ledgers
  <2> QED BY <1>4, <1>5, <2>1 DEF ClaimReward
<1>6. ASSUME NEW p \in PolicyIds, NEW c \in CellIds, NEW terms \in Terms, IssuePolicy(p, c, terms)
      PROVE  SchedulesBehindTheClock'
  <2> DEFINE share == RewardShare(PremiumFor(c, terms.payout))
  <2>1. ScheduleWindow(rewards[c], share, terms.start, terms.end).next = rewards[c].next
    BY <1>1 DEF ScheduleWindow, Ledgers
  <2> QED BY <1>4, <1>6, <2>1 DEF IssuePolicy
<1>7. ASSUME NEW places \in SensorPlaces, NEW burnt \in Burns, ExcludeSensor(places, burnt)
      PROVE  SchedulesBehindTheClock'
  <2>1. ASSUME NEW c \in CellIds PROVE rewards'[c].next = rewards[c].next
    <3> DEFINE accrued == [s \in SensorSlots |->
                            IF <<c, s>> \in places THEN 0 ELSE rewards[c].accrued[s]]
               reserve == rewards[c].reserve - ForfeitedIn(c, places)
    <3>1. rewards'[c] = [rewards[c] EXCEPT !.accrued = accrued, !.reserve = reserve]
      BY <1>7 DEF ExcludeSensor
    <3> HIDE DEF accrued, reserve
    <3> QED BY <1>1, <3>1 DEF Ledgers
  <2> QED BY <1>2, <1>7, <2>1 DEF ExcludeSensor
<1>8. ASSUME UNCHANGED rewards, today' = today \/ today' = today + 1
      PROVE  SchedulesBehindTheClock'
  BY <1>2, <1>8
<1>9. CASE PoolStep
  BY <1>8, <1>9 DEF PoolStep, DepositCapital, SetPoolParams
<1>10. ASSUME NEW c \in CellIds, NEW day \in Days, NEW state \in DayStates,
              NEW voters \in SUBSET SensorSlots, SubmitDayRecord(c, day, state, voters)
       PROVE  SchedulesBehindTheClock'
  BY <1>8, <1>10 DEF SubmitDayRecord
<1>11. ASSUME NEW c \in CellIds, OpenInvestigation(c) \/ CloseInvestigation(c)
       PROVE  SchedulesBehindTheClock'
  BY <1>8, <1>11 DEF OpenInvestigation, CloseInvestigation
<1>12. ASSUME NEW p \in PolicyIds, NEW account \in Accounts,
              SettlePolicy(p, account) \/ LeaveUnclaimed(p, account) \/ ClaimUnclaimedPayout(p, account)
       PROVE  SchedulesBehindTheClock'
  BY <1>8, <1>12 DEF SettlePolicy, LeaveUnclaimed, ClaimUnclaimedPayout, ReleasePayout
<1>13. ASSUME NEW p \in PolicyIds, ClosePolicy(p) PROVE SchedulesBehindTheClock'
  BY <1>8, <1>13 DEF ClosePolicy
<1>14. CASE WorldStep
  BY <1>8, <1>14 DEF WorldStep, Tick, Freeze, Thaw, chain
<1>15. CASE UNCHANGED vars
  BY <1>8, <1>15 DEF vars, chain
<1> QED
  BY <1>3, <1>5, <1>6, <1>7, <1>9, <1>10, <1>11, <1>12, <1>13, <1>14, <1>15
     DEF Next, CellStep, PolicyStep, SensorStep

(* The windows stay ordered: they are fixed at the sale.                   *)
LEMMA WindowInv == Inv /\ [Next]_vars => WindowsOrdered'
<1> SUFFICES ASSUME Inv, [Next]_vars PROVE WindowsOrdered'
  OBVIOUS
<1>0. TypeOK /\ WindowsOrdered
  BY DEF Inv
<1>1. CASE UNCHANGED policies
  BY <1>0, <1>1 DEF WindowsOrdered
<1>2. ASSUME NEW p \in PolicyIds, NEW c \in CellIds, NEW terms \in Terms, IssuePolicy(p, c, terms)
      PROVE  WindowsOrdered'
  <2>1. /\ terms.start <= terms.end
        /\ policies'[p].start = terms.start /\ policies'[p].end = terms.end
        /\ \A q \in PolicyIds \ {p} : policies'[q] = policies[q]
    BY <1>0, <1>2 DEF IssuePolicy, MayUnderwrite, TypeOK
  <2> QED BY <1>0, <2>1 DEF WindowsOrdered
<1>3. ASSUME NEW p \in PolicyIds, policies[p] # NoPolicy, NEW state \in PolicyStates,
             policies' = [policies EXCEPT ![p].state = state]
      PROVE  WindowsOrdered'
  <2>1. policies[p] \in PolicyRecords
    BY <1>0, <1>3 DEF TypeOK
  <2>2. policies'[p].start = policies[p].start /\ policies'[p].end = policies[p].end
    BY <1>0, <1>3, <2>1 DEF TypeOK, PolicyRecords
  <2> QED BY <1>0, <1>3, <2>2 DEF WindowsOrdered, TypeOK
<1>4. ASSUME NEW p \in PolicyIds, NEW account \in Accounts,
             SettlePolicy(p, account) \/ LeaveUnclaimed(p, account) \/ ClaimUnclaimedPayout(p, account)
      PROVE  WindowsOrdered'
  BY <1>3, <1>4 DEF SettlePolicy, LeaveUnclaimed, ClaimUnclaimedPayout, ReleasePayout,
                    NoPolicy, PolicyStates
<1>5. ASSUME NEW p \in PolicyIds, ClosePolicy(p) PROVE WindowsOrdered'
  <2>1. /\ policies[p].state = "Active"
        /\ policies' = [policies EXCEPT ![p].state = "ClosedNoEvent"]
    BY <1>5 DEF ClosePolicy
  <2>2. policies[p] # NoPolicy /\ "ClosedNoEvent" \in PolicyStates
    BY <2>1 DEF NoPolicy, PolicyStates
  <2> QED BY <1>3, <2>1, <2>2
<1> QED BY <1>1, <1>2, <1>4, <1>5, PolicySteps DEF vars, chain

(* More dry days never break a run of them.                                *)
LEMMA SpellGrows ==
  ASSUME NEW dry, NEW more, dry \subseteq more, NEW policy, SpellIn(dry, policy)
  PROVE  SpellIn(more, policy)
BY DEF SpellIn, HasDrySpell

(* A run is decided by the days of its window alone.                       *)
LEMMA SpellIsOfItsWindow ==
  ASSUME NEW dry, NEW other, NEW policy,
         policy.start \in Nat, policy.end \in Nat, policy.threshold \in Nat,
         \A d \in policy.start .. policy.end : d \in dry => d \in other,
         SpellIn(dry, policy)
  PROVE  SpellIn(other, policy)
<1>1. PICK d \in policy.start .. policy.end :
        d + policy.threshold - 1 <= policy.end /\ d .. d + policy.threshold - 1 \subseteq dry
  BY DEF SpellIn, HasDrySpell
<1>2. d .. d + policy.threshold - 1 \subseteq policy.start .. policy.end
  BY <1>1
<1>3. d .. d + policy.threshold - 1 \subseteq other
  BY <1>1, <1>2
<1> QED BY <1>1, <1>3 DEF SpellIn, HasDrySpell

(* The days a log answers dry for were published dry, and inside the       *)
(* window the converse holds too.                                          *)
LEMMA DryDaysArePublished ==
  ASSUME TypeOK, LogsAgree, NEW c \in CellIds
  PROVE  /\ DryDays(cells[c]) \subseteq PublishedDry(c)
         /\ \A d \in cells[c].first .. cells[c].last :
              d \in PublishedDry(c) => d \in DryDays(cells[c])
<1>1. /\ cells[c].first \in Nat /\ cells[c].last \in Int
      /\ cells[c].last < today /\ today \in Days
  BY DEF TypeOK, LogsAgree, Cells, NoDay
<1>2. \A d \in cells[c].first .. cells[c].last : d \in Days
  BY <1>1, PoliciesAssumption DEF Days
<1>3. \A d \in cells[c].first .. cells[c].last :
        DayStateOf(cells[c], d) =
          IF published[c][d] = Unpublished THEN "NoCoverage" ELSE published[c][d]
  BY DEF LogsAgree, LogIsPublished
<1> QED BY <1>2, <1>3 DEF DryDays, PublishedDry, Unpublished

(* Events are only ever added, and only for days the log did not reach     *)
(* yet: whatever was read at or before the last day stays as it was.       *)
LEMMA EventsOnlyAdd ==
  ASSUME Inv, [Next]_vars, NEW c \in CellIds
  PROVE  /\ PublishedDry(c) \subseteq PublishedDry(c)'
         /\ cells[c].last \in Int /\ cells[c].last <= cells'[c].last
         /\ \A d \in PublishedDry(c)' : d <= cells[c].last => d \in PublishedDry(c)
<1> USE PoliciesAssumption
<1>0. TypeOK /\ LogsAgree
  BY DEF Inv
<1>1. cells[c].last \in Int
  BY <1>0 DEF TypeOK, Cells, NoDay
<1>2. CASE cells' = cells /\ published' = published
  BY <1>1, <1>2 DEF PublishedDry
<1>3. ASSUME NEW k \in CellIds, NEW day \in Days, NEW state \in DayStates,
             NEW voters \in SUBSET SensorSlots, SubmitDayRecord(k, day, state, voters)
      PROVE  /\ PublishedDry(c) \subseteq PublishedDry(c)'
             /\ cells[c].last <= cells'[c].last
             /\ \A d \in PublishedDry(c)' : d <= cells[c].last => d \in PublishedDry(c)
  <2>1. CASE k # c
    <3>1. cells'[c] = cells[c] /\ published'[c] = published[c]
      BY <1>0, <1>3, <2>1 DEF SubmitDayRecord, TypeOK
    <3> QED BY <1>1, <3>1 DEF PublishedDry
  <2>2. CASE k = c
    <3>1. /\ published'[c] = [published[c] EXCEPT ![day] = state]
          /\ published[c] \in [Days -> DayStates \cup {Unpublished}]
          /\ cells'[c] = RecordDay(cells[c], day, state, voters)
          /\ cells[c] \in Cells /\ day \in Nat /\ IsNewer(cells[c], day)
          /\ TracksLast(cells[c]) /\ OnlyWindowFilled(cells[c])
      BY <1>0, <1>3, <2>2 DEF SubmitDayRecord, TypeOK, LogsAgree, Days
    <3>2. cells'[c].last = day /\ cells[c].last < day
      BY <1>1, <3>1, RecordDayReads DEF IsNewer
    <3>3. published[c][day] = Unpublished
      BY <1>0, <1>1, <3>1, <3>2 DEF LogsAgree
    <3> QED BY <1>1, <3>1, <3>2, <3>3 DEF PublishedDry, Unpublished
  <2> QED BY <2>1, <2>2
<1> QED BY <1>1, <1>2, <1>3, LogSteps DEF Tick, chain, vars

(* Every outcome keeps following the events, by the step that decided it   *)
(* or, for the steps after it, because events only add: a closed window is *)
(* behind the last day, where no new dry day can appear.                   *)
LEMMA OutcomeInv == Inv /\ [Next]_vars => OutcomesFollowTheEvents'
<1> SUFFICES ASSUME Inv, [Next]_vars, NEW p \in PolicyIds PROVE OutcomeFollows(p)'
  BY DEF OutcomesFollowTheEvents
<1> USE PoliciesAssumption
<1>0. TypeOK /\ LogsAgree /\ WindowsOrdered /\ OutcomeFollows(p)
  BY DEF Inv, OutcomesFollowTheEvents
<1>1. ASSUME policies[p] # NoPolicy
      PROVE  /\ policies[p] \in PolicyRecords /\ policies[p].cell \in CellIds
             /\ policies[p].start \in Nat /\ policies[p].end \in Nat
             /\ policies[p].threshold \in Nat /\ policies[p].start <= policies[p].end
  BY <1>0, <1>1 DEF TypeOK, PolicyRecords, WindowsOrdered
<1>2. CASE policies'[p] = policies[p]
  <2>1. CASE policies[p] = NoPolicy
    BY <1>2, <2>1 DEF OutcomeFollows, NoPolicy
  <2>2. CASE policies[p] # NoPolicy
    <3>0. PICK c \in CellIds : c = policies[p].cell
      BY <1>1, <2>2
    <3>1. /\ policies[p].start \in Nat /\ policies[p].end \in Nat
          /\ policies[p].threshold \in Nat
      BY <1>1, <2>2
    <3>2. /\ PublishedDry(c) \subseteq PublishedDry(c)'
          /\ cells[c].last \in Int /\ cells[c].last <= cells'[c].last
          /\ \A d \in PublishedDry(c)' : d <= cells[c].last => d \in PublishedDry(c)
      BY EventsOnlyAdd
    <3>3. cells'[c].last \in Int
      BY TypeInv DEF TypeOK, Cells, NoDay
    <3>4. policies'[p].cell = c
      BY <1>2, <3>0
    <3>5. SpellIn(PublishedDry(c), policies[p]) => SpellIn(PublishedDry(c)', policies[p])
      BY <3>2, SpellGrows
    <3>6. ASSUME policies[p].end <= cells[c].last, SpellIn(PublishedDry(c)', policies[p])
          PROVE  SpellIn(PublishedDry(c), policies[p])
      <4>1. \A d \in policies[p].start .. policies[p].end :
              d \in PublishedDry(c)' => d \in PublishedDry(c)
        BY <3>1, <3>2, <3>6
      <4> QED BY <3>1, <3>6, <4>1, SpellIsOfItsWindow
    <3> QED BY <1>0, <1>2, <3>0, <3>1, <3>2, <3>3, <3>4, <3>5, <3>6 DEF OutcomeFollows
  <2> QED BY <2>1, <2>2
<1> DEFINE Kept == /\ policies[p] # NoPolicy /\ cells' = cells /\ published' = published
                   /\ policies'[p].cell = policies[p].cell
                   /\ policies'[p].start = policies[p].start
                   /\ policies'[p].end = policies[p].end
                   /\ policies'[p].threshold = policies[p].threshold
<1>3. ASSUME Kept, NEW dry
      PROVE  /\ PublishedDry(policies[p].cell)' = PublishedDry(policies[p].cell)
             /\ SpellIn(dry, policies'[p]) <=> SpellIn(dry, policies[p])
  BY <1>3 DEF PublishedDry, SpellIn
<1>4. ASSUME NEW state, policies[p] # NoPolicy, cells' = cells, published' = published,
             policies' = [policies EXCEPT ![p].state = state]
      PROVE  Kept /\ policies'[p].state = state
  BY <1>0, <1>1, <1>4 DEF TypeOK, PolicyRecords
<1>5. ASSUME Kept, EventHappened(p), policies'[p].state \in {"PaidOut", "Unclaimed"}
      PROVE  OutcomeFollows(p)'
  <2>1. SpellIn(PublishedDry(policies[p].cell), policies[p])
    BY <1>0, <1>1, <1>5, DryDaysArePublished, SpellGrows DEF EventHappened
  <2> QED BY <1>3, <1>5, <2>1 DEF OutcomeFollows
<1>6. ASSUME Kept, policies[p].state = "Unclaimed", policies'[p].state = "PaidOut"
      PROVE  OutcomeFollows(p)'
  BY <1>0, <1>3, <1>6 DEF OutcomeFollows
<1>7. ASSUME Kept, WindowComplete(p), ~EventHappened(p), policies'[p].state = "ClosedNoEvent"
      PROVE  OutcomeFollows(p)'
  <2> DEFINE c == policies[p].cell
  <2>1. /\ c \in CellIds /\ policies[p].start \in Nat /\ policies[p].end \in Nat
        /\ policies[p].threshold \in Nat /\ policies[p].start <= policies[p].end
    BY <1>1, <1>7
  <2>2. \A d \in policies[p].start .. policies[p].end : HoldsDay(cells[c], d)
    BY <1>7 DEF WindowComplete, IsComplete
  <2>3. policies[p].end <= cells[c].last
    BY <2>1, <2>2 DEF HoldsDay
  <2>4. \A d \in policies[p].start .. policies[p].end : d \in cells[c].first .. cells[c].last
    <3>1. cells[c].first \in Int /\ cells[c].last \in Int
      BY <1>0, <2>1 DEF TypeOK, Cells, NoDay
    <3> QED BY <2>1, <2>2, <3>1 DEF HoldsDay
  <2>5. \A d \in policies[p].start .. policies[p].end :
          d \in PublishedDry(c) => d \in DryDays(cells[c])
    BY <1>0, <2>1, <2>4, DryDaysArePublished
  <2>6. ~SpellIn(PublishedDry(c), policies[p])
    BY <1>7, <2>1, <2>5, SpellIsOfItsWindow DEF EventHappened
  <2> QED BY <1>3, <1>7, <2>3, <2>6 DEF OutcomeFollows
<1> HIDE DEF Kept
<1>8. ASSUME NEW q \in PolicyIds, q # p, NEW record,
             policies' = [policies EXCEPT ![q] = record] \/ policies' = [policies EXCEPT ![q].state = record]
      PROVE  OutcomeFollows(p)'
  BY <1>0, <1>2, <1>8 DEF TypeOK
<1>9. ASSUME NEW q \in PolicyIds, NEW c \in CellIds, NEW terms \in Terms, IssuePolicy(q, c, terms)
      PROVE  OutcomeFollows(p)'
  <2> DEFINE record ==
        [cell |-> c, threshold |-> terms.threshold, payout |-> terms.payout,
         premium |-> PremiumFor(c, terms.payout), start |-> terms.start, end |-> terms.end,
         state |-> "Active"]
  <2>1. policies' = [policies EXCEPT ![q] = record] /\ record.state = "Active"
    BY <1>9 DEF IssuePolicy
  <2> HIDE DEF record
  <2>2. CASE q = p
    <3>1. policies'[p].state = "Active"
      BY <1>0, <2>1, <2>2 DEF TypeOK
    <3> QED BY <3>1 DEF OutcomeFollows
  <2> QED BY <1>8, <2>1, <2>2
<1>10. ASSUME NEW q \in PolicyIds, NEW account \in Accounts,
              SettlePolicy(q, account) \/ LeaveUnclaimed(q, account) \/ ClaimUnclaimedPayout(q, account)
       PROVE  OutcomeFollows(p)'
  <2>1. PICK state \in {"PaidOut", "Unclaimed"} :
          /\ policies' = [policies EXCEPT ![q].state = state]
          /\ \/ policies[q].state = "Active" /\ EventHappened(q)
             \/ policies[q].state = "Unclaimed" /\ state = "PaidOut"
          /\ cells' = cells /\ published' = published
    BY <1>10 DEF SettlePolicy, LeaveUnclaimed, ClaimUnclaimedPayout, ReleasePayout
  <2>2. policies[q] # NoPolicy
    BY <2>1 DEF NoPolicy
  <2>3. CASE q = p
    BY <1>4, <1>5, <1>6, <2>1, <2>2, <2>3
  <2> QED BY <1>8, <2>1, <2>3
<1>11. ASSUME NEW q \in PolicyIds, ClosePolicy(q) PROVE OutcomeFollows(p)'
  <2>1. /\ policies' = [policies EXCEPT ![q].state = "ClosedNoEvent"]
        /\ policies[q].state = "Active" /\ WindowComplete(q) /\ ~EventHappened(q)
        /\ cells' = cells /\ published' = published
    BY <1>11 DEF ClosePolicy
  <2>2. policies[q] # NoPolicy
    BY <2>1 DEF NoPolicy
  <2>3. CASE q = p
    BY <1>4, <1>7, <2>1, <2>2, <2>3
  <2> QED BY <1>8, <2>1, <2>3
<1> QED BY <1>2, <1>9, <1>10, <1>11, PolicySteps DEF vars, chain

(* The invariant is inductive.                                             *)
LEMMA NextInv == Inv /\ [Next]_vars => Inv'
BY TypeInv, BackedInv, LogInv, LedgerInv, WindowInv, OutcomeInv DEF Inv

-----------------------------------------------------------------------------
(* Every reachable state of the pool, its cells and its policies satisfies *)
(* the invariant.                                                          *)
THEOREM Invariance == Spec => []Inv
BY InitInv, NextInv, PTL DEF Spec

(* Every account stays well typed, for any number of cells, policies,      *)
(* depositors and days.                                                    *)
THEOREM TypeCorrect == Spec => []TypeOK
<1>1. Inv => TypeOK
  BY DEF Inv
<1> QED BY <1>1, Invariance, PTL

(* The pool never owes more than it holds: whatever is sold, settled,      *)
(* closed, claimed, forfeited or burnt, in whatever order (FR-019).        *)
THEOREM PoolIsSolvent == Spec => []ReservedIsBacked
<1>1. Inv => ReservedIsBacked
  BY DEF Inv
<1> QED BY <1>1, Invariance, PTL

(* What a settlement reads from a cell's ring is what the DayRecorded      *)
(* events say, however many laps the ring has made.                        *)
THEOREM LogsArePublic == Spec => []LogIsPublished
<1>1. Inv => LogIsPublished
  BY DEF Inv, LogsAgree
<1> QED BY <1>1, Invariance, PTL

(* Every payout has its run of published dry days and every closing lacks  *)
(* one, for good (FR-016, FR-028).                                         *)
THEOREM OutcomesCanBeRederived == Spec => []OutcomesFollowTheEvents
<1>1. Inv => OutcomesFollowTheEvents
  BY DEF Inv
<1> QED BY <1>1, Invariance, PTL

(* The reward ledger never overtakes the clock, so cover that waits a day  *)
(* can always be laid out: BeforeSchedule refuses nobody.                  *)
THEOREM CoverIsAlwaysAhead == Spec => []SchedulesBehindTheClock
<1>1. Inv => SchedulesBehindTheClock
  BY DEF Inv
<1> QED BY <1>1, Invariance, PTL

(* No step changes a policy but a sale, once, and then its one or two      *)
(* decisions; the terms and the premium never move.                        *)
LEMMA SuccessionStep ==
  Inv /\ [Next]_vars => \A p \in PolicyIds : Succeeds(policies[p], policies'[p])
<1> SUFFICES ASSUME Inv, [Next]_vars, NEW p \in PolicyIds
             PROVE  Succeeds(policies[p], policies'[p])
  OBVIOUS
<1>0. policies \in [PolicyIds -> PolicyRecords \cup {NoPolicy}]
  BY DEF Inv, TypeOK
<1>1. CASE policies'[p] = policies[p]
  BY <1>1 DEF Succeeds
<1>2. ASSUME NEW q \in PolicyIds, NEW c \in CellIds, NEW terms \in Terms, IssuePolicy(q, c, terms)
      PROVE  Succeeds(policies[p], policies'[p])
  <2> DEFINE record ==
        [cell |-> c, threshold |-> terms.threshold, payout |-> terms.payout,
         premium |-> PremiumFor(c, terms.payout), start |-> terms.start, end |-> terms.end,
         state |-> "Active"]
  <2>1. /\ policies' = [policies EXCEPT ![q] = record] /\ record.state = "Active"
        /\ policies[q] = NoPolicy
    BY <1>2 DEF IssuePolicy
  <2> HIDE DEF record
  <2>2. CASE q = p
    <3>1. policies[p].state = "NotIssued" /\ policies'[p].state = "Active"
      BY <1>0, <2>1, <2>2 DEF NoPolicy
    <3> QED BY <3>1 DEF Succeeds
  <2>3. CASE q # p
    BY <1>0, <1>1, <2>1, <2>3
  <2> QED BY <2>2, <2>3
<1>3. ASSUME NEW q \in PolicyIds, NEW state, policies' = [policies EXCEPT ![q].state = state],
             \/ policies[q].state = "Active"
             \/ policies[q].state = "Unclaimed" /\ state = "PaidOut"
      PROVE  Succeeds(policies[p], policies'[p])
  <2>1. CASE q = p
    <3>1. policies[p] \in PolicyRecords
      BY <1>0, <1>3, <2>1 DEF NoPolicy
    <3>2. policies'[p] = [policies[p] EXCEPT !.state = state]
      BY <1>0, <1>3, <2>1
    <3>3. policies'[p].state = state
      BY <3>1, <3>2 DEF PolicyRecords
    <3> QED BY <1>3, <2>1, <3>2, <3>3 DEF Succeeds
  <2>2. CASE q # p
    BY <1>0, <1>1, <1>3, <2>2
  <2> QED BY <2>1, <2>2
<1>4. ASSUME NEW q \in PolicyIds, NEW account \in Accounts,
             SettlePolicy(q, account) \/ LeaveUnclaimed(q, account) \/ ClaimUnclaimedPayout(q, account)
      PROVE  Succeeds(policies[p], policies'[p])
  <2>1. PICK state \in {"PaidOut", "Unclaimed"} :
          /\ policies' = [policies EXCEPT ![q].state = state]
          /\ \/ policies[q].state = "Active"
             \/ policies[q].state = "Unclaimed" /\ state = "PaidOut"
    BY <1>4 DEF SettlePolicy, LeaveUnclaimed, ClaimUnclaimedPayout, ReleasePayout
  <2> QED BY <1>3, <2>1
<1>5. ASSUME NEW q \in PolicyIds, ClosePolicy(q)
      PROVE  Succeeds(policies[p], policies'[p])
  <2>1. /\ policies' = [policies EXCEPT ![q].state = "ClosedNoEvent"]
        /\ policies[q].state = "Active"
    BY <1>5 DEF ClosePolicy
  <2> QED BY <1>3, <2>1
<1> QED BY <1>1, <1>2, <1>4, <1>5, PolicySteps DEF vars, chain

(* A policy is sold once and ends once: no payout is made twice, and none  *)
(* after a closing.                                                        *)
THEOREM PolicyEndsOnce == Spec => PoliciesEndOnce
<1>1. Inv /\ [Next]_vars => [\A p \in PolicyIds : Succeeds(policies[p], policies'[p])]_vars
  BY SuccessionStep
<1> QED BY <1>1, Invariance, PTL DEF Spec, PoliciesEndOnce

(* Every step of the pool is, for each cell's log, a step of DayLog or no  *)
(* step.                                                                   *)
LEMMA LogsStep ==
  Inv /\ [Next]_vars => \A c \in CellIds : [Log(c)!Next]_(Log(c)!vars)
<1> SUFFICES ASSUME Inv, [Next]_vars, NEW c \in CellIds PROVE [Log(c)!Next]_(Log(c)!vars)
  OBVIOUS
<1>0. TypeOK
  BY DEF Inv
<1>1. CASE UNCHANGED <<cells, published, today>>
  BY <1>1 DEF Log!vars
<1>2. CASE Tick
  BY <1>2 DEF Tick, chain, Log!Next, Log!Tick
<1>3. ASSUME NEW k \in CellIds, NEW day \in Days, NEW state \in DayStates,
             NEW voters \in SUBSET SensorSlots, SubmitDayRecord(k, day, state, voters)
      PROVE  [Log(c)!Next]_(Log(c)!vars)
  <2>1. CASE k = c
    <3>1. /\ Log(c)!AcceptableRecord(day, state, voters) /\ IsNewer(cells[c], day)
          /\ cells'[c] = RecordDay(cells[c], day, state, voters) /\ today' = today
      BY <1>0, <1>3, <2>1 DEF SubmitDayRecord, TypeOK
    <3>2. /\ Log(c)!DayStates = DayStates
          /\ Log(c)!IsNewer(cells[c], day) <=> IsNewer(cells[c], day)
      BY DEF Log!DayStates, DayStates, Log!IsNewer, IsNewer
    <3>3. Log(c)!RecordDay(cells[c], day, state, voters) = RecordDay(cells[c], day, state, voters)
      BY DEF Log!RecordDay, Log!AdvanceWindow, Log!SlotsLeft, Log!RingSlots, Log!RingSlot,
             RecordDay, AdvanceWindow, SlotsLeft, RingSlots, RingSlot
    <3>4. Log(c)!SubmitDayRecord(day, state, voters)
      BY <3>1, <3>2, <3>3 DEF Log!SubmitDayRecord
    <3> QED BY <3>2, <3>4 DEF Log!Next, Days
  <2>2. CASE k # c
    BY <1>0, <1>3, <2>2 DEF SubmitDayRecord, TypeOK, Log!vars
  <2> QED BY <2>1, <2>2
<1> QED BY <1>1, <1>2, <1>3, LogSteps DEF vars, chain

(* Each cell's log implements DayLog, so what CellProofs proves of one   *)
(* log holds of every cell of a pool.                                      *)
THEOREM EveryLogIsADayLog == Spec => LogsAreDayLogs
<1>1. Init => \A c \in CellIds : Log(c)!Init
  <2>1. ASSUME NEW c \in CellIds PROVE Log(c)!EmptyCell = EmptyCell
    BY DEF Log!EmptyCell, EmptyCell, Log!NoDay, NoDay, Log!RingSlots, RingSlots
  <2> QED BY <2>1 DEF Init, Log!Init
<1>2. Inv /\ [Next]_vars => [\A c \in CellIds : [Log(c)!Next]_(Log(c)!vars)]_vars
  BY LogsStep
<1> QED BY <1>1, <1>2, Invariance, PTL DEF Spec, LogsAreDayLogs

(* Free liquidity falls only when a policy is sold.                        *)
THEOREM SalesAloneTakeCapacity == Spec => OnlySalesTakeCapacity
<1> DEFINE Sold == \E p \in PolicyIds : policies[p] = NoPolicy /\ policies'[p] # NoPolicy
<1>1. Inv /\ [Next]_vars => [FreeLiquidity' < FreeLiquidity => Sold]_vars
  <2> SUFFICES ASSUME Inv, [Next]_vars, FreeLiquidity' < FreeLiquidity PROVE Sold
    OBVIOUS
  <2>1. /\ pool.reserved \in Nat /\ pool.capital \in Nat /\ pool.reserved <= pool.capital
        /\ pool'.reserved \in Nat /\ pool'.capital \in Nat /\ pool'.reserved <= pool'.capital
    BY PoliciesAssumption, TypeInv, BackedInv DEF Inv, TypeOK, Pools, Money, ReservedIsBacked
  <2>2. ~ (Uncommitted' >= Uncommitted)
    BY <2>1 DEF FreeLiquidity, Uncommitted
  <2>3. PICK p \in PolicyIds, c \in CellIds, terms \in Terms : IssuePolicy(p, c, terms)
    BY <2>2, CapacityStep
  <2> DEFINE record ==
        [cell |-> c, threshold |-> terms.threshold, payout |-> terms.payout,
         premium |-> PremiumFor(c, terms.payout), start |-> terms.start, end |-> terms.end,
         state |-> "Active"]
  <2>4. policies[p] = NoPolicy /\ policies' = [policies EXCEPT ![p] = record] /\ record.state = "Active"
    BY <2>3 DEF IssuePolicy
  <2> HIDE DEF record
  <2>5. policies'[p] # NoPolicy
    BY <2>4 DEF Inv, TypeOK, NoPolicy
  <2> QED BY <2>4, <2>5
<1> QED BY <1>1, Invariance, PTL DEF Spec, OnlySalesTakeCapacity

(* A step on which every open event stays readable, for DueIsKept. *)
LEMMA DueStep ==
  ASSUME Inv, [Next]_vars, NEW p \in PolicyIds, policies[p].state = "Active", EventHappened(p),
         policies'[p].state = "Active", cells'[policies[p].cell].first <= policies[p].start
  PROVE  EventHappened(p)'
<1> USE PoliciesAssumption
<1>0. TypeOK /\ LogsAgree /\ TypeOK' /\ LogsAgree'
  BY TypeInv, LogInv DEF Inv
<1>1. policies'[p] = policies[p]
  <2>1. Succeeds(policies[p], policies'[p])
    BY SuccessionStep
  <2>2. policies[p] \in PolicyRecords
    BY <1>0 DEF TypeOK, NoPolicy
  <2>3. [policies[p] EXCEPT !.state = "Active"] = policies[p]
    BY <2>2 DEF PolicyRecords
  <2> QED BY <2>1, <2>3 DEF Succeeds
<1>2. PICK c \in CellIds : c = policies[p].cell
  BY <1>0 DEF TypeOK, PolicyRecords, NoPolicy
<1>3. /\ policies[p].start \in Nat /\ policies[p].end \in Nat /\ policies[p].threshold \in Nat
  BY <1>0 DEF TypeOK, PolicyRecords, NoPolicy
<1>4. /\ cells[c].first \in Nat /\ cells'[c].first \in Nat /\ cells'[c].last \in Int
      /\ cells[c].last \in Int /\ cells[c].last <= cells'[c].last
      /\ cells'[c].first <= policies[p].start
  BY <1>0, <1>2, EventsOnlyAdd DEF TypeOK, Cells, NoDay
<1>5. ASSUME NEW d \in policies[p].start .. policies[p].end, d \in DryDays(cells[c])
      PROVE  d \in DryDays(cells'[c])
  <2>1. d \in PublishedDry(c)'
    BY <1>0, <1>5, EventsOnlyAdd, DryDaysArePublished
  <2>2. d \in cells[c].first .. cells[c].last
    BY <1>5 DEF DryDays
  <2>3. d \in cells'[c].first .. cells'[c].last
    BY <1>3, <1>4, <2>2
  <2>4. DayStateOf(cells'[c], d) =
          IF published'[c][d] = Unpublished THEN "NoCoverage" ELSE published'[c][d]
    BY <1>0, <2>3 DEF LogsAgree, LogIsPublished
  <2> QED BY <2>1, <2>3, <2>4 DEF DryDays, PublishedDry, Unpublished
<1>6. SpellIn(DryDays(cells[c]), policies[p])
  BY <1>2 DEF EventHappened
<1>7. SpellIn(DryDays(cells'[c]), policies[p])
  BY <1>3, <1>5, <1>6, SpellIsOfItsWindow
<1> QED BY <1>1, <1>2, <1>7 DEF EventHappened

(* An event that has happened stays settleable until its window begins to  *)
(* leave the ring.                                                         *)
THEOREM DueStaysDue == Spec => DueIsKept
<1>1. Inv /\ [Next]_vars =>
        [\A p \in PolicyIds :
           /\ policies[p].state = "Active" /\ EventHappened(p)
           /\ policies'[p].state = "Active"
           /\ cells'[policies[p].cell].first <= policies[p].start
           => EventHappened(p)']_vars
  BY DueStep
<1> QED BY <1>1, Invariance, PTL DEF Spec, DueIsKept

-----------------------------------------------------------------------------
(***************************************************************************)
(* The reservations.                                                       *)
(***************************************************************************)

(* What a policy holds reserved in the cells of cs.                        *)
Owes(p, cs) == IF IsOpen(p) /\ policies[p].cell \in cs THEN policies[p].payout ELSE 0

Debt(cs) == SumFunctionOnSet([p \in PolicyIds |-> Owes(p, cs)], PolicyIds)

ReservedIsDebt ==
  /\ pool.reserved = Debt(CellIds)
  /\ \A c \in CellIds : cellReserved[c] = Debt({c})

(* A payout is a natural amount, so a policy owes one.                     *)
LEMMA OwesFits ==
  ASSUME TypeOK, NEW p \in PolicyIds, NEW cs
  PROVE  Owes(p, cs) \in Nat
BY DEF TypeOK, PolicyRecords, NoPolicy, Owes, IsOpen

(* The same amounts, added up as ReservedIsOwed adds them.                 *)
LEMMA DebtIsOwed ==
  ASSUME TypeOK
  PROVE  ReservedIsDebt <=> ReservedIsOwed
<1>1. ASSUME NEW cs \in SUBSET CellIds, NEW ids \in SUBSET PolicyIds,
             \A p \in PolicyIds : p \in ids <=> IsOpen(p) /\ policies[p].cell \in cs
      PROVE  SumPayouts(ids) = Debt(cs)
  <2> DEFINE f == [p \in ids |-> policies[p].payout]
             h == [p \in PolicyIds |-> Owes(p, cs)]
  <2>1. \A p \in ids : f[p] \in Nat
    BY <1>1 DEF TypeOK, PolicyRecords, NoPolicy, IsOpen
  <2>2. \A p \in PolicyIds : h[p] = IF p \in ids THEN f[p] ELSE 0
    BY <1>1 DEF Owes
  <2>3. SumPayouts(ids) = SumFunctionOnSet(f, ids)
    BY DEF SumPayouts, SumFunction
  <2> HIDE DEF f, h
  <2>4. SumFunctionOnSet(f, ids) = SumFunctionOnSet(h, PolicyIds)
    BY <2>1, <2>2, SumOfSelected, AccountsAssumption
  <2> QED BY <2>3, <2>4 DEF h, Debt
<1>2. SumPayouts({p \in PolicyIds : IsOpen(p)}) = Debt(CellIds)
  <2>1. \A p \in PolicyIds : IsOpen(p) => policies[p].cell \in CellIds
    BY DEF TypeOK, PolicyRecords, NoPolicy, IsOpen
  <2> QED BY <1>1, <2>1
<1>3. \A c \in CellIds : SumPayouts(OwedOn(c)) = Debt({c})
  BY <1>1 DEF OwedOn
<1> QED BY <1>2, <1>3 DEF ReservedIsDebt, ReservedIsOwed

(* A step that touches one policy moves the debt by what it owes.          *)
LEMMA DebtMoves ==
  ASSUME TypeOK, TypeOK', NEW p \in PolicyIds, NEW cs,
         \A q \in PolicyIds \ {p} : policies'[q] = policies[q]
  PROVE  /\ Debt(cs)' = Debt(cs) - Owes(p, cs) + Owes(p, cs)'
         /\ Owes(p, cs) \in Nat /\ Owes(p, cs)' \in Nat
         /\ Debt(cs) \in Nat /\ Owes(p, cs) <= Debt(cs)
<1> DEFINE f == [q \in PolicyIds |-> Owes(q, cs)]
           g == [q \in PolicyIds |-> Owes(q, cs)']
<1>1. \A q \in PolicyIds : f[q] \in Nat /\ g[q] \in Nat
  <2>1. \A q \in PolicyIds : Owes(q, cs) \in Nat
    BY OwesFits
  <2>2. \A q \in PolicyIds : Owes(q, cs)' \in Nat
    BY DEF TypeOK, PolicyRecords, NoPolicy, Owes, IsOpen
  <2> QED BY <2>1, <2>2
<1>2. \A q \in PolicyIds \ {p} : g[q] = f[q]
  BY DEF Owes, IsOpen
<1>3. Debt(cs) = SumFunctionOnSet(f, PolicyIds) /\ Debt(cs)' = SumFunctionOnSet(g, PolicyIds)
  BY DEF Debt
<1>4. f[p] = Owes(p, cs) /\ g[p] = Owes(p, cs)'
  OBVIOUS
<1> HIDE DEF f, g
<1>5. SumFunctionOnSet(g, PolicyIds) = SumFunctionOnSet(f, PolicyIds) - f[p] + g[p]
  BY <1>1, <1>2, SumChanges, AccountsAssumption
<1>6. /\ SumFunctionOnSet(f, PolicyIds) = f[p] + SumFunctionOnSet(f, PolicyIds \ {p})
      /\ SumFunctionOnSet(f, PolicyIds \ {p}) \in Nat
  BY <1>1, SumWithout, AccountsAssumption
<1> QED BY <1>1, <1>3, <1>4, <1>5, <1>6

(* A step that moves the reservations sells, pays or closes one policy.    *)
LEMMA ReservationSteps ==
  TypeOK /\ [Next]_vars =>
    \/ UNCHANGED <<policies, pool.reserved, cellReserved>>
    \/ \E p \in PolicyIds, c \in CellIds, terms \in Terms : IssuePolicy(p, c, terms)
    \/ \E p \in PolicyIds : IsOpen(p) /\ ReleasePayout(p)
    \/ \E p \in PolicyIds, account \in Accounts : LeaveUnclaimed(p, account)
    \/ \E p \in PolicyIds : ClosePolicy(p)
<1> SUFFICES ASSUME TypeOK, [Next]_vars
             PROVE  \/ UNCHANGED <<policies, pool.reserved, cellReserved>>
                    \/ \E p \in PolicyIds, c \in CellIds, terms \in Terms : IssuePolicy(p, c, terms)
                    \/ \E p \in PolicyIds : IsOpen(p) /\ ReleasePayout(p)
                    \/ \E p \in PolicyIds, account \in Accounts : LeaveUnclaimed(p, account)
                    \/ \E p \in PolicyIds : ClosePolicy(p)
  OBVIOUS
<1> DEFINE Still == UNCHANGED <<policies, pool.reserved, cellReserved>>
<1>1. ASSUME PoolStep PROVE Still
  BY <1>1 DEF PoolStep, DepositCapital, SetPoolParams, TypeOK, Pools
<1>2. ASSUME CellStep PROVE Still
  <2>1. ASSUME NEW c \in CellIds, NEW weights \in [SensorSlots -> Weights],
               SubmitDayReputation(c, weights)
        PROVE  Still
    <3>1. PICK returned \in Money : pool' = [pool EXCEPT !.capital = @ + returned]
      BY <2>1 DEF SubmitDayReputation
    <3> QED BY <2>1, <3>1 DEF SubmitDayReputation, TypeOK, Pools
  <2>2. ASSUME NEW c \in CellIds, NEW day \in Days, NEW state \in DayStates,
               NEW voters \in SUBSET SensorSlots, SubmitDayRecord(c, day, state, voters)
        PROVE  Still
    BY <2>2 DEF SubmitDayRecord
  <2>3. ASSUME NEW c \in CellIds, NEW slot \in SensorSlots, ClaimReward(c, slot) PROVE Still
    BY <2>3 DEF ClaimReward
  <2>4. ASSUME NEW c \in CellIds, OpenInvestigation(c) \/ CloseInvestigation(c) PROVE Still
    BY <2>4 DEF OpenInvestigation, CloseInvestigation
  <2> HIDE DEF Still
  <2> QED BY <1>2, <2>1, <2>2, <2>3, <2>4 DEF CellStep
<1>3. ASSUME SensorStep PROVE Still
  <2>1. PICK burnt, forfeited : pool' = [pool EXCEPT !.capital = @ + burnt + forfeited]
    BY <1>3 DEF SensorStep, ExcludeSensor
  <2> QED BY <1>3, <2>1 DEF SensorStep, ExcludeSensor, TypeOK, Pools
<1>4. ASSUME WorldStep PROVE Still
  BY <1>4 DEF WorldStep, Tick, Freeze, Thaw, chain
<1>5. ASSUME UNCHANGED vars PROVE Still
  BY <1>5 DEF vars, chain
<1> HIDE DEF Still
<1>6. ASSUME NEW p \in PolicyIds, NEW account \in Accounts,
             SettlePolicy(p, account) \/ ClaimUnclaimedPayout(p, account)
      PROVE  IsOpen(p) /\ ReleasePayout(p)
  BY <1>6 DEF SettlePolicy, ClaimUnclaimedPayout, IsOpen
<1>7. CASE Still
  BY <1>7 DEF Still
<1>8. CASE PolicyStep
  BY <1>6, <1>8 DEF PolicyStep
<1> QED BY <1>1, <1>2, <1>3, <1>4, <1>5, <1>7, <1>8 DEF Next

(* The reservations follow the obligations through every step: a sale adds *)
(* the payout to both, a payment or a closing takes it from both, and a    *)
(* payout left unclaimed stays in both.                                    *)
LEMMA DebtInv == Inv /\ ReservedIsDebt /\ [Next]_vars => ReservedIsDebt'
<1> SUFFICES ASSUME Inv, ReservedIsDebt, [Next]_vars PROVE ReservedIsDebt'
  OBVIOUS
<1> USE PoliciesAssumption
<1>0. TypeOK /\ TypeOK'
  BY TypeInv DEF Inv
<1>1. CASE UNCHANGED <<policies, pool.reserved, cellReserved>>
  BY <1>1 DEF ReservedIsDebt, Debt, Owes, IsOpen
<1>2. ASSUME NEW p \in PolicyIds, \A q \in PolicyIds \ {p} : policies'[q] = policies[q],
             pool'.reserved = pool.reserved - Owes(p, CellIds) + Owes(p, CellIds)',
             \A c \in CellIds : cellReserved'[c] = cellReserved[c] - Owes(p, {c}) + Owes(p, {c})'
      PROVE  ReservedIsDebt'
  <2>1. ASSUME NEW cs PROVE Debt(cs)' = Debt(cs) - Owes(p, cs) + Owes(p, cs)'
    BY <1>0, <1>2, DebtMoves
  <2> QED BY <1>2, <2>1 DEF ReservedIsDebt
<1>3. ASSUME NEW p \in PolicyIds, NEW cell \in CellIds, NEW terms \in Terms,
             IssuePolicy(p, cell, terms)
      PROVE  ReservedIsDebt'
  <2>1. /\ policies[p] = NoPolicy /\ terms.payout \in Nat
        /\ \A q \in PolicyIds \ {p} : policies'[q] = policies[q]
        /\ policies'[p].state = "Active" /\ policies'[p].cell = cell
        /\ policies'[p].payout = terms.payout
    BY <1>0, <1>3 DEF IssuePolicy, TypeOK
  <2>2. \A cs \in SUBSET CellIds : /\ Owes(p, cs) = 0
                                   /\ Owes(p, cs)' = IF cell \in cs THEN terms.payout ELSE 0
    BY <2>1 DEF Owes, IsOpen, NoPolicy
  <2>3. pool'.reserved = pool.reserved + terms.payout /\ pool.reserved \in Nat
    <3> DEFINE toCapital == PremiumFor(cell, terms.payout) - RewardShare(PremiumFor(cell, terms.payout))
    <3>1. pool' = [pool EXCEPT !.reserved = @ + terms.payout, !.capital = @ + toCapital]
      BY <1>3 DEF IssuePolicy
    <3> HIDE DEF toCapital
    <3> QED BY <1>0, <3>1 DEF TypeOK, Pools, Money
  <2>4. \A c \in CellIds : /\ cellReserved[c] \in Nat
                           /\ cellReserved'[c] = IF c = cell THEN cellReserved[c] + terms.payout
                                                 ELSE cellReserved[c]
    BY <1>0, <1>3 DEF IssuePolicy, TypeOK, Money
  <2>5. pool'.reserved = pool.reserved - Owes(p, CellIds) + Owes(p, CellIds)'
    BY <2>1, <2>2, <2>3
  <2>6. \A c \in CellIds : cellReserved'[c] = cellReserved[c] - Owes(p, {c}) + Owes(p, {c})'
    BY <2>1, <2>2, <2>4
  <2> QED BY <1>2, <2>1, <2>5, <2>6
<1>4. ASSUME NEW p \in PolicyIds, IsOpen(p), NEW state \in {"PaidOut", "ClosedNoEvent"},
             policies' = [policies EXCEPT ![p].state = state],
             pool'.reserved = pool.reserved - policies[p].payout,
             cellReserved' = [cellReserved EXCEPT ![policies[p].cell] = @ - policies[p].payout]
      PROVE  ReservedIsDebt'
  <2>1. policies[p] \in PolicyRecords
    BY <1>0, <1>4 DEF TypeOK, IsOpen, NoPolicy
  <2>2. PICK cell \in CellIds, payout \in Nat : cell = policies[p].cell /\ payout = policies[p].payout
    BY <2>1 DEF PolicyRecords
  <2>3. /\ \A q \in PolicyIds \ {p} : policies'[q] = policies[q]
        /\ policies'[p].state = state
    BY <1>0, <1>4, <2>1 DEF TypeOK, PolicyRecords
  <2>4. \A cs \in SUBSET CellIds : /\ Owes(p, cs) = IF cell \in cs THEN payout ELSE 0
                                   /\ Owes(p, cs)' = 0
    BY <1>4, <2>2, <2>3 DEF Owes, IsOpen
  <2>5. \A c \in CellIds : /\ cellReserved[c] \in Nat
                           /\ cellReserved'[c] = IF c = cell THEN cellReserved[c] - payout
                                                 ELSE cellReserved[c]
    BY <1>0, <1>4, <2>2 DEF TypeOK, Money
  <2>6. pool'.reserved = pool.reserved - payout /\ pool.reserved \in Nat
    BY <1>0, <1>4, <2>2 DEF TypeOK, Pools, Money
  <2>7. pool'.reserved = pool.reserved - Owes(p, CellIds) + Owes(p, CellIds)'
    BY <2>2, <2>4, <2>6
  <2>8. \A c \in CellIds : cellReserved'[c] = cellReserved[c] - Owes(p, {c}) + Owes(p, {c})'
    BY <2>2, <2>4, <2>5
  <2> QED BY <1>2, <2>3, <2>7, <2>8
<1>5. ASSUME NEW p \in PolicyIds, IsOpen(p), ReleasePayout(p) PROVE ReservedIsDebt'
  <2>1. pool'.reserved = pool.reserved - policies[p].payout
    BY <1>0, <1>5 DEF ReleasePayout, TypeOK, Pools
  <2> QED BY <1>4, <1>5, <2>1 DEF ReleasePayout
<1>6. ASSUME NEW p \in PolicyIds, ClosePolicy(p) PROVE ReservedIsDebt'
  <2>1. pool'.reserved = pool.reserved - policies[p].payout
    BY <1>0, <1>6 DEF ClosePolicy, TypeOK, Pools
  <2> QED BY <1>4, <1>6, <2>1 DEF ClosePolicy, IsOpen
<1>7. ASSUME NEW p \in PolicyIds, NEW account \in Accounts, LeaveUnclaimed(p, account)
      PROVE  ReservedIsDebt'
  <2>1. /\ IsOpen(p) /\ policies' = [policies EXCEPT ![p].state = "Unclaimed"]
        /\ pool' = pool /\ cellReserved' = cellReserved
    BY <1>7 DEF LeaveUnclaimed, IsOpen
  <2>2. policies[p] \in PolicyRecords
    BY <1>0, <2>1 DEF TypeOK, IsOpen, NoPolicy
  <2>3. \A q \in PolicyIds : /\ IsOpen(q)' <=> IsOpen(q)
                             /\ policies'[q].cell = policies[q].cell
                             /\ policies'[q].payout = policies[q].payout
    BY <1>0, <2>1, <2>2 DEF TypeOK, PolicyRecords, IsOpen
  <2>4. \A q \in PolicyIds, cs \in SUBSET CellIds : Owes(q, cs)' = Owes(q, cs)
    BY <2>3 DEF Owes
  <2>5. \A cs \in SUBSET CellIds : Debt(cs)' = Debt(cs)
    BY <2>4 DEF Debt
  <2> QED BY <2>1, <2>5 DEF ReservedIsDebt
<1> QED BY <1>0, <1>1, <1>3, <1>5, <1>6, <1>7, ReservationSteps

-----------------------------------------------------------------------------
(***************************************************************************)
(* The ring of days a premium's reward share is laid out on.               *)
(***************************************************************************)

(* Quotient and remainder are unique, which is all the ring's arithmetic   *)
(* needs of the operator %.                                                *)
LEMMA RemainderIs ==
  ASSUME NEW n \in Nat \ {0}, NEW a \in Int, NEW q \in Int, NEW r \in 0 .. n - 1, a = n * q + r
  PROVE  a % n = r
<1> DEFINE k == a \div n
<1>1. a = n * k + (a % n) /\ k \in Int /\ a % n \in 0 .. n - 1
  OBVIOUS
<1> HIDE DEF k
<1>2. n * (k - q) = r - (a % n)
  BY <1>1
<1>3. CASE k - q >= 1
  <2>1. n * (k - q) >= n
    BY <1>1, <1>3
  <2> QED BY <1>1, <1>2, <2>1
<1>4. CASE k - q <= -1
  <2>1. n * (k - q) <= -n
    BY <1>1, <1>4
  <2> QED BY <1>1, <1>2, <2>1
<1>5. CASE k = q
  BY <1>1, <1>5
<1> QED BY <1>1, <1>3, <1>4, <1>5

(* A slot stands for exactly one day of the horizon, and every day of the  *)
(* horizon has its slot.                                                   *)
LEMMA DayOfSlot ==
  ASSUME NEW r, r.next \in Nat, NEW s \in ScheduleSlots
  PROVE  /\ DayInSlot(r, s) \in Nat
         /\ r.next <= DayInSlot(r, s) /\ DayInSlot(r, s) < r.next + ScheduleLen
         /\ ScheduleSlot(DayInSlot(r, s)) = s
<1> USE PoliciesAssumption
<1> DEFINE n == r.next
           k == (s - n) \div ScheduleLen
           m == (s - n) % ScheduleLen
<1>1. n \in Nat /\ s \in 0 .. ScheduleLen - 1 /\ ScheduleLen \in Nat \ {0}
  BY DEF ScheduleSlots
<1>2. DayInSlot(r, s) = n + m
  BY DEF DayInSlot
<1> HIDE DEF n
<1>3. s - n = ScheduleLen * k + m /\ k \in Int /\ m \in 0 .. ScheduleLen - 1
  BY <1>1
<1> HIDE DEF k, m
<1>4. n + m = ScheduleLen * (-k) + s /\ -k \in Int
  BY <1>1, <1>3
<1>5. n + m \in Int /\ s \in 0 .. ScheduleLen - 1
  BY <1>1, <1>3
<1>6. (n + m) % ScheduleLen = s
  BY <1>1, <1>4, <1>5, RemainderIs
<1> QED BY <1>1, <1>2, <1>3, <1>6 DEF n, ScheduleSlot

LEMMA SlotOfDay ==
  ASSUME NEW r, r.next \in Nat, NEW d \in Nat, r.next <= d, d < r.next + ScheduleLen
  PROVE  ScheduleSlot(d) \in ScheduleSlots /\ DayInSlot(r, ScheduleSlot(d)) = d
<1> USE PoliciesAssumption
<1> DEFINE n == r.next
           k == d \div ScheduleLen
           s == d % ScheduleLen
<1>1. n \in Nat /\ ScheduleLen \in Nat \ {0} /\ n <= d /\ d < n + ScheduleLen
  OBVIOUS
<1>2. d = ScheduleLen * k + s /\ k \in Int /\ s \in 0 .. ScheduleLen - 1
  BY <1>1
<1>3. DayInSlot(r, ScheduleSlot(d)) = n + ((s - n) % ScheduleLen) /\ ScheduleSlot(d) = s
  BY DEF DayInSlot, ScheduleSlot
<1> HIDE DEF n, k, s
<1>4. s - n = ScheduleLen * (-k) + (d - n) /\ -k \in Int /\ s - n \in Int /\ d - n \in 0 .. ScheduleLen - 1
  BY <1>1, <1>2
<1>5. (s - n) % ScheduleLen = d - n
  BY <1>1, <1>4, RemainderIs
<1> QED BY <1>1, <1>2, <1>3, <1>5 DEF ScheduleSlots

(* Days less than a lap apart have slots of their own; days a lap apart    *)
(* share one.                                                              *)
LEMMA DaysApart ==
  ASSUME NEW a \in Nat, NEW b \in Nat, a < b, b < a + ScheduleLen
  PROVE  ScheduleSlot(a) # ScheduleSlot(b)
<1> DEFINE r == [next |-> a]
<1>1. DayInSlot(r, ScheduleSlot(a)) = a /\ DayInSlot(r, ScheduleSlot(b)) = b
  BY SlotOfDay, PoliciesAssumption
<1> QED BY <1>1

LEMMA LapsMeet ==
  ASSUME NEW a \in Nat
  PROVE  ScheduleSlot(a + ScheduleLen) = ScheduleSlot(a)
<1> USE PoliciesAssumption
<1> DEFINE k == a \div ScheduleLen
           s == a % ScheduleLen
<1>1. ScheduleLen \in Nat \ {0} /\ a = ScheduleLen * k + s /\ k \in Int /\ s \in 0 .. ScheduleLen - 1
  OBVIOUS
<1> HIDE DEF k, s
<1>2. a + ScheduleLen = ScheduleLen * (k + 1) + s /\ k + 1 \in Int
  BY <1>1
<1>3. (a + ScheduleLen) % ScheduleLen = s
  BY <1>1, <1>2, RemainderIs
<1> QED BY <1>3 DEF ScheduleSlot, s

-----------------------------------------------------------------------------
(***************************************************************************)
(* Laying out: the days of a window get all of the share and no more.      *)
(***************************************************************************)
LEMMA SharesAddUp ==
  ASSUME NEW amount \in Nat, NEW start \in Nat, NEW end \in Nat, start <= end,
         NEW share, \A d \in start .. end : share[d] = ShareOfDay(amount, start, end, d)
  PROVE  /\ SumFunctionOnSet(share, start .. end) = amount
         /\ \A d \in start .. end : share[d] \in Nat
<1> DEFINE days == end - start + 1
           q    == amount \div days
           rest == amount % days
           even == [d \in start .. end |-> q]
           odd  == [d \in start .. end |-> IF d - start < rest THEN 1 ELSE 0]
           T    == start .. start + rest - 1
<1>1. days \in Nat \ {0}
  OBVIOUS
<1>2. \A d \in start .. end : share[d] = q + IF d - start < rest THEN 1 ELSE 0
  BY DEF ShareOfDay
<1>3. IsFiniteSet(start .. end) /\ Cardinality(start .. end) = days
  BY FS_Interval
<1> HIDE DEF days
<1>4. amount = days * q + rest /\ q \in Nat /\ rest \in Nat /\ rest < days
  <2>1. amount = days * q + rest /\ q \in Int /\ rest \in Nat /\ rest < days
    BY <1>1
  <2>2. q \in Nat
    BY <1>1, DivideDown
  <2> QED BY <2>1, <2>2
<1> HIDE DEF q, rest
<1>5. T \in SUBSET (start .. end) /\ Cardinality(T) = rest
  <2>1. start + rest - 1 \in Int /\ start + rest - 1 <= end
    BY <1>4 DEF days
  <2>2. Cardinality(T) = IF start > start + rest - 1 THEN 0 ELSE (start + rest - 1) - start + 1
    BY <2>1, FS_Interval
  <2> QED BY <1>4, <2>1, <2>2
<1>6. \A d \in start .. end : odd[d] = IF d \in T THEN 1 ELSE 0
  BY <1>4
<1>7. \A d \in start .. end : even[d] = q /\ even[d] \in Nat /\ odd[d] \in Nat /\ share[d] = even[d] + odd[d]
  BY <1>2, <1>4
<1> HIDE DEF even, odd, T
<1>8. SumFunctionOnSet(even, start .. end) = days * q
  BY <1>3, <1>4, <1>7, SumOfConstant
<1>9. SumFunctionOnSet(odd, start .. end) = rest
  BY <1>3, <1>5, <1>6, SumOfMarked
<1>10. SumFunctionOnSet(share, start .. end)
         = SumFunctionOnSet(even, start .. end) + SumFunctionOnSet(odd, start .. end)
  BY <1>3, <1>7, SumOfBoth
<1> QED BY <1>4, <1>7, <1>8, <1>9, <1>10

(* A ledger's reserve is what its days still hold and its slots earned.    *)
Balanced(r) ==
  r.reserve = SumFunctionOnSet(r.schedule, ScheduleSlots) + SumFunctionOnSet(r.accrued, SensorSlots)

LEMMA SlotsFinite == IsFiniteSet(ScheduleSlots) /\ IsFiniteSet(SensorSlots)
BY FS_Interval, PoliciesAssumption, SensorSlotsAssumption DEF ScheduleSlots

LEMMA LedgerFields ==
  ASSUME NEW r \in Ledgers
  PROVE  /\ r.next \in Nat /\ r.reserve \in Nat
         /\ \A s \in ScheduleSlots : r.schedule[s] \in Nat
         /\ \A s \in SensorSlots : r.accrued[s] \in Nat
         /\ DOMAIN r.schedule = ScheduleSlots /\ DOMAIN r.accrued = SensorSlots
         /\ SumFunctionOnSet(r.schedule, ScheduleSlots) \in Nat
         /\ SumFunctionOnSet(r.accrued, SensorSlots) \in Nat
<1>1. /\ r.next \in Nat /\ r.reserve \in Nat
      /\ \A s \in ScheduleSlots : r.schedule[s] \in Nat
      /\ \A s \in SensorSlots : r.accrued[s] \in Nat
      /\ DOMAIN r.schedule = ScheduleSlots /\ DOMAIN r.accrued = SensorSlots
  BY PoliciesAssumption DEF Ledgers, Money
<1> QED BY <1>1, SlotsFinite, SumType

(* schedule_window: each day of the window gets its part, the ring as a    *)
(* whole the share, and the reserve with it.                               *)
LEMMA ScheduleWindowLays ==
  ASSUME NEW r \in Ledgers, NEW amount \in Nat, NEW start \in Nat, NEW end \in Nat,
         CanSchedule(r, start, end), NEW w, w = ScheduleWindow(r, amount, start, end)
  PROVE  /\ w.next = r.next /\ w.opened = r.opened /\ w.accrued = r.accrued
         /\ w.reserve = r.reserve + amount
         /\ SumFunctionOnSet(w.schedule, ScheduleSlots)
              = SumFunctionOnSet(r.schedule, ScheduleSlots) + amount
         /\ \A d \in Nat : d >= r.next =>
              BudgetOf(w, d) = BudgetOf(r, d)
                + IF d \in start .. end THEN ShareOfDay(amount, start, end, d) ELSE 0
<1> USE PoliciesAssumption
<1> DEFINE schedule == [s \in ScheduleSlots |->
                         r.schedule[s] + IF DayInSlot(r, s) \in start .. end
                                         THEN ShareOfDay(amount, start, end, DayInSlot(r, s)) ELSE 0]
           share == [d \in start .. end |-> ShareOfDay(amount, start, end, d)]
           T     == {s \in ScheduleSlots : DayInSlot(r, s) \in start .. end}
           name  == [s \in T |-> DayInSlot(r, s)]
           part  == [s \in T |-> share[DayInSlot(r, s)]]
           laid  == [s \in ScheduleSlots |-> IF s \in T THEN part[s] ELSE 0]
<1>1. w = [r EXCEPT !.schedule = schedule, !.reserve = @ + amount]
  BY DEF ScheduleWindow
<1>2. /\ w.next = r.next /\ w.opened = r.opened /\ w.accrued = r.accrued
      /\ w.reserve = r.reserve + amount /\ w.schedule = schedule
  <2> HIDE DEF schedule
  <2> QED BY <1>1 DEF Ledgers
<1>3. /\ r.next <= start /\ start <= end /\ end < r.next + ScheduleLen /\ r.next \in Nat
  BY LedgerFields DEF CanSchedule
<1>4. SumFunctionOnSet(share, start .. end) = amount /\ \A d \in start .. end : share[d] \in Nat
  <2>1. \A d \in start .. end : share[d] = ShareOfDay(amount, start, end, d)
    OBVIOUS
  <2> HIDE DEF share
  <2> QED BY <1>3, <2>1, SharesAddUp
<1>5. \A x, y \in T : name[x] = name[y] => x = y
  <2>1. \A s \in T : ScheduleSlot(DayInSlot(r, s)) = s
    BY <1>3, DayOfSlot
  <2> QED BY <2>1
<1>6. {name[s] : s \in T} = start .. end
  <2>1. ASSUME NEW d \in start .. end PROVE \E s \in T : name[s] = d
    <3>1. d \in Nat /\ r.next <= d /\ d < r.next + ScheduleLen
      BY <1>3
    <3>2. ScheduleSlot(d) \in ScheduleSlots /\ DayInSlot(r, ScheduleSlot(d)) = d
      BY <1>3, <3>1, SlotOfDay
    <3> QED BY <3>2
  <2> QED BY <2>1
<1>7. \A s \in T : part[s] \in Nat /\ share[name[s]] = part[s]
  BY <1>4
<1>8. \A s \in ScheduleSlots : schedule[s] = r.schedule[s] + laid[s]
  OBVIOUS
<1>9. IsFiniteSet(T) /\ T \in SUBSET ScheduleSlots
  BY SlotsFinite, FS_Subset
<1>10. \A s \in ScheduleSlots : laid[s] = IF s \in T THEN part[s] ELSE 0
  OBVIOUS
<1>11. \A d \in Nat : d >= r.next =>
         BudgetOf(w, d) = BudgetOf(r, d)
           + IF d \in start .. end THEN ShareOfDay(amount, start, end, d) ELSE 0
  <2> SUFFICES ASSUME NEW d \in Nat, d >= r.next
               PROVE  BudgetOf(w, d) = BudgetOf(r, d)
                        + IF d \in start .. end THEN ShareOfDay(amount, start, end, d) ELSE 0
    OBVIOUS
  <2>1. CASE d < r.next + ScheduleLen
    <3>1. ScheduleSlot(d) \in ScheduleSlots /\ DayInSlot(r, ScheduleSlot(d)) = d
      BY <1>3, <2>1, SlotOfDay
    <3>2. BudgetOf(w, d) = schedule[ScheduleSlot(d)] /\ BudgetOf(r, d) = r.schedule[ScheduleSlot(d)]
      BY <1>2, <2>1 DEF BudgetOf
    <3> QED BY <3>1, <3>2
  <2>2. CASE ~(d < r.next + ScheduleLen)
    <3>1. BudgetOf(w, d) = 0 /\ BudgetOf(r, d) = 0
      BY <1>2, <2>2 DEF BudgetOf
    <3>2. d \notin start .. end
      BY <1>3, <2>2
    <3> QED BY <3>1, <3>2
  <2> QED BY <2>1, <2>2
<1> HIDE DEF schedule, share, T, name, part, laid
<1>12. SumFunctionOnSet(part, T) = amount
  <2>1. SumFunctionOnSet(share, {name[s] : s \in T}) = SumFunctionOnSet(part, T)
    BY <1>5, <1>7, <1>9, SumRenamed
  <2> QED BY <1>4, <1>6, <2>1
<1>13. SumFunctionOnSet(laid, ScheduleSlots) = SumFunctionOnSet(part, T)
  BY <1>7, <1>9, <1>10, SlotsFinite, SumOfSelected
<1>14. SumFunctionOnSet(schedule, ScheduleSlots)
         = SumFunctionOnSet(r.schedule, ScheduleSlots) + SumFunctionOnSet(laid, ScheduleSlots)
  <2>1. \A s \in ScheduleSlots : r.schedule[s] \in Nat /\ laid[s] \in Nat
    BY <1>7, <1>10, LedgerFields
  <2> QED BY <1>8, <2>1, SlotsFinite, SumOfBoth
<1> QED BY <1>2, <1>11, <1>12, <1>13, <1>14

-----------------------------------------------------------------------------
(***************************************************************************)
(* Paying a day: what leaves the schedule is earned or returned.           *)
(***************************************************************************)

(* What a slot earns of a day is a natural amount.                         *)
LEMMA EarnedFits ==
  ASSUME NEW budget \in Nat, NEW weights \in [SensorSlots -> Weights]
  PROVE  /\ EarnedOf(budget, weights) \in [SensorSlots -> Nat]
         /\ SumFunction(EarnedOf(budget, weights)) = SumFunctionOnSet(EarnedOf(budget, weights), SensorSlots)
         /\ SumFunctionOnSet(EarnedOf(budget, weights), SensorSlots) \in Nat
<1>1. \A s \in SensorSlots : weights[s] \in Nat
  BY PoliciesAssumption
<1>2. SumFunction(weights) \in Nat
  <2>1. SumFunctionOnSet(weights, SensorSlots) \in Nat
    BY <1>1, SlotsFinite, SumType
  <2> QED BY <2>1 DEF SumFunction
<1>3. ASSUME NEW s \in SensorSlots
      PROVE  (IF SumFunction(weights) = 0 THEN 0 ELSE (budget * weights[s]) \div SumFunction(weights)) \in Nat
  <2>1. budget * weights[s] \in Nat
    BY <1>1
  <2> HIDE DEF SumFunction
  <2>2. CASE SumFunction(weights) # 0
    BY <1>2, <2>1, <2>2, DivideDown
  <2>3. CASE SumFunction(weights) = 0
    BY <2>3
  <2> QED BY <2>2, <2>3
<1>4. EarnedOf(budget, weights) \in [SensorSlots -> Nat]
  BY <1>3 DEF EarnedOf, SumFunction
<1>5. SumFunction(EarnedOf(budget, weights)) = SumFunctionOnSet(EarnedOf(budget, weights), SensorSlots)
  BY <1>4 DEF SumFunction
<1> QED BY <1>4, <1>5, SlotsFinite, SumType

(* The days skipped, and the day paid, have left the horizon together.     *)
LEMMA SlotsPaid ==
  ASSUME NEW r \in Ledgers, NEW day \in Nat, day >= r.next
  PROVE  LET gone == SkippedSlots(r, day) \cup {ScheduleSlot(day)} IN
         /\ gone \subseteq ScheduleSlots
         /\ SumFunctionOnSet(r.schedule, gone)
              = SumFunctionOnSet(r.schedule, SkippedSlots(r, day)) + BudgetOf(r, day)
         /\ \A d \in Nat : d > day /\ d < r.next + ScheduleLen => ScheduleSlot(d) \notin gone
         /\ \A d \in Nat : d >= r.next + ScheduleLen /\ d <= day + ScheduleLen => ScheduleSlot(d) \in gone
<1> USE PoliciesAssumption
<1> DEFINE skipped == SkippedSlots(r, day)
           gone    == skipped \cup {ScheduleSlot(day)}
<1>0. r.next \in Nat /\ ScheduleLen \in Nat \ {0} /\ \A s \in ScheduleSlots : r.schedule[s] \in Nat
  BY LedgerFields
<1>1. ASSUME NEW d \in Nat PROVE ScheduleSlot(d) \in ScheduleSlots
  BY <1>0, <1>1 DEF ScheduleSlot, ScheduleSlots
<1>2. CASE day - r.next >= ScheduleLen
  <2>1. skipped = ScheduleSlots /\ BudgetOf(r, day) = 0
    BY <1>0, <1>2 DEF SkippedSlots, BudgetOf
  <2>2. gone = ScheduleSlots
    BY <1>1, <2>1
  <2>3. SumFunctionOnSet(r.schedule, ScheduleSlots) \in Nat
    BY LedgerFields
  <2>4. \A d \in Nat : d > day => ~(d < r.next + ScheduleLen)
    BY <1>0, <1>2
  <2> HIDE DEF skipped, gone
  <2>5. SumFunctionOnSet(r.schedule, gone) = SumFunctionOnSet(r.schedule, skipped) + BudgetOf(r, day)
    BY <2>1, <2>2, <2>3
  <2>6. \A d \in Nat : ScheduleSlot(d) \in gone
    BY <1>1, <2>2
  <2> QED BY <2>2, <2>4, <2>5, <2>6 DEF skipped, gone
<1>3. CASE ~(day - r.next >= ScheduleLen)
  <2>1. skipped = {ScheduleSlot(d) : d \in r.next .. day - 1}
    BY <1>3 DEF SkippedSlots
  <2>2. BudgetOf(r, day) = r.schedule[ScheduleSlot(day)]
    BY <1>0, <1>3 DEF BudgetOf
  <2>3. gone \subseteq ScheduleSlots
    BY <1>0, <1>1, <2>1
  <2>4. ScheduleSlot(day) \notin skipped
    <3>1. ASSUME NEW d \in r.next .. day - 1 PROVE ScheduleSlot(d) # ScheduleSlot(day)
      BY <1>0, <1>3, DaysApart
    <3> QED BY <2>1, <3>1
  <2>5. ASSUME NEW d \in Nat, d > day, d < r.next + ScheduleLen PROVE ScheduleSlot(d) \notin gone
    <3>1. ASSUME NEW e \in r.next .. day PROVE ScheduleSlot(e) # ScheduleSlot(d)
      BY <1>0, <2>5, DaysApart
    <3> QED BY <1>0, <2>1, <3>1
  <2>6. ASSUME NEW d \in Nat, d >= r.next + ScheduleLen, d <= day + ScheduleLen
        PROVE  ScheduleSlot(d) \in gone
    <3>1. d - ScheduleLen \in Nat /\ d - ScheduleLen \in r.next .. day
      BY <1>0, <2>6
    <3>2. ScheduleSlot((d - ScheduleLen) + ScheduleLen) = ScheduleSlot(d - ScheduleLen)
      BY <3>1, LapsMeet
    <3>3. (d - ScheduleLen) + ScheduleLen = d
      BY <1>0
    <3>4. d - ScheduleLen = day \/ d - ScheduleLen \in r.next .. day - 1
      BY <1>0, <3>1
    <3> QED BY <2>1, <3>2, <3>3, <3>4
  <2> HIDE DEF skipped
  <2>7. IsFiniteSet(skipped) /\ \A s \in skipped \cup {ScheduleSlot(day)} : r.schedule[s] \in Nat
    BY <1>0, <2>3, SlotsFinite, FS_Subset
  <2>8. SumFunctionOnSet(r.schedule, skipped) \in Nat
    BY <2>7, SumType
  <2>9. SumFunctionOnSet(r.schedule, gone) = SumFunctionOnSet(r.schedule, skipped) + BudgetOf(r, day)
    <3>1. SumFunctionOnSet(r.schedule, gone)
            = r.schedule[ScheduleSlot(day)] + SumFunctionOnSet(r.schedule, skipped)
      BY <2>4, <2>7, SumOfOneMore
    <3>2. r.schedule[ScheduleSlot(day)] \in Nat
      BY <2>7
    <3> QED BY <2>2, <2>8, <3>1, <3>2
  <2> QED BY <2>3, <2>5, <2>6, <2>9 DEF skipped
<1> QED BY <1>2, <1>3

(* pay_cell_day: the reserve falls by what is returned to capital, which   *)
(* is what the days hold no longer and nobody earned; the days to come     *)
(* keep their budgets, and a day that enters the horizon has none.         *)
LEMMA PayDayMoves ==
  ASSUME NEW r \in Ledgers, NEW day \in Nat, day >= r.next, NEW weights \in [SensorSlots -> Weights],
         NEW paid, paid = PayDay(r, day, weights), NEW back, back = ReturnedBy(r, day, weights)
  PROVE  /\ paid.next = day + 1 /\ paid.opened = r.opened /\ paid.reserve = r.reserve - back
         /\ back \in Int
         /\ SumFunctionOnSet(paid.schedule, ScheduleSlots) + SumFunctionOnSet(paid.accrued, SensorSlots)
              = SumFunctionOnSet(r.schedule, ScheduleSlots) + SumFunctionOnSet(r.accrued, SensorSlots) - back
         /\ \A d \in Nat : d > day => BudgetOf(paid, d) = BudgetOf(r, d)
<1> USE PoliciesAssumption
<1> DEFINE budget   == BudgetOf(r, day)
           earned   == EarnedOf(budget, weights)
           skipped  == SkippedSlots(r, day)
           gone     == skipped \cup {ScheduleSlot(day)}
           schedule == [s \in ScheduleSlots |-> IF s \in gone THEN 0 ELSE r.schedule[s]]
           accrued  == [s \in SensorSlots |-> r.accrued[s] + earned[s]]
           left     == ScheduleSlots \ gone
<1>1. /\ r.next \in Nat /\ r.reserve \in Nat
      /\ \A s \in ScheduleSlots : r.schedule[s] \in Nat
      /\ \A s \in SensorSlots : r.accrued[s] \in Nat
      /\ SumFunctionOnSet(r.schedule, ScheduleSlots) \in Nat
      /\ SumFunctionOnSet(r.accrued, SensorSlots) \in Nat
  BY LedgerFields
<1>2. budget \in Nat
  <2>1. ScheduleSlot(day) \in ScheduleSlots
    BY DEF ScheduleSlot, ScheduleSlots
  <2> QED BY <1>1, <2>1 DEF BudgetOf
<1>3. /\ paid.next = day + 1 /\ paid.opened = r.opened /\ paid.reserve = r.reserve - back
      /\ paid.schedule = schedule /\ paid.accrued = accrued
  <2>1. paid = [r EXCEPT !.schedule = schedule, !.accrued = accrued, !.reserve = @ - back, !.next = day + 1]
    BY DEF PayDay
  <2> HIDE DEF schedule, accrued
  <2> QED BY <2>1 DEF Ledgers
<1>4. /\ gone \subseteq ScheduleSlots
      /\ SumFunctionOnSet(r.schedule, gone) = SumFunctionOnSet(r.schedule, skipped) + budget
      /\ \A d \in Nat : d > day /\ d < r.next + ScheduleLen => ScheduleSlot(d) \notin gone
      /\ \A d \in Nat : d >= r.next + ScheduleLen /\ d <= day + ScheduleLen => ScheduleSlot(d) \in gone
  BY SlotsPaid
<1>5. /\ \A s \in SensorSlots : earned[s] \in Nat
      /\ SumFunction(earned) = SumFunctionOnSet(earned, SensorSlots)
      /\ SumFunctionOnSet(earned, SensorSlots) \in Nat
  <2> HIDE DEF budget
  <2> QED BY <1>2, EarnedFits
<1>6. back = SumFunctionOnSet(r.schedule, skipped) + (budget - SumFunctionOnSet(earned, SensorSlots))
  BY <1>5 DEF ReturnedBy
<1>7. \A d \in Nat : d > day => BudgetOf(paid, d) = BudgetOf(r, d)
  <2> SUFFICES ASSUME NEW d \in Nat, d > day PROVE BudgetOf(paid, d) = BudgetOf(r, d)
    OBVIOUS
  <2> HIDE DEF gone
  <2>1. ScheduleSlot(d) \in ScheduleSlots
    BY DEF ScheduleSlot, ScheduleSlots
  <2>2. CASE d < r.next + ScheduleLen
    <3>1. BudgetOf(r, d) = r.schedule[ScheduleSlot(d)]
      BY <1>1, <2>2 DEF BudgetOf
    <3>2. BudgetOf(paid, d) = schedule[ScheduleSlot(d)]
      BY <1>1, <1>3, <2>2 DEF BudgetOf
    <3> QED BY <1>4, <2>1, <2>2, <3>1, <3>2
  <2>3. CASE d >= r.next + ScheduleLen /\ d <= day + ScheduleLen
    <3>1. BudgetOf(r, d) = 0
      BY <1>1, <2>3 DEF BudgetOf
    <3>2. BudgetOf(paid, d) = schedule[ScheduleSlot(d)]
      BY <1>1, <1>3, <2>3 DEF BudgetOf
    <3> QED BY <1>4, <2>1, <2>3, <3>1, <3>2
  <2>4. CASE d > day + ScheduleLen
    <3>1. BudgetOf(r, d) = 0 /\ BudgetOf(paid, d) = 0
      BY <1>1, <1>3, <2>4 DEF BudgetOf
    <3> QED BY <3>1
  <2> QED BY <1>1, <2>2, <2>3, <2>4
<1>8. /\ \A s \in ScheduleSlots : schedule[s] \in Nat
      /\ \A s \in gone : schedule[s] = 0
      /\ \A s \in left : schedule[s] = r.schedule[s]
      /\ \A s \in SensorSlots : accrued[s] = r.accrued[s] + earned[s]
  BY <1>1, <1>4
<1>9. left = ScheduleSlots \ gone /\ gone \in SUBSET ScheduleSlots
  BY <1>4
<1> HIDE DEF budget, earned, skipped, gone, schedule, accrued, left
<1>10. IsFiniteSet(gone) /\ IsFiniteSet(left) /\ left \subseteq ScheduleSlots
  BY <1>9, SlotsFinite, FS_Subset
<1>11. SumFunctionOnSet(r.schedule, ScheduleSlots)
         = SumFunctionOnSet(r.schedule, gone) + SumFunctionOnSet(r.schedule, left)
  BY <1>1, <1>9, SlotsFinite, SumOfParts
<1>12. SumFunctionOnSet(schedule, ScheduleSlots)
         = SumFunctionOnSet(schedule, gone) + SumFunctionOnSet(schedule, left)
  BY <1>8, <1>9, SlotsFinite, SumOfParts
<1>13. SumFunctionOnSet(schedule, gone) = 0
  BY <1>8, <1>10, SumOfNothing
<1>14. SumFunctionOnSet(schedule, left) = SumFunctionOnSet(r.schedule, left)
  BY <1>1, <1>8, <1>10, SumOfTheSame
<1>15. SumFunctionOnSet(accrued, SensorSlots)
         = SumFunctionOnSet(r.accrued, SensorSlots) + SumFunctionOnSet(earned, SensorSlots)
  BY <1>1, <1>5, <1>8, SlotsFinite, SumOfBoth
<1>16. /\ SumFunctionOnSet(r.schedule, left) \in Nat
       /\ SumFunctionOnSet(r.schedule, gone) \in Nat
  BY <1>1, <1>9, <1>10, SumType
<1>17. SumFunctionOnSet(r.schedule, skipped) \in Int
  <2>1. IsFiniteSet(skipped) /\ skipped \subseteq ScheduleSlots
    BY <1>9, SlotsFinite, FS_Subset DEF gone
  <2> QED BY <1>1, <2>1, SumType
<1>18. back \in Int
  BY <1>2, <1>5, <1>6, <1>17
<1>19. SumFunctionOnSet(schedule, ScheduleSlots) + SumFunctionOnSet(accrued, SensorSlots)
         = SumFunctionOnSet(r.schedule, ScheduleSlots) + SumFunctionOnSet(r.accrued, SensorSlots) - back
  BY <1>1, <1>2, <1>4, <1>5, <1>6, <1>11, <1>12, <1>13, <1>14, <1>15, <1>16, <1>17
<1> QED BY <1>3, <1>7, <1>18, <1>19

-----------------------------------------------------------------------------
(***************************************************************************)
(* The books.                                                              *)
(***************************************************************************)

(* What a policy's share of the rewards laid on a day of a cell.           *)
Laid(policy, c, d) ==
  IF policy # NoPolicy /\ policy.cell = c /\ d \in policy.start .. policy.end
    THEN ShareOfDay(RewardShare(policy.premium), policy.start, policy.end, d)
    ELSE 0

Cover(c, d) == SumFunctionOnSet([p \in PolicyIds |-> Laid(policies[p], c, d)], PolicyIds)

Reserves == SumFunctionOnSet([c \in CellIds |-> rewards[c].reserve], CellIds)

(* A ledger is balanced; one not yet opened holds nothing; and the budget  *)
(* of every day to come, however far, is the cover of that day. The days   *)
(* beyond the horizon matter: each enters it later, and must enter empty.  *)
LedgerFollows(r, cover) ==
  /\ Balanced(r)
  /\ ~r.opened => r.next = 0 /\ r.reserve = 0 /\ \A s \in ScheduleSlots : r.schedule[s] = 0
  /\ \A d \in Nat : d >= r.next => BudgetOf(r, d) = cover[d]

CoverOf(c) == [d \in Nat |-> Cover(c, d)]

LedgersFollow == \A c \in CellIds : LedgerFollows(rewards[c], CoverOf(c))

VaultIsBooked == vault = pool.capital + Reserves

BooksInv == Inv /\ ReservedIsDebt /\ LedgersFollow /\ VaultIsBooked

(* Cover is a natural amount, per policy and day.                          *)
LEMMA LaidFits ==
  ASSUME NEW policy \in PolicyRecords \cup {NoPolicy}, NEW c, NEW d \in Nat
  PROVE  Laid(policy, c, d) \in Nat
<1>1. CASE policy # NoPolicy /\ policy.cell = c /\ d \in policy.start .. policy.end
  <2> DEFINE start  == policy.start
             end    == policy.end
             amount == RewardShare(policy.premium)
             share  == [e \in start .. end |-> ShareOfDay(amount, start, end, e)]
  <2>1. start \in Nat /\ end \in Nat /\ policy.premium \in Nat
    BY <1>1 DEF PolicyRecords
  <2>2. amount \in Nat
    BY <2>1, RewardShareFits
  <2>3. start <= end /\ d \in start .. end
    BY <1>1, <2>1
  <2>4. \A e \in start .. end : share[e] = ShareOfDay(amount, start, end, e)
    OBVIOUS
  <2>5. Laid(policy, c, d) = share[d]
    BY <1>1 DEF Laid
  <2> HIDE DEF start, end, amount, share
  <2>6. \A e \in start .. end : share[e] \in Nat
    BY <2>1, <2>2, <2>3, <2>4, SharesAddUp
  <2> QED BY <2>3, <2>5, <2>6
<1>2. CASE ~(policy # NoPolicy /\ policy.cell = c /\ d \in policy.start .. policy.end)
  BY <1>2 DEF Laid
<1> QED BY <1>1, <1>2

(* A decision on a policy leaves its cover as it was sold.                 *)
Decided ==
  \/ policies' = policies
  \/ \E p \in PolicyIds, state \in PolicyStates :
       IsOpen(p) /\ policies' = [policies EXCEPT ![p].state = state]

LEMMA CoverKept ==
  ASSUME TypeOK, Decided, NEW c \in CellIds
  PROVE  CoverOf(c)' = CoverOf(c)
<1>1. ASSUME NEW p \in PolicyIds, NEW d PROVE Laid(policies'[p], c, d) = Laid(policies[p], c, d)
  <2>1. CASE policies' = policies
    BY <2>1 DEF Laid
  <2>2. ASSUME NEW q \in PolicyIds, NEW state \in PolicyStates, IsOpen(q),
               policies' = [policies EXCEPT ![q].state = state]
        PROVE  Laid(policies'[p], c, d) = Laid(policies[p], c, d)
    <3>1. policies[q] \in PolicyRecords
      BY <2>2 DEF TypeOK, IsOpen, NoPolicy
    <3>2. CASE p = q
      <4>1. /\ policies'[p].cell = policies[p].cell /\ policies'[p].premium = policies[p].premium
            /\ policies'[p].start = policies[p].start /\ policies'[p].end = policies[p].end
            /\ policies'[p] \in PolicyRecords /\ policies[p] \in PolicyRecords
        BY <2>2, <3>1, <3>2 DEF TypeOK, PolicyRecords
      <4>2. policies'[p] # NoPolicy /\ policies[p] # NoPolicy
        BY <4>1 DEF PolicyRecords, NoPolicy, PolicyStates
      <4> QED BY <4>1, <4>2 DEF Laid
    <3>3. CASE p # q
      <4>1. policies'[p] = policies[p]
        BY <2>2, <3>3 DEF TypeOK
      <4> QED BY <4>1 DEF Laid
    <3> QED BY <3>2, <3>3
  <2> QED BY <2>1, <2>2 DEF Decided
<1>2. \A d \in Nat : Cover(c, d)' = Cover(c, d)
  BY <1>1 DEF Cover
<1> QED BY <1>2 DEF CoverOf

(* Every step keeps the ledgers and moves the vault with the capital, but  *)
(* for the four that move a ledger.                                        *)
LEMMA BookSteps ==
  ASSUME TypeOK, [Next]_vars
  PROVE  \/ rewards' = rewards /\ vault' - pool'.capital = vault - pool.capital /\ Decided
         \/ \E c \in CellIds, weights \in [SensorSlots -> Weights] : SubmitDayReputation(c, weights)
         \/ \E p \in PolicyIds, c \in CellIds, terms \in Terms : IssuePolicy(p, c, terms)
         \/ \E c \in CellIds, slot \in SensorSlots : ClaimReward(c, slot)
         \/ \E places \in SensorPlaces, burnt \in Burns : ExcludeSensor(places, burnt)
<1> DEFINE Kept == rewards' = rewards /\ vault' - pool'.capital = vault - pool.capital /\ Decided
<1>0. vault \in Nat /\ pool \in Pools /\ pool.capital \in Nat
  BY PoliciesAssumption DEF TypeOK, Pools, Money
<1>1. ASSUME NEW d \in Depositors, NEW amount \in Deposits, DepositCapital(d, amount) PROVE Kept
  <2>1. /\ pool' = [pool EXCEPT !.capital = @ + amount, !.shares = @ + SharesForDeposit(amount)]
        /\ vault' = vault + amount /\ rewards' = rewards /\ policies' = policies
    BY <1>1 DEF DepositCapital
  <2>2. pool'.capital = pool.capital + amount
    BY <1>0, <2>1 DEF Pools
  <2>3. amount \in Nat
    BY PoliciesAssumption
  <2> QED BY <1>0, <2>1, <2>2, <2>3 DEF Decided
<1>2. ASSUME rewards' = rewards, vault' = vault, pool'.capital = pool.capital, policies' = policies
      PROVE  Kept
  BY <1>2 DEF Decided
<1>3. ASSUME NEW risk \in RiskChoices, SetPoolParams(risk) PROVE Kept
  <2>1. pool'.capital = pool.capital
    BY <1>0, <1>3 DEF SetPoolParams, Pools
  <2> QED BY <1>2, <1>3, <2>1 DEF SetPoolParams
<1>4. ASSUME NEW c \in CellIds, NEW day \in Days, NEW state \in DayStates,
             NEW voters \in SUBSET SensorSlots, SubmitDayRecord(c, day, state, voters)
      PROVE  Kept
  BY <1>2, <1>4 DEF SubmitDayRecord
<1>5. ASSUME NEW c \in CellIds, OpenInvestigation(c) \/ CloseInvestigation(c) PROVE Kept
  BY <1>2, <1>5 DEF OpenInvestigation, CloseInvestigation
<1>6. ASSUME NEW p \in PolicyIds, IsOpen(p), ReleasePayout(p) PROVE Kept
  <2>1. policies[p].payout \in Nat
    BY <1>6 DEF TypeOK, PolicyRecords, NoPolicy, IsOpen
  <2>2. vault' = vault - policies[p].payout /\ pool'.capital = pool.capital - policies[p].payout
    BY <1>0, <1>6 DEF ReleasePayout, Pools
  <2>3. rewards' = rewards /\ policies' = [policies EXCEPT ![p].state = "PaidOut"]
    BY <1>6 DEF ReleasePayout
  <2>4. Decided
    BY <1>6, <2>3 DEF Decided, PolicyStates
  <2>5. vault' - pool'.capital = vault - pool.capital
    BY <1>0, <2>1, <2>2
  <2> QED BY <2>3, <2>4, <2>5
<1>7. ASSUME NEW p \in PolicyIds, NEW account \in Accounts,
             SettlePolicy(p, account) \/ ClaimUnclaimedPayout(p, account)
      PROVE  Kept
  BY <1>6, <1>7 DEF SettlePolicy, ClaimUnclaimedPayout, IsOpen
<1>8. ASSUME NEW p \in PolicyIds, NEW account \in Accounts, LeaveUnclaimed(p, account) PROVE Kept
  BY <1>0, <1>8 DEF LeaveUnclaimed, Decided, PolicyStates, IsOpen
<1>9. ASSUME NEW p \in PolicyIds, ClosePolicy(p) PROVE Kept
  <2>1. pool'.capital = pool.capital
    BY <1>0, <1>9 DEF ClosePolicy, Pools
  <2> QED BY <1>0, <1>9, <2>1 DEF ClosePolicy, Decided, PolicyStates, IsOpen
<1>10. ASSUME WorldStep PROVE Kept
  BY <1>2, <1>10 DEF WorldStep, Tick, Freeze, Thaw, chain
<1>11. ASSUME UNCHANGED vars PROVE Kept
  BY <1>2, <1>11 DEF vars, chain
<1> HIDE DEF Kept
<1>12. CASE Kept
  BY <1>12 DEF Kept
<1>13. CASE PoolStep
  BY <1>1, <1>3, <1>12, <1>13 DEF PoolStep
<1>14. CASE CellStep
  BY <1>4, <1>5, <1>12, <1>14 DEF CellStep
<1>15. CASE PolicyStep
  BY <1>7, <1>8, <1>9, <1>12, <1>15 DEF PolicyStep
<1>16. CASE SensorStep
  BY <1>16 DEF SensorStep
<1> QED BY <1>10, <1>11, <1>12, <1>13, <1>14, <1>15, <1>16 DEF Next

(* What an amount kept for one cell moves, the reserves move.              *)
LEMMA ReservesMove ==
  ASSUME TypeOK, NEW c \in CellIds, NEW r \in Ledgers, rewards' = [rewards EXCEPT ![c] = r]
  PROVE  /\ Reserves' = Reserves - rewards[c].reserve + r.reserve
         /\ Reserves \in Nat
         /\ rewards'[c] = r /\ \A k \in CellIds \ {c} : rewards'[k] = rewards[k]
<1> DEFINE f == [k \in CellIds |-> rewards[k].reserve]
           g == [k \in CellIds |-> rewards'[k].reserve]
<1>1. rewards'[c] = r /\ \A k \in CellIds \ {c} : rewards'[k] = rewards[k]
  BY DEF TypeOK
<1>2. \A k \in CellIds : rewards[k] \in Ledgers /\ rewards'[k] \in Ledgers
  BY <1>1 DEF TypeOK
<1>3. \A k \in CellIds : f[k] \in Nat /\ g[k] \in Nat
  BY <1>2, LedgerFields
<1>4. f[c] = rewards[c].reserve /\ g[c] = r.reserve
  BY <1>1
<1>8. \A k \in CellIds \ {c} : g[k] = f[k]
  BY <1>1
<1>5. Reserves = SumFunctionOnSet(f, CellIds) /\ Reserves' = SumFunctionOnSet(g, CellIds)
  BY DEF Reserves
<1> HIDE DEF f, g
<1>6. SumFunctionOnSet(g, CellIds) = SumFunctionOnSet(f, CellIds) - f[c] + g[c]
  BY <1>3, <1>8, SumChanges, AccountsAssumption
<1>7. SumFunctionOnSet(f, CellIds) \in Nat
  BY <1>3, SumType, AccountsAssumption
<1> QED BY <1>1, <1>4, <1>5, <1>6, <1>7

(* A ledger opened on a day follows the cover as the closed one did.       *)
LEMMA OpenedFollows ==
  ASSUME NEW r \in Ledgers, NEW cover, LedgerFollows(r, cover), ~r.opened, NEW day \in Nat
  PROVE  /\ OpenLedger(day) \in Ledgers
         /\ OpenLedger(day).next = day /\ OpenLedger(day).opened
         /\ OpenLedger(day).reserve = r.reserve
         /\ LedgerFollows(OpenLedger(day), cover)
<1> USE PoliciesAssumption
<1> DEFINE o == OpenLedger(day)
<1>1. /\ o \in Ledgers /\ o.next = day /\ o.opened = TRUE /\ o.reserve = 0
      /\ \A s \in ScheduleSlots : o.schedule[s] = 0
      /\ \A s \in SensorSlots : o.accrued[s] = 0
  <2> DEFINE unearned  == [s \in SensorSlots |-> 0]
             unplanned == [s \in ScheduleSlots |-> 0]
  <2>1. ClosedLedger
          = [opened |-> FALSE, next |-> 0, reserve |-> 0, accrued |-> unearned, schedule |-> unplanned]
    BY DEF ClosedLedger
  <2>2. /\ unearned \in [SensorSlots -> Money] /\ unplanned \in [ScheduleSlots -> Money] /\ 0 \in Money
        /\ \A s \in SensorSlots : unearned[s] = 0
        /\ \A s \in ScheduleSlots : unplanned[s] = 0
    BY DEF Money
  <2> HIDE DEF unearned, unplanned
  <2>3. /\ ClosedLedger \in Ledgers /\ ClosedLedger.reserve = 0
        /\ ClosedLedger.accrued = unearned /\ ClosedLedger.schedule = unplanned
    BY <2>1, <2>2 DEF Ledgers
  <2>4. /\ o \in Ledgers /\ o.next = day /\ o.opened = TRUE /\ o.reserve = 0
        /\ o.accrued = unearned /\ o.schedule = unplanned
    BY <2>3 DEF OpenLedger, Ledgers
  <2> HIDE DEF o
  <2> QED BY <2>2, <2>4
<1> HIDE DEF o
<1>2. SumFunctionOnSet(o.schedule, ScheduleSlots) = 0 /\ SumFunctionOnSet(o.accrued, SensorSlots) = 0
  BY <1>1, SlotsFinite, SumOfNothing
<1>3. \A d \in Nat : ScheduleSlot(d) \in ScheduleSlots
  BY DEF ScheduleSlot, ScheduleSlots
<1>4. ASSUME NEW d \in Nat, d >= o.next PROVE BudgetOf(o, d) = cover[d]
  <2>1. BudgetOf(o, d) = 0
    BY <1>1, <1>3 DEF BudgetOf
  <2>2. r.next = 0 /\ \A s \in ScheduleSlots : r.schedule[s] = 0
    BY DEF LedgerFollows
  <2>3. BudgetOf(r, d) = 0
    BY <1>3, <2>2 DEF BudgetOf
  <2>4. BudgetOf(r, d) = cover[d]
    BY <2>2 DEF LedgerFollows
  <2> QED BY <2>1, <2>3, <2>4
<1> QED BY <1>1, <1>2, <1>4 DEF o, LedgerFollows, Balanced

(* submit_day_reputation: what the ledger no longer keeps is capital's.    *)
LEMMA PayingKeepsBooks ==
  ASSUME TypeOK, LedgersFollow, VaultIsBooked, NEW c \in CellIds,
         NEW weights \in [SensorSlots -> Weights], SubmitDayReputation(c, weights)
  PROVE  LedgersFollow' /\ VaultIsBooked'
<1> USE PoliciesAssumption
<1> DEFINE day    == cells[c].last
           ledger == IF rewards[c].opened THEN rewards[c] ELSE OpenLedger(day)
           paid   == PayDay(ledger, day, weights)
           back   == ReturnedBy(ledger, day, weights)
<1>1. day \in Nat /\ day >= ledger.next /\ back \in Money
  BY DEF SubmitDayReputation, TypeOK, Cells
<1>2. /\ ledger \in Ledgers /\ ledger.reserve = rewards[c].reserve /\ ledger.opened
      /\ LedgerFollows(ledger, CoverOf(c))
  <2>1. rewards[c] \in Ledgers /\ LedgerFollows(rewards[c], CoverOf(c))
    BY DEF TypeOK, LedgersFollow
  <2>2. CASE rewards[c].opened
    BY <2>1, <2>2
  <2>3. CASE ~rewards[c].opened
    BY <1>1, <2>1, <2>3, OpenedFollows
  <2> QED BY <2>2, <2>3
<1>3. /\ rewards' = [rewards EXCEPT ![c] = paid]
      /\ pool' = [pool EXCEPT !.capital = @ + back]
      /\ policies' = policies /\ vault' = vault
      /\ rewards'[c] \in Ledgers
  BY DEF SubmitDayReputation
<1>11. paid = PayDay(ledger, day, weights) /\ back = ReturnedBy(ledger, day, weights)
  OBVIOUS
<1> HIDE DEF day, ledger, paid, back
<1>4. paid \in Ledgers
  BY <1>3 DEF TypeOK
<1>5. /\ paid.next = day + 1 /\ paid.opened = ledger.opened /\ paid.reserve = ledger.reserve - back
      /\ SumFunctionOnSet(paid.schedule, ScheduleSlots) + SumFunctionOnSet(paid.accrued, SensorSlots)
           = SumFunctionOnSet(ledger.schedule, ScheduleSlots)
               + SumFunctionOnSet(ledger.accrued, SensorSlots) - back
      /\ \A d \in Nat : d > day => BudgetOf(paid, d) = BudgetOf(ledger, d)
  <2>1. ledger \in Ledgers /\ day \in Nat /\ day >= ledger.next
    BY <1>1, <1>2
  <2> QED BY <1>11, <2>1, PayDayMoves, SMTT(60)
<1>6. LedgerFollows(paid, CoverOf(c))
  <2>1. Balanced(paid)
    BY <1>1, <1>2, <1>4, <1>5, LedgerFields DEF Balanced, LedgerFollows, Money
  <2>2. \A d \in Nat : d >= paid.next => BudgetOf(paid, d) = CoverOf(c)[d]
    <3>1. ledger.next \in Nat /\ \A d \in Nat : d >= ledger.next => BudgetOf(ledger, d) = CoverOf(c)[d]
      BY <1>2, LedgerFields DEF LedgerFollows
    <3>2. \A d \in Nat : d >= paid.next => d > day /\ d >= ledger.next
      BY <1>1, <1>5, <3>1
    <3> QED BY <1>5, <3>1, <3>2
  <2> QED BY <1>2, <1>5, <2>1, <2>2 DEF LedgerFollows
<1>7. /\ Reserves' = Reserves - rewards[c].reserve + paid.reserve /\ Reserves \in Nat
      /\ rewards'[c] = paid /\ \A k \in CellIds \ {c} : rewards'[k] = rewards[k]
  BY <1>3, <1>4, ReservesMove
<1>8. \A k \in CellIds : CoverOf(k)' = CoverOf(k)
  BY <1>3, CoverKept DEF Decided
<1>9. LedgersFollow'
  <2>1. ASSUME NEW k \in CellIds PROVE LedgerFollows(rewards'[k], CoverOf(k)')
    <3>1. CASE k = c
      BY <1>6, <1>7, <1>8, <3>1
    <3>2. CASE k # c
      BY <1>7, <1>8, <3>2 DEF LedgersFollow
    <3> QED BY <3>1, <3>2
  <2> QED BY <2>1 DEF LedgersFollow, LedgerFollows, Balanced
<1>10. VaultIsBooked'
  <2>1. pool'.capital = pool.capital + back /\ pool.capital \in Nat
    BY <1>3 DEF TypeOK, Pools, Money
  <2>2. rewards[c].reserve \in Nat
    BY LedgerFields DEF TypeOK
  <2> QED BY <1>1, <1>2, <1>3, <1>5, <1>7, <2>1, <2>2 DEF VaultIsBooked, Money
<1> QED BY <1>9, <1>10

(* claim_reward: what a slot takes leaves the vault and its own reserve.   *)
LEMMA ClaimingKeepsBooks ==
  ASSUME TypeOK, LedgersFollow, VaultIsBooked, NEW c \in CellIds, NEW slot \in SensorSlots,
         ClaimReward(c, slot)
  PROVE  LedgersFollow' /\ VaultIsBooked'
<1> DEFINE r      == rewards[c]
           amount == r.accrued[slot]
           taken  == TakeAccrued(r, slot)
<1>1. /\ r \in Ledgers /\ LedgerFollows(r, CoverOf(c))
      /\ amount \in Nat /\ amount > 0 /\ amount = r.accrued[slot]
  <2>1. r \in Ledgers /\ LedgerFollows(r, CoverOf(c))
    BY DEF TypeOK, LedgersFollow
  <2>2. amount \in Nat
    BY <2>1, LedgerFields
  <2> QED BY <2>1, <2>2 DEF ClaimReward
<1>2. /\ rewards' = [rewards EXCEPT ![c] = taken] /\ rewards'[c] \in Ledgers
      /\ vault' = vault - amount /\ pool' = pool /\ policies' = policies
  BY DEF ClaimReward
<1>3. taken \in Ledgers
  BY <1>2 DEF TypeOK
<1>4. /\ taken.next = r.next /\ taken.opened = r.opened /\ taken.schedule = r.schedule
      /\ taken.reserve = r.reserve - amount
      /\ taken.accrued = [r.accrued EXCEPT ![slot] = 0]
  BY <1>1 DEF TakeAccrued, Ledgers
<1>10. r = rewards[c]
  OBVIOUS
<1> HIDE DEF r, amount, taken
<1>5. SumFunctionOnSet(taken.accrued, SensorSlots) = SumFunctionOnSet(r.accrued, SensorSlots) - amount
  <2> DEFINE f == r.accrued
             g == taken.accrued
  <2>1. \A s \in SensorSlots : f[s] \in Nat /\ g[s] \in Nat
    BY <1>1, <1>3, LedgerFields
  <2>2. g[slot] = 0 /\ f[slot] = amount
    BY <1>1, <1>4, LedgerFields
  <2>3. \A s \in SensorSlots \ {slot} : g[s] = f[s]
    BY <1>1, <1>4, LedgerFields
  <2> HIDE DEF f, g
  <2>4. SumFunctionOnSet(g, SensorSlots) = SumFunctionOnSet(f, SensorSlots) - f[slot] + g[slot]
    BY <2>1, <2>3, SlotsFinite, SumChanges
  <2>5. SumFunctionOnSet(f, SensorSlots) \in Nat
    BY <2>1, SlotsFinite, SumType
  <2> QED BY <1>1, <2>2, <2>4, <2>5 DEF f, g
<1>6. LedgerFollows(taken, CoverOf(c))
  <2>1. Balanced(taken)
    BY <1>1, <1>4, <1>5, LedgerFields DEF Balanced, LedgerFollows
  <2>2. taken.reserve \in Nat
    BY <1>3, LedgerFields
  <2>3. r.opened
    BY <1>1, <1>4, <2>2 DEF LedgerFollows
  <2>4. \A d \in Nat : BudgetOf(taken, d) = BudgetOf(r, d)
    BY <1>4 DEF BudgetOf
  <2> QED BY <1>1, <1>4, <2>1, <2>3, <2>4 DEF LedgerFollows
<1>7. /\ Reserves' = Reserves - r.reserve + taken.reserve /\ Reserves \in Nat
      /\ rewards'[c] = taken /\ \A k \in CellIds \ {c} : rewards'[k] = rewards[k]
  BY <1>2, <1>3, <1>10, ReservesMove
<1>8. \A k \in CellIds : CoverOf(k)' = CoverOf(k)
  BY <1>2, CoverKept DEF Decided
<1>9. LedgersFollow'
  <2>1. ASSUME NEW k \in CellIds PROVE LedgerFollows(rewards'[k], CoverOf(k)')
    <3>1. CASE k = c
      BY <1>6, <1>7, <1>8, <3>1
    <3>2. CASE k # c
      BY <1>7, <1>8, <3>2 DEF LedgersFollow
    <3> QED BY <3>1, <3>2
  <2> QED BY <2>1 DEF LedgersFollow, LedgerFollows, Balanced
<1>11. VaultIsBooked'
  <2>1. pool.capital \in Nat
    BY PoliciesAssumption DEF TypeOK, Pools, Money
  <2>2. r.reserve \in Nat /\ taken.reserve \in Nat
    BY <1>1, <1>3, LedgerFields
  <2> QED BY <1>1, <1>2, <1>4, <1>7, <2>1, <2>2 DEF VaultIsBooked
<1> QED BY <1>9, <1>11

(* A sale adds its share to the cover of the days of its window, in its    *)
(* cell.                                                                   *)
LEMMA CoverSold ==
  ASSUME TypeOK, TypeOK', NEW p \in PolicyIds, policies[p] = NoPolicy,
         NEW record \in PolicyRecords, policies' = [policies EXCEPT ![p] = record],
         NEW c \in CellIds, NEW d \in Nat
  PROVE  Cover(c, d)' = Cover(c, d)
           + IF record.cell = c /\ d \in record.start .. record.end
               THEN ShareOfDay(RewardShare(record.premium), record.start, record.end, d) ELSE 0
<1> DEFINE f == [q \in PolicyIds |-> Laid(policies[q], c, d)]
           g == [q \in PolicyIds |-> Laid(policies'[q], c, d)]
<1>1. \A q \in PolicyIds : f[q] \in Nat /\ g[q] \in Nat
  <2>1. \A q \in PolicyIds : /\ policies[q] \in PolicyRecords \cup {NoPolicy}
                             /\ policies'[q] \in PolicyRecords \cup {NoPolicy}
    BY DEF TypeOK
  <2> QED BY <2>1, LaidFits
<1>2. policies'[p] = record /\ \A q \in PolicyIds \ {p} : policies'[q] = policies[q]
  BY DEF TypeOK
<1>3. \A q \in PolicyIds \ {p} : g[q] = f[q]
  BY <1>2 DEF Laid
<1>4. f[p] = 0
  BY DEF Laid
<1>5. record # NoPolicy
  BY DEF PolicyRecords, NoPolicy, PolicyStates
<1>6. g[p] = IF record.cell = c /\ d \in record.start .. record.end
               THEN ShareOfDay(RewardShare(record.premium), record.start, record.end, d) ELSE 0
  BY <1>2, <1>5 DEF Laid
<1>7. Cover(c, d) = SumFunctionOnSet(f, PolicyIds) /\ Cover(c, d)' = SumFunctionOnSet(g, PolicyIds)
  BY DEF Cover
<1> HIDE DEF f, g
<1>8. SumFunctionOnSet(g, PolicyIds) = SumFunctionOnSet(f, PolicyIds) - f[p] + g[p]
  BY <1>1, <1>3, SumChanges, AccountsAssumption, SMTT(60)
<1>9. SumFunctionOnSet(f, PolicyIds) \in Nat
  BY <1>1, SumType, AccountsAssumption
<1> QED BY <1>1, <1>4, <1>6, <1>7, <1>8, <1>9

(* issue_policy: the premium is in the vault, its reward share in the      *)
(* cell's reserve and on the days of the window, the rest in capital.      *)
LEMMA SellingKeepsBooks ==
  ASSUME TypeOK, TypeOK', LedgersFollow, VaultIsBooked, NEW p \in PolicyIds, NEW c \in CellIds,
         NEW terms \in Terms, IssuePolicy(p, c, terms)
  PROVE  LedgersFollow' /\ VaultIsBooked'
<1> USE PoliciesAssumption
<1> DEFINE premium == PremiumFor(c, terms.payout)
           share   == RewardShare(premium)
           r       == rewards[c]
           laid    == ScheduleWindow(r, share, terms.start, terms.end)
           record  == [cell |-> c, threshold |-> terms.threshold, payout |-> terms.payout,
                       premium |-> premium, start |-> terms.start, end |-> terms.end,
                       state |-> "Active"]
<1>1. premium \in Nat
  BY PremiumFits DEF IssuePolicy
<1>2. /\ policies[p] = NoPolicy /\ r.opened /\ CanSchedule(r, terms.start, terms.end)
      /\ vault' = vault + premium
      /\ pool' = [pool EXCEPT !.reserved = @ + terms.payout, !.capital = @ + (premium - share)]
      /\ rewards' = [rewards EXCEPT ![c] = laid] /\ rewards'[c] \in Ledgers
      /\ policies' = [policies EXCEPT ![p] = record]
  BY DEF IssuePolicy
<1>3. laid \in Ledgers
  BY <1>2 DEF TypeOK
<1>4. r \in Ledgers /\ LedgerFollows(r, CoverOf(c)) /\ r = rewards[c]
  BY DEF TypeOK, LedgersFollow
<1>5. terms.start \in Nat /\ terms.end \in Nat
  OBVIOUS
<1> HIDE DEF premium
<1>6. share \in 0 .. premium /\ share \in Nat
  BY <1>1, RewardShareFits
<1>7. /\ record \in PolicyRecords /\ record.cell = c /\ record.premium = premium
      /\ record.start = terms.start /\ record.end = terms.end
  BY <1>1 DEF PolicyRecords, PolicyStates
<1>8. /\ laid.next = r.next /\ laid.opened = r.opened /\ laid.accrued = r.accrued
      /\ laid.reserve = r.reserve + share
      /\ SumFunctionOnSet(laid.schedule, ScheduleSlots)
           = SumFunctionOnSet(r.schedule, ScheduleSlots) + share
      /\ \A d \in Nat : d >= r.next =>
           BudgetOf(laid, d) = BudgetOf(r, d)
             + IF d \in terms.start .. terms.end THEN ShareOfDay(share, terms.start, terms.end, d) ELSE 0
  <2>1. laid = ScheduleWindow(r, share, terms.start, terms.end)
    OBVIOUS
  <2> HIDE DEF share, r, laid
  <2>2. r \in Ledgers /\ share \in Nat /\ CanSchedule(r, terms.start, terms.end)
    BY <1>2, <1>4, <1>6
  <2> QED BY <1>5, <2>1, <2>2, ScheduleWindowLays, SMTT(60)
<1> HIDE DEF r, laid, record
<1>9. \A k \in CellIds, d \in Nat :
        CoverOf(k)'[d] = CoverOf(k)[d]
          + IF c = k /\ d \in terms.start .. terms.end
              THEN ShareOfDay(share, terms.start, terms.end, d) ELSE 0
  <2>1. \A k \in CellIds, d \in Nat :
          Cover(k, d)' = Cover(k, d)
            + IF record.cell = k /\ d \in record.start .. record.end
                THEN ShareOfDay(RewardShare(record.premium), record.start, record.end, d) ELSE 0
    BY <1>2, <1>7, CoverSold
  <2> QED BY <1>7, <2>1 DEF CoverOf
<1> HIDE DEF share
<1>10. \A k \in CellIds \ {c} : CoverOf(k)' = CoverOf(k)
  <2>1. ASSUME NEW k \in CellIds \ {c}, NEW d \in Nat PROVE Cover(k, d)' = Cover(k, d)
    <3>1. Cover(k, d) \in Int
      <4>1. \A q \in PolicyIds : Laid(policies[q], k, d) \in Nat
        BY LaidFits DEF TypeOK
      <4> QED BY <4>1, SumType, AccountsAssumption DEF Cover
    <3>2. CoverOf(k)'[d] = CoverOf(k)[d] + 0
      BY <1>9, <2>1
    <3> QED BY <3>1, <3>2 DEF CoverOf
  <2> QED BY <2>1 DEF CoverOf
<1>11. LedgerFollows(laid, CoverOf(c)')
  <2>1. Balanced(laid)
    BY <1>4, <1>6, <1>8, LedgerFields DEF Balanced, LedgerFollows
  <2>2. \A d \in Nat : d >= laid.next => BudgetOf(laid, d) = CoverOf(c)'[d]
    BY <1>4, <1>8, <1>9 DEF LedgerFollows
  <2> QED BY <1>2, <1>8, <2>1, <2>2 DEF LedgerFollows
<1>12. /\ Reserves' = Reserves - r.reserve + laid.reserve /\ Reserves \in Nat
       /\ rewards'[c] = laid /\ \A k \in CellIds \ {c} : rewards'[k] = rewards[k]
  BY <1>2, <1>3, <1>4, ReservesMove
<1>13. LedgersFollow'
  <2>1. ASSUME NEW k \in CellIds PROVE LedgerFollows(rewards'[k], CoverOf(k)')
    <3>1. CASE k = c
      BY <1>11, <1>12, <3>1
    <3>2. CASE k # c
      BY <1>10, <1>12, <3>2 DEF LedgersFollow
    <3> QED BY <3>1, <3>2
  <2> QED BY <2>1 DEF LedgersFollow, LedgerFollows, Balanced
<1>14. VaultIsBooked'
  <2>1. pool.capital \in Nat /\ pool'.capital = pool.capital + (premium - share)
    BY <1>2 DEF TypeOK, Pools, Money
  <2>2. r.reserve \in Nat
    BY <1>4, LedgerFields
  <2> QED BY <1>1, <1>2, <1>6, <1>8, <1>12, <2>1, <2>2 DEF VaultIsBooked
<1> QED BY <1>13, <1>14

(* exclude_sensor: what is forfeited leaves the ledgers for the capital,   *)
(* and what is burnt arrives in both.                                      *)
LEMMA ExcludingKeepsBooks ==
  ASSUME TypeOK, LedgersFollow, VaultIsBooked, NEW places \in SensorPlaces, NEW burnt \in Burns,
         ExcludeSensor(places, burnt)
  PROVE  LedgersFollow' /\ VaultIsBooked'
<1> USE PoliciesAssumption
<1> DEFINE lost(c)  == {s \in SensorSlots : <<c, s>> \in places}
           f == [c \in CellIds |-> rewards[c].reserve]
           g == [c \in CellIds |-> ForfeitedIn(c, places)]
           h == [c \in CellIds |-> rewards'[c].reserve]
<1>1. ASSUME NEW c \in CellIds
      PROVE  /\ rewards[c] \in Ledgers /\ rewards'[c] \in Ledgers
             /\ rewards'[c].next = rewards[c].next /\ rewards'[c].opened = rewards[c].opened
             /\ rewards'[c].schedule = rewards[c].schedule
             /\ rewards'[c].reserve = rewards[c].reserve - ForfeitedIn(c, places)
             /\ \A s \in SensorSlots :
                  rewards'[c].accrued[s] = IF s \in lost(c) THEN 0 ELSE rewards[c].accrued[s]
  <2> DEFINE kept == [s \in SensorSlots |-> IF <<c, s>> \in places THEN 0 ELSE rewards[c].accrued[s]]
  <2>1. rewards[c] \in Ledgers /\ rewards'[c] \in Ledgers
    BY DEF TypeOK, ExcludeSensor
  <2>2. rewards'[c] = [rewards[c] EXCEPT !.accrued = kept, !.reserve = @ - ForfeitedIn(c, places)]
    BY DEF ExcludeSensor
  <2>3. \A s \in SensorSlots : kept[s] = IF s \in lost(c) THEN 0 ELSE rewards[c].accrued[s]
    OBVIOUS
  <2> HIDE DEF kept, lost
  <2> QED BY <2>1, <2>2, <2>3 DEF Ledgers
<1>2. /\ vault' = vault + burnt
      /\ pool' = [pool EXCEPT !.capital = @ + burnt + Forfeited(places)]
      /\ Forfeited(places) = SumFunctionOnSet(g, CellIds)
      /\ policies' = policies
  BY DEF ExcludeSensor, Forfeited, SumFunction
<1>3. ASSUME NEW c \in CellIds
      PROVE  /\ ForfeitedIn(c, places) \in Nat
             /\ SumFunctionOnSet(rewards'[c].accrued, SensorSlots)
                  = SumFunctionOnSet(rewards[c].accrued, SensorSlots) - ForfeitedIn(c, places)
  <2> DEFINE T == lost(c)
             a == rewards[c].accrued
             b == rewards'[c].accrued
  <2>1. /\ T \in SUBSET SensorSlots /\ ForfeitedIn(c, places) = SumFunctionOnSet(a, T)
        /\ IsFiniteSet(T) /\ IsFiniteSet(SensorSlots \ T)
    <3>1. T \in SUBSET SensorSlots /\ SensorSlots \ T \in SUBSET SensorSlots
      OBVIOUS
    <3> QED BY <3>1, SlotsFinite, FS_Subset DEF ForfeitedIn
  <2>2. /\ \A s \in SensorSlots : a[s] \in Nat /\ b[s] \in Nat
    BY <1>1, LedgerFields
  <2>3. /\ \A s \in T : b[s] = 0
        /\ \A s \in SensorSlots \ T : b[s] = a[s]
    BY <1>1
  <2> HIDE DEF T, a, b
  <2>4. SumFunctionOnSet(a, SensorSlots) = SumFunctionOnSet(a, T) + SumFunctionOnSet(a, SensorSlots \ T)
    BY <2>1, <2>2, SlotsFinite, SumOfParts
  <2>5. SumFunctionOnSet(b, SensorSlots) = SumFunctionOnSet(b, T) + SumFunctionOnSet(b, SensorSlots \ T)
    BY <2>1, <2>2, SlotsFinite, SumOfParts
  <2>6. SumFunctionOnSet(b, T) = 0
    BY <2>1, <2>3, SumOfNothing
  <2>7. SumFunctionOnSet(b, SensorSlots \ T) = SumFunctionOnSet(a, SensorSlots \ T)
    BY <2>1, <2>2, <2>3, SumOfTheSame
  <2>8. SumFunctionOnSet(a, T) \in Nat /\ SumFunctionOnSet(a, SensorSlots \ T) \in Nat
    BY <2>1, <2>2, SumType
  <2> QED BY <2>1, <2>4, <2>5, <2>6, <2>7, <2>8 DEF a, b
<1> HIDE DEF lost
<1>4. \A c \in CellIds : CoverOf(c)' = CoverOf(c)
  BY <1>2, CoverKept DEF Decided
<1>5. ASSUME NEW c \in CellIds PROVE LedgerFollows(rewards'[c], CoverOf(c)')
  <2> DEFINE r == rewards[c]
             w == rewards'[c]
  <2>1. LedgerFollows(r, CoverOf(c))
    BY DEF LedgersFollow
  <2>2. Balanced(w)
    <3>1. /\ SumFunctionOnSet(r.schedule, ScheduleSlots) \in Nat
          /\ SumFunctionOnSet(r.accrued, SensorSlots) \in Nat
      BY <1>1, LedgerFields
    <3> QED BY <1>1, <1>3, <2>1, <3>1 DEF Balanced, LedgerFollows
  <2>3. ~w.opened => w.next = 0 /\ w.reserve = 0 /\ \A s \in ScheduleSlots : w.schedule[s] = 0
    <3>1. w.reserve \in Nat
      BY <1>1, LedgerFields
    <3> QED BY <1>1, <1>3, <2>1, <3>1 DEF LedgerFollows
  <2>4. \A d \in Nat : BudgetOf(w, d) = BudgetOf(r, d)
    BY <1>1 DEF BudgetOf
  <2> QED BY <1>1, <1>4, <2>1, <2>2, <2>3, <2>4 DEF LedgerFollows
<1>6. LedgersFollow'
  BY <1>5 DEF LedgersFollow, LedgerFollows, Balanced
<1>7. \A c \in CellIds : f[c] \in Nat /\ g[c] \in Nat /\ h[c] \in Nat /\ f[c] = g[c] + h[c]
  <2>1. ASSUME NEW c \in CellIds PROVE f[c] \in Nat /\ g[c] \in Nat /\ h[c] \in Nat /\ f[c] = g[c] + h[c]
    <3>1. rewards[c].reserve \in Nat /\ rewards'[c].reserve \in Nat
      BY <1>1, LedgerFields
    <3> QED BY <1>1, <1>3, <3>1
  <2> QED BY <2>1
<1>8. Reserves = SumFunctionOnSet(f, CellIds) /\ Reserves' = SumFunctionOnSet(h, CellIds)
  BY DEF Reserves
<1> HIDE DEF f, g, h
<1>9. SumFunctionOnSet(f, CellIds) = SumFunctionOnSet(g, CellIds) + SumFunctionOnSet(h, CellIds)
  BY <1>7, SumOfBoth, AccountsAssumption
<1>10. SumFunctionOnSet(g, CellIds) \in Nat /\ SumFunctionOnSet(h, CellIds) \in Nat
  BY <1>7, SumType, AccountsAssumption
<1>11. VaultIsBooked'
  <2>1. pool.capital \in Nat /\ burnt \in Nat
    BY DEF TypeOK, Pools, Money
  <2>2. pool'.capital = pool.capital + burnt + SumFunctionOnSet(g, CellIds)
    BY <1>2 DEF TypeOK, Pools
  <2> QED BY <1>2, <1>8, <1>9, <1>10, <2>1, <2>2 DEF VaultIsBooked
<1> QED BY <1>6, <1>11

(* initialize_pool starts the books empty.                                 *)
LEMMA InitBooks == Init => BooksInv
<1> SUFFICES ASSUME Init PROVE BooksInv
  OBVIOUS
<1> USE PoliciesAssumption
<1>1. Inv
  BY InitInv
<1>2. \A p \in PolicyIds : policies[p] = NoPolicy
  BY DEF Init
<1>3. \A cs : Debt(cs) = 0
  <2>1. \A cs : \A p \in PolicyIds : Owes(p, cs) = 0
    BY <1>2 DEF Owes, IsOpen, NoPolicy
  <2>2. ASSUME NEW cs PROVE Debt(cs) = 0
    <3> DEFINE f == [p \in PolicyIds |-> Owes(p, cs)]
    <3>1. \A p \in PolicyIds : f[p] = 0
      BY <2>1
    <3>2. Debt(cs) = SumFunctionOnSet(f, PolicyIds)
      BY DEF Debt
    <3> HIDE DEF f
    <3> QED BY <3>1, <3>2, SumOfNothing, AccountsAssumption
  <2> QED BY <2>2
<1>4. ReservedIsDebt
  BY <1>3 DEF Init, ReservedIsDebt
<1>5. \A c \in CellIds, d \in Nat : CoverOf(c)[d] = 0
  <2>1. \A c \in CellIds, d \in Nat, p \in PolicyIds : Laid(policies[p], c, d) = 0
    BY <1>2 DEF Laid
  <2>2. \A c \in CellIds, d \in Nat : Cover(c, d) = 0
    BY <2>1, SumOfNothing, AccountsAssumption DEF Cover
  <2> QED BY <2>2 DEF CoverOf
<1>6. /\ ClosedLedger.opened = FALSE /\ ClosedLedger.next = 0 /\ ClosedLedger.reserve = 0
      /\ \A s \in ScheduleSlots : ClosedLedger.schedule[s] = 0
      /\ \A s \in SensorSlots : ClosedLedger.accrued[s] = 0
  BY DEF ClosedLedger
<1>7. \A c \in CellIds : rewards[c] = ClosedLedger
  BY DEF Init
<1>8. LedgersFollow
  <2>1. Balanced(ClosedLedger)
    <3>1. /\ SumFunctionOnSet(ClosedLedger.schedule, ScheduleSlots) = 0
          /\ SumFunctionOnSet(ClosedLedger.accrued, SensorSlots) = 0
      BY <1>6, SlotsFinite, SumOfNothing
    <3> QED BY <1>6, <3>1 DEF Balanced
  <2>2. \A d \in Nat : BudgetOf(ClosedLedger, d) = 0
    <3>1. \A d \in Nat : ScheduleSlot(d) \in ScheduleSlots
      BY DEF ScheduleSlot, ScheduleSlots
    <3> QED BY <1>6, <3>1 DEF BudgetOf
  <2> QED BY <1>5, <1>6, <1>7, <2>1, <2>2 DEF LedgersFollow, LedgerFollows
<1>9. VaultIsBooked
  <2>1. Reserves = 0
    BY <1>6, <1>7, SumOfNothing, AccountsAssumption DEF Reserves
  <2> QED BY <2>1 DEF Init, VaultIsBooked
<1> QED BY <1>1, <1>4, <1>8, <1>9 DEF BooksInv

(* The books are inductive.                                                *)
LEMMA NextBooks == BooksInv /\ [Next]_vars => BooksInv'
<1> SUFFICES ASSUME BooksInv, [Next]_vars PROVE BooksInv'
  OBVIOUS
<1>0. Inv /\ ReservedIsDebt /\ LedgersFollow /\ VaultIsBooked
  BY DEF BooksInv
<1>1. Inv' /\ ReservedIsDebt'
  BY <1>0, NextInv, DebtInv
<1>2. TypeOK /\ TypeOK'
  BY <1>0, <1>1 DEF Inv
<1>3. CASE rewards' = rewards /\ vault' - pool'.capital = vault - pool.capital /\ Decided
  <2>1. \A c \in CellIds : CoverOf(c)' = CoverOf(c)
    BY <1>2, <1>3, CoverKept
  <2>2. LedgersFollow'
    BY <1>0, <1>3, <2>1 DEF LedgersFollow, LedgerFollows, Balanced
  <2>3. VaultIsBooked'
    <3>1. Reserves' = Reserves
      BY <1>3 DEF Reserves
    <3>2. Reserves \in Nat
      <4>1. \A c \in CellIds : rewards[c].reserve \in Nat
        BY <1>2, LedgerFields DEF TypeOK
      <4> QED BY <4>1, SumType, AccountsAssumption DEF Reserves
    <3>3. vault \in Nat /\ vault' \in Nat /\ pool.capital \in Nat /\ pool'.capital \in Nat
      BY <1>2, PoliciesAssumption DEF TypeOK, Pools, Money
    <3> QED BY <1>0, <1>3, <3>1, <3>2, <3>3 DEF VaultIsBooked
  <2> QED BY <1>1, <2>2, <2>3 DEF BooksInv
<1>4. ASSUME LedgersFollow', VaultIsBooked' PROVE BooksInv'
  BY <1>1, <1>4 DEF BooksInv
<1>5. CASE \E c \in CellIds, weights \in [SensorSlots -> Weights] : SubmitDayReputation(c, weights)
  BY <1>0, <1>2, <1>4, <1>5, PayingKeepsBooks
<1>6. CASE \E p \in PolicyIds, c \in CellIds, terms \in Terms : IssuePolicy(p, c, terms)
  BY <1>0, <1>2, <1>4, <1>6, SellingKeepsBooks
<1>7. CASE \E c \in CellIds, slot \in SensorSlots : ClaimReward(c, slot)
  BY <1>0, <1>2, <1>4, <1>7, ClaimingKeepsBooks
<1>8. CASE \E places \in SensorPlaces, burnt \in Burns : ExcludeSensor(places, burnt)
  BY <1>0, <1>2, <1>4, <1>8, ExcludingKeepsBooks
<1> QED BY <1>2, <1>3, <1>5, <1>6, <1>7, <1>8, BookSteps

(* What follows from the books in one state.                               *)
LEMMA BooksSay ==
  ASSUME BooksInv
  PROVE  /\ ReservedIsOwed /\ VaultMatchesTheBooks /\ ReserveIsScheduledOrEarned
         /\ BudgetsFollowTheCover /\ SettlementIsNeverRefused
<1> USE PoliciesAssumption
<1>0. TypeOK /\ ReservedIsDebt /\ LedgersFollow /\ VaultIsBooked /\ ReservedIsBacked
  BY DEF BooksInv, Inv
<1>1. ReservedIsOwed
  BY <1>0, DebtIsOwed
<1>2. \A c \in CellIds : rewards[c] \in Ledgers
  BY <1>0 DEF TypeOK
<1>3. VaultMatchesTheBooks
  BY <1>0 DEF VaultIsBooked, VaultMatchesTheBooks, Reserves, SumFunction
<1>4. ReserveIsScheduledOrEarned
  <2>1. ASSUME NEW c \in CellIds
        PROVE  rewards[c].reserve = SumFunction(rewards[c].schedule) + SumFunction(rewards[c].accrued)
    <3>1. Balanced(rewards[c])
      BY <1>0 DEF LedgersFollow, LedgerFollows
    <3>2. DOMAIN rewards[c].schedule = ScheduleSlots /\ DOMAIN rewards[c].accrued = SensorSlots
      BY <1>2, LedgerFields
    <3> QED BY <3>1, <3>2 DEF Balanced, SumFunction
  <2> QED BY <2>1 DEF ReserveIsScheduledOrEarned
<1>5. BudgetsFollowTheCover
  <2>1. ASSUME NEW c \in CellIds, NEW d \in rewards[c].next .. rewards[c].next + ScheduleLen - 1
        PROVE  BudgetOf(rewards[c], d) =
                 SumFunction([p \in {q \in PolicyIds : /\ policies[q] # NoPolicy
                                                       /\ policies[q].cell = c
                                                       /\ d \in policies[q].start .. policies[q].end} |->
                                ShareOfDay(RewardShare(policies[p].premium),
                                           policies[p].start, policies[p].end, d)])
    <3> DEFINE sold == {q \in PolicyIds : /\ policies[q] # NoPolicy
                                          /\ policies[q].cell = c
                                          /\ d \in policies[q].start .. policies[q].end}
               f == [p \in sold |-> ShareOfDay(RewardShare(policies[p].premium),
                                               policies[p].start, policies[p].end, d)]
               h == [p \in PolicyIds |-> Laid(policies[p], c, d)]
    <3>1. rewards[c].next \in Nat /\ d \in Nat /\ d >= rewards[c].next
      <4>1. rewards[c].next \in Nat
        BY <1>2, LedgerFields
      <4> QED BY <4>1
    <3>2. BudgetOf(rewards[c], d) = SumFunctionOnSet(h, PolicyIds)
      BY <1>0, <3>1 DEF LedgersFollow, LedgerFollows, CoverOf, Cover
    <3>3. SumFunction(f) = SumFunctionOnSet(f, sold)
      BY DEF SumFunction
    <3>4. \A p \in PolicyIds : h[p] = IF p \in sold THEN f[p] ELSE 0
      BY DEF Laid
    <3>5. \A p \in PolicyIds : h[p] \in Nat
      BY <1>0, <3>1, LaidFits DEF TypeOK
    <3>6. \A p \in sold : f[p] \in Nat
      BY <3>4, <3>5
    <3>7. sold \in SUBSET PolicyIds
      OBVIOUS
    <3> HIDE DEF sold, f, h
    <3>8. SumFunctionOnSet(f, sold) = SumFunctionOnSet(h, PolicyIds)
      BY <3>4, <3>6, <3>7, SumOfSelected, AccountsAssumption
    <3>9. BudgetOf(rewards[c], d) = SumFunction(f)
      BY <3>2, <3>3, <3>8
    <3> QED BY <3>9 DEF f, sold
  <2> QED BY <2>1 DEF BudgetsFollowTheCover
<1>6. SettlementIsNeverRefused
  <2>1. ASSUME NEW p \in PolicyIds, policies[p].state \in {"Active", "Unclaimed"}
        PROVE  PayoutIsCovered(p)
    <3>1. policies[p] \in PolicyRecords
      BY <1>0, <2>1 DEF TypeOK, NoPolicy
    <3>2. PICK cell \in CellIds, payout \in Nat : cell = policies[p].cell /\ payout = policies[p].payout
      BY <3>1 DEF PolicyRecords
    <3>3. ASSUME NEW cs \in SUBSET CellIds, cell \in cs PROVE Debt(cs) >= payout
      <4> DEFINE f == [q \in PolicyIds |-> Owes(q, cs)]
      <4>1. \A q \in PolicyIds : f[q] \in Nat
        BY <1>0, OwesFits
      <4>2. f[p] = payout
        BY <2>1, <3>2, <3>3 DEF Owes, IsOpen
      <4>3. Debt(cs) = SumFunctionOnSet(f, PolicyIds)
        BY DEF Debt
      <4> HIDE DEF f
      <4>4. /\ SumFunctionOnSet(f, PolicyIds) = f[p] + SumFunctionOnSet(f, PolicyIds \ {p})
            /\ SumFunctionOnSet(f, PolicyIds \ {p}) \in Nat
        BY <4>1, SumWithout, AccountsAssumption
      <4> QED BY <4>2, <4>3, <4>4
    <3>4. pool.reserved >= payout /\ cellReserved[cell] >= payout
      BY <1>0, <3>3 DEF ReservedIsDebt
    <3>5. pool.reserved \in Nat /\ pool.capital \in Nat /\ pool.reserved <= pool.capital
      BY <1>0 DEF TypeOK, Pools, Money, ReservedIsBacked
    <3>6. vault = pool.capital + Reserves /\ Reserves \in Nat
      <4>1. \A c \in CellIds : rewards[c].reserve \in Nat
        BY <1>2, LedgerFields
      <4>2. Reserves \in Nat
        BY <4>1, SumType, AccountsAssumption DEF Reserves
      <4> QED BY <1>0, <4>2 DEF VaultIsBooked
    <3> QED BY <3>2, <3>4, <3>5, <3>6 DEF PayoutIsCovered
  <2> QED BY <2>1 DEF SettlementIsNeverRefused
<1> QED BY <1>1, <1>3, <1>4, <1>5, <1>6

(* Every reachable state keeps the books.                                  *)
THEOREM BooksAreKept == Spec => []BooksInv
BY InitBooks, NextBooks, PTL DEF Spec

(* The reservations, pool-wide and per cell, are the open obligations and  *)
(* nothing else: none is released twice and none is left behind.           *)
THEOREM ReservationsAreOwed == Spec => []ReservedIsOwed
<1>1. BooksInv => ReservedIsOwed
  BY BooksSay
<1> QED BY <1>1, BooksAreKept, PTL

(* The vault holds the capital and the reward reserves, to the unit,       *)
(* whatever was rounded on the way (FR-061, FR-064).                       *)
THEOREM VaultIsAccountedFor == Spec => []VaultMatchesTheBooks
<1>1. BooksInv => VaultMatchesTheBooks
  BY BooksSay
<1> QED BY <1>1, BooksAreKept, PTL

(* take_accrued never finds a reserve short of its accruals: a reserve is  *)
(* what its days still hold and its slots have earned.                     *)
THEOREM ReservesAreExplained == Spec => []ReserveIsScheduledOrEarned
<1>1. BooksInv => ReserveIsScheduledOrEarned
  BY BooksSay
<1> QED BY <1>1, BooksAreKept, PTL

(* The budget of every day still to be paid is the cover sold for that     *)
(* day and no other, however often the ring has been round (FR-062).       *)
THEOREM BudgetsAreTheCover == Spec => []BudgetsFollowTheCover
<1>1. BooksInv => BudgetsFollowTheCover
  BY BooksSay
<1> QED BY <1>1, BooksAreKept, PTL

(* A payout that is due is in the vault, in the capital and in both        *)
(* reservations: no checked_sub of a settlement can fail (FR-030).         *)
THEOREM DuePayoutsAreCovered == Spec => []SettlementIsNeverRefused
<1>1. BooksInv => SettlementIsNeverRefused
  BY BooksSay
<1> QED BY <1>1, BooksAreKept, PTL

-----------------------------------------------------------------------------
(***************************************************************************)
(* What a cell may expose against what taking it over costs.               *)
(***************************************************************************)

(* check_underwriting leaves at most half of the collusion floor exposed,  *)
(* whatever the capital.                                                   *)
LEMMA HalfTheFloor ==
  ASSUME TypeOK
  PROVE  /\ CellExposureLimit \in Int /\ 2 * CellExposureLimit <= CollusionFloor
         /\ CollusionFloor \in Nat
<1>0. \A share \in 1 .. BPS : share \in Nat
  BY DEF BPS
<1> USE PoliciesAssumption
<1>1. pool.minStake \in Nat /\ pool.capital \in Nat /\ pool.exposureBps \in Nat
  <2>1. pool.minStake \in Money /\ pool.capital \in Money /\ pool.exposureBps \in 1 .. BPS
    BY DEF TypeOK, Pools
  <2>2. \A amount \in Money : amount \in Nat
    BY SMTT(30) DEF Money
  <2> QED BY <1>0, <2>1, <2>2
<1>2. (MinSensors + 1) \div 2 \in Nat
  BY DivideDown
<1>3. CollusionFloor \in Nat
  BY <1>1, <1>2 DEF CollusionFloor
<1>4. CollusionFloor \div 2 \in Nat /\ 2 * (CollusionFloor \div 2) <= CollusionFloor
  BY <1>3, DivideDown
<1>5. CapitalExposureLimit \in Nat
  <2>1. pool.capital * pool.exposureBps \in Nat
    BY <1>1
  <2>2. BPS \in Nat \ {0}
    BY DEF BPS
  <2> QED BY <2>1, <2>2, DivideDown DEF CapitalExposureLimit
<1> HIDE DEF CollusionFloor, CapitalExposureLimit
<1>6. CellExposureLimit \in Nat /\ CellExposureLimit <= CollusionFloor \div 2
  BY <1>4, <1>5 DEF CellExposureLimit
<1> QED BY <1>3, <1>4, <1>6

(* A cell's cover grows by a sale only, and then to half of the floor.     *)
LEMMA CoverGrowsBySales ==
  ASSUME TypeOK, TypeOK', [Next]_vars, NEW c \in CellIds
  PROVE  cellReserved'[c] <= cellReserved[c] \/ 2 * cellReserved'[c] <= CollusionFloor
<1> DEFINE Goal == cellReserved'[c] <= cellReserved[c] \/ 2 * cellReserved'[c] <= CollusionFloor
<1>1. cellReserved[c] \in Nat /\ cellReserved'[c] \in Nat
  BY DEF TypeOK, Money
<1>2. ASSUME cellReserved' = cellReserved PROVE Goal
  BY <1>1, <1>2
<1>3. ASSUME NEW p \in PolicyIds, NEW cell \in CellIds, NEW terms \in Terms,
             IssuePolicy(p, cell, terms)
      PROVE  Goal
  <2>1. /\ cellReserved[cell] + terms.payout <= CellExposureLimit
        /\ cellReserved' = [cellReserved EXCEPT ![cell] = @ + terms.payout]
    BY <1>3 DEF IssuePolicy, MayUnderwrite
  <2>2. CellExposureLimit \in Int /\ 2 * CellExposureLimit <= CollusionFloor /\ CollusionFloor \in Nat
    BY HalfTheFloor
  <2> HIDE DEF CellExposureLimit, CollusionFloor
  <2>3. CASE c = cell
    <3>1. cellReserved'[c] <= CellExposureLimit
      BY <2>1, <2>3 DEF TypeOK
    <3> QED BY <1>1, <2>2, <3>1
  <2>4. CASE c # cell
    <3>1. cellReserved'[c] = cellReserved[c]
      BY <2>1, <2>4 DEF TypeOK
    <3> QED BY <1>1, <3>1
  <2> QED BY <2>3, <2>4
<1>4. ASSUME NEW p \in PolicyIds, IsOpen(p),
             cellReserved' = [cellReserved EXCEPT ![policies[p].cell] = @ - policies[p].payout]
      PROVE  Goal
  <2>1. policies[p].payout \in Nat
    BY <1>4, PoliciesAssumption DEF TypeOK, PolicyRecords, NoPolicy, IsOpen
  <2>2. cellReserved'[c] = cellReserved[c] \/ cellReserved'[c] = cellReserved[c] - policies[p].payout
    BY <1>4 DEF TypeOK
  <2> QED BY <1>1, <2>1, <2>2
<1>5. ASSUME NEW p \in PolicyIds, ClosePolicy(p) PROVE Goal
  BY <1>4, <1>5 DEF ClosePolicy, IsOpen
<1>6. ASSUME NEW p \in PolicyIds, IsOpen(p), ReleasePayout(p) PROVE Goal
  BY <1>4, <1>6 DEF ReleasePayout
<1>7. ASSUME NEW p \in PolicyIds, NEW account \in Accounts, LeaveUnclaimed(p, account) PROVE Goal
  BY <1>2, <1>7 DEF LeaveUnclaimed
<1> HIDE DEF Goal
<1>8. Goal
  BY <1>2, <1>3, <1>5, <1>6, <1>7, ReservationSteps
<1> QED BY <1>8 DEF Goal

(* A cell's cover under the floor it was last sold on.                     *)
SoldUnderTheFloor ==
  /\ soldOn \in [CellIds -> Nat]
  /\ \A c \in CellIds : 2 * cellReserved[c] <= FloorOn(soldOn[c])

LEMMA Floors ==
  ASSUME NEW a \in Nat, NEW b \in Nat
  PROVE  FloorOn(a) \in Nat /\ (a <= b => FloorOn(a) <= FloorOn(b))
<1>1. (MinSensors + 1) \div 2 \in Nat
  BY PoliciesAssumption, DivideDown
<1>2. ASSUME NEW k \in Nat PROVE a * k \in Nat /\ (a <= b => a * k <= b * k)
  OBVIOUS
<1> QED BY <1>1, <1>2 DEF FloorOn

LEMMA SoldUnderTheFloorStep ==
  ASSUME Inv, SoldUnderTheFloor, [ExposureNext]_exposureVars
  PROVE  SoldUnderTheFloor'
<1>1. TypeOK /\ TypeOK' /\ [Next]_vars
  BY TypeInv DEF Inv, ExposureNext, exposureVars
<1>2. pool.minStake \in Nat /\ CollusionFloor = FloorOn(pool.minStake)
  BY <1>1 DEF TypeOK, Pools, Money, CollusionFloor, FloorOn
<1>3. CASE UNCHANGED exposureVars
  BY <1>3 DEF exposureVars, vars, chain, SoldUnderTheFloor
<1>4. CASE ExposureNext
  <2>1. soldOn' = [c \in CellIds |-> IF cellReserved'[c] > cellReserved[c] THEN pool.minStake ELSE soldOn[c]]
    BY <1>4 DEF ExposureNext
  <2>2. soldOn' \in [CellIds -> Nat]
    BY <1>2, <2>1 DEF SoldUnderTheFloor
  <2>3. ASSUME NEW c \in CellIds PROVE 2 * cellReserved'[c] <= FloorOn(soldOn'[c])
    <3>1. cellReserved[c] \in Nat /\ cellReserved'[c] \in Nat
      BY <1>1 DEF TypeOK, Money
    <3>2. CASE cellReserved'[c] > cellReserved[c]
      <4>1. soldOn'[c] = pool.minStake /\ ~(cellReserved'[c] <= cellReserved[c])
        BY <2>1, <3>1, <3>2
      <4> QED BY <1>1, <1>2, <4>1, CoverGrowsBySales
    <3>3. CASE ~(cellReserved'[c] > cellReserved[c])
      <4>1. soldOn'[c] = soldOn[c] /\ cellReserved'[c] <= cellReserved[c]
        BY <2>1, <3>1, <3>3
      <4>2. 2 * cellReserved[c] <= FloorOn(soldOn[c]) /\ soldOn[c] \in Nat
        BY DEF SoldUnderTheFloor
      <4>3. FloorOn(soldOn[c]) \in Nat
        BY <4>2, Floors
      <4> QED BY <3>1, <4>1, <4>2, <4>3
    <3> QED BY <3>2, <3>3
  <2> QED BY <2>2, <2>3 DEF SoldUnderTheFloor
<1> QED BY <1>3, <1>4

(* Taking a cell over costs at least twice what the cell can be made to    *)
(* pay, under the minimum stake its cover was last sold on, and under the  *)
(* stake of now unless that was lowered since: whatever set_pool_params    *)
(* does, and whenever (SC-014).                                            *)
THEOREM CollusionIsNoBargain == ExposureSpec => []CollusionNeverPays
<1> DEFINE J == Inv /\ SoldUnderTheFloor
<1>1. ExposureInit => J
  <2> SUFFICES ASSUME ExposureInit PROVE J
    OBVIOUS
  <2>1. Inv
    BY InitInv DEF ExposureInit
  <2>2. FloorOn(0) \in Nat
    BY Floors
  <2> QED BY <2>1, <2>2 DEF ExposureInit, Init, SoldUnderTheFloor
<1>2. J /\ [ExposureNext]_exposureVars => J'
  <2> SUFFICES ASSUME J, [ExposureNext]_exposureVars PROVE J'
    OBVIOUS
  <2>1. [Next]_vars
    BY DEF ExposureNext, exposureVars
  <2> QED BY <2>1, NextInv, SoldUnderTheFloorStep
<1>3. J => CollusionNeverPays
  <2> SUFFICES ASSUME J, NEW c \in CellIds
               PROVE  /\ 2 * cellReserved[c] <= FloorOn(soldOn[c])
                      /\ pool.minStake >= soldOn[c] => 2 * cellReserved[c] <= CollusionFloor
    BY DEF CollusionNeverPays
  <2>1. 2 * cellReserved[c] <= FloorOn(soldOn[c]) /\ soldOn[c] \in Nat
    BY DEF SoldUnderTheFloor
  <2>2. pool.minStake \in Nat /\ cellReserved[c] \in Nat /\ CollusionFloor = FloorOn(pool.minStake)
    BY DEF Inv, TypeOK, Pools, Money, CollusionFloor, FloorOn
  <2>3. /\ FloorOn(soldOn[c]) \in Nat /\ FloorOn(pool.minStake) \in Nat
        /\ soldOn[c] <= pool.minStake => FloorOn(soldOn[c]) <= FloorOn(pool.minStake)
    BY <2>1, <2>2, Floors
  <2> QED BY <2>1, <2>2, <2>3
<1> QED BY <1>1, <1>2, <1>3, PTL DEF ExposureSpec
=============================================================================
