----------------------------- MODULE Collusion -----------------------------
(***************************************************************************)
(* The price of a cell's value, and how far less than that price can move  *)
(* it (packages/shared/src/collusion.ts and minority-shift.ts), as the     *)
(* methodology route publishes them (apps/api/src/routes/methodology.ts).  *)
(*                                                                         *)
(* A cell is the rows the mirror has of its sensors and the slots it has   *)
(* given out; its votes of an interval are examined apart, while it has no *)
(* rows.  Neither order nor names matter to the code: operators are named  *)
(* in the order they come, and the votes come sorted, as cellMedian        *)
(* returns them.                                                           *)
(***************************************************************************)
EXTENDS Aggregate, Sequences, SequencesExt

CONSTANTS
  PriceSlots,                       \* SENSOR_SLOTS
  PriceStakes, PriceMinStakes,
  PriceMinVotes,
  PriceCapitals, PriceExposureBps,
  VoteValues, ColumnMin, ColumnMax, \* values reported, and what the column can hold
  MaxRows, MaxGivenUp, MaxVotes

ASSUME CollusionAssumption ==
  /\ {PriceSlots, MaxRows, MaxGivenUp, MaxVotes} \subseteq Nat
  /\ UNION {PriceStakes, PriceMinStakes, PriceMinVotes, PriceCapitals, PriceExposureBps} \subseteq Nat
  /\ 0 \notin PriceMinStakes
  /\ {ColumnMin, ColumnMax} \subseteq Int
  /\ \A v \in VoteValues : v \in ColumnMin .. ColumnMax

VARIABLES
  rows,      \* the mirror's sensors of the cell: operator, stake, active
  givenUp,   \* slots of sensors that have moved away
  pool,      \* the parameters on chain
  votes      \* the honest votes of an interval, sorted

priceVars == <<rows, givenUp, pool, votes>>

(***************************************************************************)
(* What it takes to hold half of the votes.                                *)
(***************************************************************************)
(* The operators that vote, each with all the stake it votes with.          *)
Voting == {i \in DOMAIN rows : rows[i].active /\ rows[i].stake >= pool.minStake}

Voters == {rows[i].operator : i \in Voting}

StakeOf ==
  [o \in Voters |-> SumFunctionOnSet([i \in DOMAIN rows |-> rows[i].stake], {i \in Voting : rows[i].operator = o})]

(* The stakes, sorted: each at the place that as many come before. *)
VoteStakesByCell ==
  LET stake == StakeOf
      cheaper(o) == {p \in Voters : stake[p] < stake[o] \/ (stake[p] = stake[o] /\ p < o)} IN
  [k \in 1 .. Cardinality(Voters) |-> stake[CHOOSE o \in Voters : Cardinality(cheaper(o)) = k - 1]]

FreeSlots == Max({0, PriceSlots - (Len(rows) + givenUp)})

(* Mutant: the votes to add are counted against the votes of now. *)
AddedAgainstNow(bought, count) ==
  Max({IF bought = 0 THEN 1 ELSE 0, count - bought, pool.minVotes - count})

(* Bought, a vote counts twice.  Half of nothing is not control. *)
Added(bought, count) ==
  Max({IF bought = 0 THEN 1 ELSE 0, count - 2 * bought, pool.minVotes - count})

(* The cheapest way, buying from the cheapest: none, or one. *)
CollusionCost ==
  LET stakes == VoteStakesByCell
      count  == Len(stakes)
      path(b) == [bought |-> b, added |-> Added(b, count),
                  cost |-> SumFunctionOnSet(stakes, 1 .. b) + Added(b, count) * pool.minStake]
      paths == {path(b) : b \in {b \in 0 .. count : Added(b, count) <= FreeSlots}}
  IN {p \in paths : \A q \in paths : p.cost < q.cost \/ (p.cost = q.cost /\ p.bought <= q.bought)}

(* Mutant: the floor counts from a strict majority, as an attacker need not. *)
FloorOfAMajority == (pool.minVotes \div 2 + 1) * pool.minStake

CollusionFloor == Max({1, (pool.minVotes + 1) \div 2}) * pool.minStake

CollusionHolds(cost, limit) == cost >= 2 * limit

CapitalExposureLimit   == (pool.capital * pool.exposureBps) \div Bps
CollusionExposureLimit == CollusionFloor \div 2
PoolExposureLimit      == Min({CapitalExposureLimit, CollusionExposureLimit})

(* The verdict of the route on the cell: without a path, nothing to win. *)
RowHolds == \A p \in CollusionCost : CollusionHolds(p.cost, CapitalExposureLimit)

(***************************************************************************)
(* What less than half can do.                                             *)
(***************************************************************************)
MedianOf(values) == Some(Median({[at |-> i, value |-> values[i]] : i \in DOMAIN values}))

LargestMinority(count) == IF count = 0 THEN 0 ELSE (count + 1) \div 2 - 1

Turned(count, value) == [i \in 1 .. count |-> value]

(* Mutant: the group is taken from the end it pushes towards. *)
MinorityReachOfItsOwn(colluders) ==
  [honest |-> MedianOf(votes),
   down   |-> MedianOf(SubSeq(votes, colluders + 1, Len(votes)) \o Turned(colluders, ColumnMin)),
   up     |-> MedianOf(Turned(colluders, ColumnMax) \o SubSeq(votes, 1, Len(votes) - colluders))]

(* The group turns the votes on the side it pushes away from. *)
MinorityReach(colluders) ==
  [honest |-> MedianOf(votes),
   down   |-> MedianOf(SubSeq(votes, 1, Len(votes) - colluders) \o Turned(colluders, ColumnMin)),
   up     |-> MedianOf(Turned(colluders, ColumnMax) \o SubSeq(votes, colluders + 1, Len(votes)))]

DryValue(value) == value <= DryThreshold

MinorityFlipsDay(reach) ==
  \/ DryValue(reach.down) # DryValue(reach.honest)
  \/ DryValue(reach.up)   # DryValue(reach.honest)

(***************************************************************************)
(* The cells there can be.                                                 *)
(***************************************************************************)
CollusionInit ==
  /\ rows = <<>> /\ givenUp = 0 /\ votes = <<>>
  /\ pool \in [minStake : PriceMinStakes, minVotes : PriceMinVotes,
               capital : PriceCapitals, exposureBps : PriceExposureBps]

Operators == {rows[i].operator : i \in DOMAIN rows}

(* A sensor is mirrored, of an operator known here or of the next one. *)
MirrorRow(stake, active) ==
  /\ votes = <<>> /\ Len(rows) < MaxRows /\ Len(rows) + givenUp < PriceSlots
  /\ \E o \in Operators \cup {Cardinality(Operators) + 1} :
       rows' = Append(rows, [operator |-> o, stake |-> stake, active |-> active])
  /\ UNCHANGED <<givenUp, pool, votes>>

(* A sensor moves away: its slot is never given again. *)
MoveRowAway ==
  /\ rows # <<>> /\ givenUp < MaxGivenUp
  /\ rows' = Front(rows) /\ givenUp' = givenUp + 1
  /\ UNCHANGED <<pool, votes>>

HonestVote(value) ==
  /\ rows = <<>> /\ givenUp = 0 /\ Len(votes) < MaxVotes
  /\ votes # <<>> => Last(votes) <= value
  /\ votes' = Append(votes, value)
  /\ UNCHANGED <<rows, givenUp, pool>>

CollusionNext ==
  \/ \E stake \in PriceStakes, active \in BOOLEAN : MirrorRow(stake, active)
  \/ MoveRowAway
  \/ \E value \in VoteValues : HonestVote(value)

CollusionSpec == CollusionInit /\ [][CollusionNext]_priceVars

(***************************************************************************)
(* Properties.                                                             *)
(***************************************************************************)
(* What anybody could do: buy any of the voters, and add any number of     *)
(* sensors that have a slot, so as to hold half of the votes of a cell     *)
(* that has a value.                                                       *)
Takeovers ==
  {w \in [bought : SUBSET Voters, added : 0 .. FreeSlots] :
     LET held == Cardinality(w.bought) + w.added
         all  == Cardinality(Voters) + w.added IN
     held >= 1 /\ 2 * held >= all /\ all >= pool.minVotes}

TakeoverCost(w) == SumFunctionOnSet(StakeOf, w.bought) + w.added * pool.minStake

(* The price the route publishes is the cheapest takeover there is, and    *)
(* none is published only when there is none.                              *)
PriceIsTheCheapest ==
  /\ {p.cost : p \in CollusionCost} =
       (IF Takeovers = {} THEN {} ELSE {Min({TakeoverCost(w) : w \in Takeovers})})
  /\ \A p \in CollusionCost : p.added <= FreeSlots

(* The floor speaks for every cell: when it holds against the published    *)
(* share of capital every row of the page does, and no cell can be taken   *)
(* for less than twice what the program sells in it.                       *)
FloorSpeaksForEveryCell ==
  /\ CollusionHolds(CollusionFloor, CapitalExposureLimit) => RowHolds
  /\ \A w \in Takeovers : CollusionHolds(TakeoverCost(w), PoolExposureLimit)

(* Whatever a minority of the votes says, and whichever votes it is, the   *)
(* median stays inside the reach published for its size; the reach stays   *)
(* inside the honest votes, so a day they agree about cannot be flipped.   *)
MinoritiesStayInReach ==
  votes # <<>> =>
    \A n \in 0 .. LargestMinority(Len(votes)) :
      LET reach == MinorityReach(n) IN
      /\ votes[1] <= reach.down /\ reach.down <= reach.honest
      /\ reach.honest <= reach.up /\ reach.up <= Last(votes)
      /\ \A group \in kSubset(n, DOMAIN votes) :
           \A lies \in [group -> VoteValues \cup {ColumnMin, ColumnMax}] :
             LET m == MedianOf([i \in DOMAIN votes |-> IF i \in group THEN lies[i] ELSE votes[i]]) IN
             /\ reach.down <= m /\ m <= reach.up
             /\ ~MinorityFlipsDay(reach) => DryValue(m) = DryValue(reach.honest)

(* What the methodology page says of a lie: the price it publishes is the  *)
(* least there is, what it concludes from it holds for every cell, and no  *)
(* minority does more than the page says it can.                           *)
PriceOfALieIsRight == PriceIsTheCheapest /\ FloorSpeaksForEveryCell /\ MinoritiesStayInReach
=============================================================================
