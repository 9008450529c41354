---------------------------- MODULE CloseProofs ----------------------------
(***************************************************************************)
(* What holds of every closing of a day, for any sensors, readings, moves  *)
(* and order of the worker's writes (DayClose), of what is shown of a day  *)
(* when it is closed, the tree over its intervals (Merkle), and of what    *)
(* the value of a cell costs who would lie about it (Collusion).           *)
(***************************************************************************)
EXTENDS DayClose, Merkle, Collusion, Sums

-----------------------------------------------------------------------------
(***************************************************************************)
(* The median.                                                             *)
(***************************************************************************)
Valued(S) == IsFiniteSet(S) /\ \A x \in S : x.value \in Int

Below(S, v)   == {x \in S : x.value < v}
UpTo(S, v)    == {x \in S : x.value <= v}

LEMMA CountsOfValues ==
  ASSUME NEW S, Valued(S), NEW v
  PROVE  /\ Below(S, v) \subseteq S /\ IsFiniteSet(Below(S, v)) /\ Cardinality(Below(S, v)) \in Nat
         /\ UpTo(S, v) \subseteq S /\ IsFiniteSet(UpTo(S, v)) /\ Cardinality(UpTo(S, v)) \in Nat
<1>1. Below(S, v) \subseteq S /\ UpTo(S, v) \subseteq S
  BY DEF Below, UpTo
<1> QED BY <1>1, FS_Subset, FS_CardinalityType DEF Valued

(* A finite set has a greatest value.                                      *)
LEMMA GreatestValue ==
  ASSUME NEW S, Valued(S), S # {}
  PROVE  \E x \in S : \A y \in S : y.value <= x.value
<1> DEFINE above(x) == {y \in S : ~(y.value <= x.value)}
           T == {above(x) : x \in S}
<1>1. T \in SUBSET (SUBSET S) /\ T # {}
  OBVIOUS
<1>2. PICK a \in T : \A b \in T : ~(b \subseteq a /\ b # a)
  <2> HIDE DEF T
  <2> QED BY <1>1, LeastSubset DEF Valued
<1>3. PICK x \in S : a = above(x)
  BY <1>2
<1>4. ASSUME NEW y \in S, ~(y.value <= x.value) PROVE FALSE
  <2>1. y.value \in Int /\ x.value \in Int /\ \A z \in S : z.value \in Int
    BY DEF Valued
  <2>2. above(y) \subseteq a /\ y \in a /\ y \notin above(y)
    BY <2>1, <1>3, <1>4
  <2> QED BY <2>2, <1>2
<1> QED BY <1>4

(* The k-th smallest exists, and the CHOOSE is it.                         *)
LEMMA OrderStatisticIs ==
  ASSUME NEW S, Valued(S), NEW k \in Nat, k < Cardinality(S)
  PROVE  /\ OrderStatistic(S, k) \in {x.value : x \in S}
         /\ Cardinality(Below(S, OrderStatistic(S, k))) <= k
         /\ k < Cardinality(UpTo(S, OrderStatistic(S, k)))
<1> DEFINE T == {UpTo(S, x.value) : x \in {y \in S : k < Cardinality(UpTo(S, y.value))}}
<1>1. S # {}
  BY FS_EmptySet
<1>2. PICK top \in S : \A y \in S : y.value <= top.value
  BY <1>1, GreatestValue
<1>3. UpTo(S, top.value) = S
  BY <1>2 DEF UpTo
<1>4. T \in SUBSET (SUBSET S) /\ T # {}
  <2>1. UpTo(S, top.value) \in T
    BY <1>3
  <2> QED BY <2>1, CountsOfValues
<1>5. PICK a \in T : \A b \in T : ~(b \subseteq a /\ b # a)
  <2> HIDE DEF T
  <2> QED BY <1>4, LeastSubset DEF Valued
<1>6. PICK x \in S : a = UpTo(S, x.value) /\ k < Cardinality(UpTo(S, x.value))
  BY <1>5
<1> DEFINE L == Below(S, x.value)
<1>7. Cardinality(L) <= k
  <2>1. SUFFICES ASSUME ~(Cardinality(L) <= k) PROVE FALSE
    OBVIOUS
  <2>2. L \subseteq S /\ IsFiniteSet(L) /\ Cardinality(L) \in Nat /\ Valued(L)
    BY CountsOfValues DEF Valued
  <2>3. k < Cardinality(L) /\ L # {}
    BY <2>1, <2>2, FS_EmptySet
  <2>4. PICK u \in L : \A y \in L : y.value <= u.value
    BY <2>2, <2>3, GreatestValue
  <2>5. u \in S /\ u.value \in Int /\ x.value \in Int /\ u.value < x.value /\ \A z \in S : z.value \in Int
    BY <2>4, <2>2 DEF Valued, Below
  <2>6. UpTo(S, u.value) = L
    BY <2>4, <2>5 DEF UpTo, Below
  <2>7. UpTo(S, u.value) \in T
    BY <2>3, <2>5, <2>6
  <2>8. L \subseteq a /\ x \in a /\ x \notin L
    BY <1>6, <2>5 DEF UpTo, Below
  <2> QED BY <2>6, <2>7, <2>8, <1>5
<1> DEFINE isIt(v) == /\ Cardinality({y \in S : y.value < v}) <= k
                      /\ k < Cardinality({y \in S : y.value <= v})
<1>8. x.value \in {y.value : y \in S} /\ isIt(x.value)
  BY <1>6, <1>7 DEF Below, UpTo
<1>9. OrderStatistic(S, k) = CHOOSE v \in {y.value : y \in S} : isIt(v)
  BY DEF OrderStatistic
<1>10. OrderStatistic(S, k) \in {y.value : y \in S} /\ isIt(OrderStatistic(S, k))
  <2> HIDE DEF isIt
  <2> QED BY <1>8, <1>9
<1> QED BY <1>10 DEF Below, UpTo

(* One value; half of the set is not above it and half is not below it.    *)
LEMMA MedianIs ==
  ASSUME NEW S, Valued(S), S # {}
  PROVE  \E m \in Int : \E a, b \in {x.value : x \in S} :
           /\ Median(S) = {m} /\ a <= m /\ m <= b
           /\ Cardinality(S) <= 2 * Cardinality(UpTo(S, a))
           /\ 2 * Cardinality(Below(S, b)) <= Cardinality(S)
<1> DEFINE n == Cardinality(S)
           middle == n \div 2
           high == OrderStatistic(S, middle)
           low == OrderStatistic(S, middle - 1)
<1>1. n \in Nat /\ n # 0
  BY FS_CardinalityType, FS_EmptySet DEF Valued
<1>2. middle \in Nat /\ middle < n /\ (n % 2 = 1 => n = 2 * middle + 1) /\ (n % 2 # 1 => n = 2 * middle)
  BY <1>1
<1>3. /\ high \in {x.value : x \in S} /\ high \in Int
      /\ Cardinality(Below(S, high)) <= middle /\ middle < Cardinality(UpTo(S, high))
  <2>1. /\ high \in {x.value : x \in S}
        /\ Cardinality(Below(S, high)) <= middle /\ middle < Cardinality(UpTo(S, high))
    <3> HIDE DEF middle
    <3> QED BY <1>2, OrderStatisticIs
  <2> QED BY <2>1 DEF Valued
<1>4. Cardinality(Below(S, high)) \in Nat /\ Cardinality(UpTo(S, high)) \in Nat
  BY CountsOfValues
<1>5. CASE n % 2 = 1
  <2>1. Median(S) = {high}
    BY <1>1, <1>5 DEF Median
  <2>2. n <= 2 * Cardinality(UpTo(S, high)) /\ 2 * Cardinality(Below(S, high)) <= n
    <3> HIDE DEF middle, high, n
    <3> QED BY <1>1, <1>2, <1>3, <1>4, <1>5
  <2> QED BY <2>1, <2>2, <1>3
<1>6. CASE n % 2 # 1
  <2>1. Median(S) = {(low + high) \div 2}
    BY <1>1, <1>6 DEF Median
  <2>2. middle - 1 \in Nat /\ middle - 1 < n
    <3> HIDE DEF middle, n
    <3> QED BY <1>1, <1>2, <1>6
  <2>3. /\ low \in {x.value : x \in S} /\ low \in Int
        /\ Cardinality(Below(S, low)) <= middle - 1 /\ middle - 1 < Cardinality(UpTo(S, low))
    <3>1. /\ low \in {x.value : x \in S}
          /\ Cardinality(Below(S, low)) <= middle - 1 /\ middle - 1 < Cardinality(UpTo(S, low))
      <4> HIDE DEF middle
      <4> QED BY <2>2, OrderStatisticIs
    <3> QED BY <3>1 DEF Valued
  <2>4. Cardinality(Below(S, low)) \in Nat /\ Cardinality(UpTo(S, low)) \in Nat
    BY CountsOfValues
  <2>5. low <= high
    <3>1. SUFFICES ASSUME high < low PROVE FALSE
      BY <1>3, <2>3
    <3>2. UpTo(S, high) \subseteq Below(S, low)
      <4> HIDE DEF low, high
      <4> QED BY <3>1, <1>3, <2>3 DEF UpTo, Below, Valued
    <3>3. Cardinality(UpTo(S, high)) <= Cardinality(Below(S, low))
      BY <3>2, CountsOfValues, FS_Subset
    <3> HIDE DEF middle, low, high
    <3> QED BY <3>3, <1>2, <1>3, <1>4, <2>3, <2>4
  <2>6. (low + high) \div 2 \in Int /\ low <= (low + high) \div 2 /\ (low + high) \div 2 <= high
    <3> HIDE DEF low, high
    <3> QED BY <2>5, <1>3, <2>3
  <2>7. n <= 2 * Cardinality(UpTo(S, low)) /\ 2 * Cardinality(Below(S, high)) <= n
    <3> HIDE DEF middle, low, high, n
    <3> QED BY <1>1, <1>2, <1>3, <1>4, <1>6, <2>3, <2>4
  <2> QED BY <2>1, <2>3, <2>6, <2>7, <1>3
<1> QED BY <1>5, <1>6

(* What a majority says has the median in its range.                       *)
LEMMA MajorityBrackets ==
  ASSUME NEW S, Valued(S), NEW O \in SUBSET S, 2 * Cardinality(S \ O) < Cardinality(S),
         NEW m, m \in Median(S)
  PROVE  m \in Int /\ (\E o \in O : o.value <= m) /\ (\E o \in O : m <= o.value)
<1>1. IsFiniteSet(O) /\ IsFiniteSet(S \ O) /\ Cardinality(O) \in Nat /\ Cardinality(S \ O) \in Nat
  BY FS_Subset, FS_CardinalityType DEF Valued
<1>2. Cardinality(S) = Cardinality(O) + Cardinality(S \ O)
  <2>1. S = O \cup (S \ O) /\ O \cap (S \ O) = {}
    OBVIOUS
  <2>2. Cardinality(O \cup (S \ O)) = Cardinality(O) + Cardinality(S \ O) - Cardinality(O \cap (S \ O))
    BY <1>1, FS_Union
  <2>3. Cardinality(O \cup (S \ O)) = Cardinality(S) /\ Cardinality(O \cap (S \ O)) = 0
    BY <2>1, FS_EmptySet
  <2> QED BY <2>2, <2>3, <1>1
<1>3. S # {}
  BY FS_EmptySet, <1>1
<1>4. PICK w \in Int : \E a, b \in {x.value : x \in S} :
        /\ Median(S) = {w} /\ a <= w /\ w <= b
        /\ Cardinality(S) <= 2 * Cardinality(UpTo(S, a))
        /\ 2 * Cardinality(Below(S, b)) <= Cardinality(S)
  BY <1>3, MedianIs
<1>5. PICK a, b \in {x.value : x \in S} :
        /\ Median(S) = {w} /\ a <= w /\ w <= b
        /\ Cardinality(S) <= 2 * Cardinality(UpTo(S, a))
        /\ 2 * Cardinality(Below(S, b)) <= Cardinality(S)
  BY <1>4
<1>6. m = w /\ m \in Int /\ a \in Int /\ b \in Int /\ \A x \in S : x.value \in Int
  BY <1>4, <1>5 DEF Valued
<1>7. \E o \in O : o.value <= a
  <2>1. SUFFICES ASSUME \A o \in O : ~(o.value <= a) PROVE FALSE
    OBVIOUS
  <2>2. UpTo(S, a) \subseteq S \ O
    BY <2>1 DEF UpTo
  <2>3. Cardinality(UpTo(S, a)) <= Cardinality(S \ O)
    BY <2>2, <1>1, FS_Subset
  <2>4. Cardinality(UpTo(S, a)) \in Nat
    BY CountsOfValues
  <2> QED BY <2>3, <2>4, <1>1, <1>2, <1>5
<1>8. \E o \in O : b <= o.value
  <2>1. SUFFICES ASSUME \A o \in O : ~(b <= o.value) PROVE FALSE
    OBVIOUS
  <2>2. O \subseteq Below(S, b)
    BY <2>1, <1>6 DEF Below
  <2>3. Cardinality(O) <= Cardinality(Below(S, b)) /\ Cardinality(Below(S, b)) \in Nat
    BY <2>2, CountsOfValues, FS_Subset
  <2> QED BY <2>3, <1>1, <1>2, <1>5
<1> QED BY <1>5, <1>6, <1>7, <1>8

-----------------------------------------------------------------------------
(***************************************************************************)
(* One interval: an operator has one vote, and a sensor one verdict.       *)
(***************************************************************************)
(* An image is no larger than what it is the image of, and as large if     *)
(* nothing falls together.                                                 *)
LEMMA SizeOfImage ==
  ASSUME NEW S, IsFiniteSet(S), NEW f
  PROVE  /\ IsFiniteSet({f[x] : x \in S}) /\ Cardinality({f[x] : x \in S}) \in Nat
         /\ Cardinality({f[x] : x \in S}) <= Cardinality(S)
         /\ (\A x, y \in S : f[x] = f[y] => x = y) => Cardinality({f[x] : x \in S}) = Cardinality(S)
<1> DEFINE T == {f[x] : x \in S}
           g == [x \in S |-> f[x]]
<1>1. g \in Surjection(S, T)
  BY DEF Surjection
<1>2. /\ IsFiniteSet(T) /\ Cardinality(T) <= Cardinality(S)
      /\ Cardinality(T) = Cardinality(S) <=> g \in Injection(S, T)
  BY <1>1, FS_Surjection
<1>3. (\A x, y \in S : f[x] = f[y] => x = y) => g \in Injection(S, T)
  <2>1. g \in [S -> T]
    OBVIOUS
  <2>2. \A x \in S : g[x] = f[x]
    OBVIOUS
  <2> HIDE DEF g, T
  <2> QED BY <2>1, <2>2 DEF Injection, IsInjective
<1> QED BY <1>2, <1>3, FS_CardinalityType

(* The readings a worker counts in a cell: a slot is one sensor's.         *)
AreReadings(R) ==
  /\ IsFiniteSet(R)
  /\ \A r \in R : /\ r.sensor \in Sensors /\ r.operator = OperatorOf[r.sensor]
                  /\ r.slot \in Slots /\ r.value \in Int
  /\ \A r, q \in R : r.slot = q.slot => r.sensor = q.sensor

LEMMA PartsOfReadings ==
  ASSUME NEW R, AreReadings(R), NEW Q \in SUBSET R
  PROVE  AreReadings(Q) /\ Valued(Q)
BY FS_Subset DEF AreReadings, Valued

LEMMA SomeMedian ==
  ASSUME NEW S, Valued(S), S # {}
  PROVE  /\ Median(S) = {Some(Median(S))} /\ Some(Median(S)) \in Int
         /\ (\A x \in S : x.value >= 0) => Some(Median(S)) >= 0
<1>1. PICK m \in Int : \E a, b \in {x.value : x \in S} : Median(S) = {m} /\ a <= m
  BY MedianIs
<1>2. PICK a \in {x.value : x \in S} : Median(S) = {m} /\ a <= m
  BY <1>1
<1>3. Some({m}) = m
  BY DEF Some
<1>4. a \in Int /\ ((\A x \in S : x.value >= 0) => a >= 0)
  BY <1>2 DEF Valued
<1> QED BY <1>1, <1>2, <1>3, <1>4

(* An operator has one vote, of an integer.                                *)
LEMMA OperatorsVoteOnce ==
  ASSUME NEW R, AreReadings(R)
  PROVE  /\ Valued(Votes(R))
         /\ IsFiniteSet(OperatorsOf(R)) /\ Cardinality(OperatorsOf(R)) \in Nat
         /\ Cardinality(Votes(R)) = Cardinality(OperatorsOf(R))
         /\ {v.operator : v \in Votes(R)} = OperatorsOf(R)
         /\ \A v, w \in Votes(R) : v.operator = w.operator => v = w
         /\ (\A r \in R : r.value >= 0) => \A v \in Votes(R) : v.value >= 0
<1> DEFINE own(o) == {r \in R : r.operator = o}
           vote == [o \in OperatorsOf(R) |->
                      [operator |-> o, sensor |-> {r.sensor : r \in {x \in R : x.operator = o}},
                       value |-> Some(Median({r \in R : r.operator = o}))]]
<1>1. Votes(R) = {vote[o] : o \in OperatorsOf(R)}
  BY DEF Votes
<1>2. IsFiniteSet(R)
  BY DEF AreReadings
<1>3. IsFiniteSet(OperatorsOf(R)) /\ Cardinality(OperatorsOf(R)) \in Nat
  <2> DEFINE whose == [r \in R |-> r.operator]
  <2>1. OperatorsOf(R) = {whose[r] : r \in R}
    BY DEF OperatorsOf
  <2>2. IsFiniteSet({whose[r] : r \in R}) /\ Cardinality({whose[r] : r \in R}) \in Nat
    <3> HIDE DEF whose
    <3> QED BY <1>2, SizeOfImage
  <2> QED BY <2>1, <2>2
<1>4. ASSUME NEW o \in OperatorsOf(R)
      PROVE  /\ vote[o].operator = o /\ vote[o].value \in Int
             /\ (\A r \in R : r.value >= 0) => vote[o].value >= 0
  <2>1. Valued(own(o)) /\ own(o) # {} /\ own(o) \subseteq R
    BY PartsOfReadings DEF OperatorsOf
  <2>2. Some(Median(own(o))) \in Int /\ ((\A r \in R : r.value >= 0) => Some(Median(own(o))) >= 0)
    <3> HIDE DEF own
    <3> QED BY <2>1, SomeMedian
  <2> QED BY <2>2
<1>5. Valued(Votes(R)) /\ Cardinality(Votes(R)) = Cardinality(OperatorsOf(R))
  <2> HIDE DEF vote
  <2>1. \A o, q \in OperatorsOf(R) : vote[o] = vote[q] => o = q
    BY <1>4
  <2>2. IsFiniteSet({vote[o] : o \in OperatorsOf(R)})
        /\ Cardinality({vote[o] : o \in OperatorsOf(R)}) = Cardinality(OperatorsOf(R))
    BY <2>1, <1>3, SizeOfImage
  <2> QED BY <2>2, <1>1, <1>4 DEF Valued
<1>6. {v.operator : v \in Votes(R)} = OperatorsOf(R)
  <2> HIDE DEF vote
  <2> QED BY <1>1, <1>4
<1>7. \A v, w \in Votes(R) : v.operator = w.operator => v = w
  <2> HIDE DEF vote
  <2> QED BY <1>1, <1>4
<1>8. (\A r \in R : r.value >= 0) => \A v \in Votes(R) : v.value >= 0
  <2> HIDE DEF vote
  <2> QED BY <1>1, <1>4
<1> QED BY <1>3, <1>5, <1>6, <1>7, <1>8

(* MinoritiesStayInRange, of one interval.                                 *)
LEMMA MinorityInRange ==
  ASSUME NEW R, AreReadings(R), NEW m \in CloseInterval(R).median,
         NEW group \in SUBSET {v.operator : v \in Votes(R)},
         2 * Cardinality(group) < Cardinality({v.operator : v \in Votes(R)})
  PROVE  LET others == {v.value : v \in {x \in Votes(R) : x.operator \notin group}} IN
         (\E v \in others : v <= m) /\ (\E v \in others : m <= v)
<1> DEFINE W == Votes(R)
           O == {x \in W : x.operator \notin group}
<1>1. m \in Median(W)
  BY DEF CloseInterval, CellMedian
<1>2. /\ Valued(W) /\ IsFiniteSet(OperatorsOf(R)) /\ Cardinality(W) = Cardinality(OperatorsOf(R))
      /\ {v.operator : v \in W} = OperatorsOf(R) /\ \A v, w \in W : v.operator = w.operator => v = w
  BY OperatorsVoteOnce
<1> HIDE DEF W
<1>3. Cardinality(W \ O) <= Cardinality(group) /\ Cardinality(W \ O) \in Nat /\ Cardinality(group) \in Nat
  <2> DEFINE theirs == [v \in W \ O |-> v.operator]
             named == {theirs[v] : v \in W \ O}
  <2>1. IsFiniteSet(W \ O) /\ IsFiniteSet(group)
    <3>1. W \ O \in SUBSET W /\ group \in SUBSET OperatorsOf(R) /\ IsFiniteSet(W)
      BY <1>2 DEF Valued, W
    <3> HIDE DEF O
    <3> QED BY <3>1, <1>2, FS_Subset
  <2>2. \A v, w \in W \ O : theirs[v] = theirs[w] => v = w
    BY <1>2
  <2>3. named \subseteq group
    OBVIOUS
  <2>4. Cardinality(named) = Cardinality(W \ O)
    <3> HIDE DEF theirs
    <3> QED BY <2>1, <2>2, SizeOfImage
  <2>5. Cardinality(named) <= Cardinality(group)
    <3> HIDE DEF named
    <3> QED BY <2>1, <2>3, FS_Subset
  <2> QED BY <2>1, <2>4, <2>5, FS_CardinalityType
<1>4. 2 * Cardinality(W \ O) < Cardinality(W)
  <2>1. 2 * Cardinality(group) < Cardinality(W)
    BY <1>2 DEF W
  <2>2. Cardinality(W) \in Nat
    BY <1>2, FS_CardinalityType DEF Valued
  <2> HIDE DEF O
  <2> QED BY <2>1, <2>2, <1>3
<1>5. (\E o \in O : o.value <= m) /\ (\E o \in O : m <= o.value)
  <2>1. O \in SUBSET W
    OBVIOUS
  <2> HIDE DEF O
  <2> QED BY <2>1, <1>1, <1>2, <1>4, MajorityBrackets
<1> QED BY <1>5 DEF W

(* A division leaves less than the divisor.                                *)
LEMMA DivisionDust ==
  ASSUME NEW p \in Nat, NEW k \in Nat \ {0}
  PROVE  p \div k \in Nat /\ k * (p \div k) <= p /\ p - k * (p \div k) < k
<1> DEFINE q == p \div k
           r == p % k
<1>1. q \in Int /\ r \in 0 .. k - 1
  OBVIOUS
<1>2. p = k * q + r
  OBVIOUS
<1>3. q \in Nat
  OBVIOUS
<1> HIDE DEF q, r
<1>4. k * q \in Int
  BY <1>1
<1>5. k * q <= p /\ p - k * q < k
  BY <1>1, <1>2, <1>4
<1> QED BY <1>3, <1>5 DEF q

(* PaidByTheVote, of one interval.                                         *)
LEMMA PayIsShared ==
  ASSUME NEW verdicts, Accepted(verdicts) \in SUBSET Sensors
  PROVE  LET who      == [s \in Sensors |-> [operator |-> OperatorOf[s]]]
             paid(o)  == SumFunction([s \in {x \in Accepted(verdicts) : OperatorOf[x] = o} |->
                                        IntervalWeight(verdicts, who, s)])
             earning  == {OperatorOf[s] : s \in Accepted(verdicts)} IN
         /\ SumFunction([o \in earning |-> paid(o)]) <= WeightUnit
         /\ \A o, q \in earning : Magnitude(paid(o) - paid(q)) < Cardinality(Sensors)
<1> DEFINE A == Accepted(verdicts)
           who == [s \in Sensors |-> [operator |-> OperatorOf[s]]]
           own(o) == {x \in A : OperatorOf[x] = o}
           weights(o) == [s \in own(o) |-> IntervalWeight(verdicts, who, s)]
           paid(o) == SumFunction(weights(o))
           earning == {OperatorOf[s] : s \in A}
           perVote == WeightUnit \div Cardinality(earning)
<1>1. IsFiniteSet(Sensors) /\ IsFiniteSet(A) /\ Cardinality(Sensors) \in Nat /\ WeightUnit \in Nat
  BY DayCloseAssumption, AggregateAssumption, FS_Subset, FS_CardinalityType
<1>2. IsFiniteSet(earning) /\ Cardinality(earning) \in Nat
  <2> DEFINE name == [s \in A |-> OperatorOf[s]]
  <2>1. earning = {name[s] : s \in A}
    OBVIOUS
  <2> HIDE DEF name, A, earning
  <2> QED BY <1>1, <2>1, SizeOfImage
<1>3. \A s \in A : IntervalWeight(verdicts, who, s) = perVote \div Cardinality(own(OperatorOf[s]))
  <2> SUFFICES ASSUME NEW s \in A PROVE IntervalWeight(verdicts, who, s) = perVote \div Cardinality(own(OperatorOf[s]))
    OBVIOUS
  <2>1. \A x \in A : who[x].operator = OperatorOf[x]
    OBVIOUS
  <2>2. {who[x].operator : x \in A} = earning /\ {x \in A : who[x].operator = who[s].operator} = own(OperatorOf[s])
    BY <2>1
  <2> HIDE DEF who
  <2> QED BY <2>2 DEF IntervalWeight
<1>4. ASSUME NEW o \in earning
      PROVE  /\ IsFiniteSet(own(o)) /\ Cardinality(own(o)) \in Nat \ {0}
             /\ Cardinality(own(o)) <= Cardinality(Sensors)
             /\ perVote \in Nat
  <2>1. IsFiniteSet(own(o)) /\ own(o) # {} /\ own(o) \in SUBSET Sensors
    <3>1. own(o) # {} /\ own(o) \in SUBSET Sensors /\ own(o) \in SUBSET A
      OBVIOUS
    <3> HIDE DEF own, A
    <3> QED BY <1>1, <3>1, FS_Subset
  <2>2. Cardinality(own(o)) \in Nat \ {0} /\ Cardinality(own(o)) <= Cardinality(Sensors)
    <3> HIDE DEF own
    <3> QED BY <1>1, <2>1, FS_Subset, FS_EmptySet, FS_CardinalityType
  <2>3. Cardinality(earning) # 0
    <3> HIDE DEF earning
    <3> QED BY <1>2, FS_EmptySet
  <2>4. perVote \in Nat
    <3> HIDE DEF earning
    <3> QED BY <1>1, <1>2, <2>3, DivisionDust
  <2> QED BY <2>1, <2>2, <2>4
<1>5. ASSUME NEW o \in earning
      PROVE  paid(o) \in Nat /\ paid(o) <= perVote /\ perVote - paid(o) < Cardinality(Sensors)
  <2> DEFINE k == Cardinality(own(o))
             each == perVote \div k
  <2>1. each \in Nat /\ k * each <= perVote /\ perVote - k * each < k
    <3> HIDE DEF own, perVote
    <3> QED BY <1>4, DivisionDust
  <2>2. \A s \in own(o) : weights(o)[s] = each
    <3>1. \A s \in own(o) : s \in A /\ OperatorOf[s] = o
      OBVIOUS
    <3> HIDE DEF own, perVote, A, who
    <3> QED BY <3>1, <1>3
  <2>3. paid(o) = SumFunctionOnSet(weights(o), own(o))
    BY DEF SumFunction
  <2>4. SumFunctionOnSet(weights(o), own(o)) = k * each
    <3> HIDE DEF own, weights, each
    <3> QED BY <1>4, <2>1, <2>2, SumOfConstant
  <2>5. k * each \in Nat /\ k \in Nat /\ k <= Cardinality(Sensors)
    <3> HIDE DEF each, own
    <3> QED BY <1>4, <2>1
  <2> DEFINE total == k * each
  <2> HIDE DEF k, each, paid, perVote, total
  <2>6. total \in Nat /\ total <= perVote /\ perVote - total < k /\ paid(o) = total
    BY <2>1, <2>3, <2>4, <2>5 DEF total
  <2>7. perVote \in Nat
    BY <1>4
  <2>8. paid(o) \in Nat /\ paid(o) <= perVote /\ perVote - paid(o) < Cardinality(Sensors)
    BY <2>5, <2>6, <2>7, <1>1
  <2> QED BY <2>8 DEF perVote, paid
<1>6. \A o, q \in earning : Magnitude(paid(o) - paid(q)) < Cardinality(Sensors)
  <2> SUFFICES ASSUME NEW o \in earning, NEW q \in earning
               PROVE  Magnitude(paid(o) - paid(q)) < Cardinality(Sensors)
    OBVIOUS
  <2> HIDE DEF paid, perVote, earning
  <2>1. paid(o) \in Nat /\ paid(o) <= perVote /\ perVote - paid(o) < Cardinality(Sensors)
    BY <1>5
  <2>2. paid(q) \in Nat /\ paid(q) <= perVote /\ perVote - paid(q) < Cardinality(Sensors)
    BY <1>5
  <2>3. perVote \in Nat
    BY <1>4
  <2> QED BY <2>1, <2>2, <2>3, <1>1 DEF Magnitude
<1>7. SumFunction([o \in earning |-> paid(o)]) <= WeightUnit
  <2> DEFINE pays == [o \in earning |-> paid(o)]
             most == [o \in earning |-> perVote]
  <2>1. SumFunction(pays) = SumFunctionOnSet(pays, earning)
    BY DEF SumFunction
  <2>2. CASE earning = {}
    <3>1. SumFunction(pays) <= WeightUnit
      <4> HIDE DEF pays, earning
      <4> QED BY <2>1, <2>2, <1>1, SumOfNone
    <3> QED BY <3>1
  <2>3. CASE earning # {}
    <3>1. PICK one \in earning : TRUE
      BY <2>3
    <3>2. perVote \in Nat
      BY <3>1, <1>4
    <3>3. \A o \in earning : pays[o] \in Nat /\ most[o] \in Nat /\ pays[o] <= most[o] /\ most[o] = perVote
      <4> HIDE DEF paid, perVote
      <4> QED BY <1>5, <3>2
    <3>4. SumFunctionOnSet(pays, earning) <= SumFunctionOnSet(most, earning)
      <4> HIDE DEF pays, most, earning
      <4> QED BY <3>3, <1>2, SumOfLess
    <3>5. SumFunctionOnSet(most, earning) = Cardinality(earning) * perVote
      <4> HIDE DEF most, perVote, earning
      <4> QED BY <3>2, <3>3, <1>2, SumOfConstant
    <3>6. Cardinality(earning) # 0
      <4> HIDE DEF earning
      <4> QED BY <2>3, <1>2, FS_EmptySet
    <3>7. Cardinality(earning) * perVote <= WeightUnit
      <4> HIDE DEF earning
      <4> QED BY <3>6, <1>1, <1>2, DivisionDust
    <3>8. SumFunctionOnSet(pays, earning) \in Nat /\ Cardinality(earning) * perVote \in Nat
      <4>1. SumFunctionOnSet(pays, earning) \in Nat
        <5> HIDE DEF pays, earning
        <5> QED BY <3>3, <1>2, SumType
      <4> HIDE DEF earning, perVote
      <4> QED BY <4>1, <3>2, <1>2
    <3>9. SumFunction(pays) <= WeightUnit
      <4> HIDE DEF pays, most, earning, perVote
      <4> QED BY <2>1, <3>4, <3>5, <3>7, <3>8, <1>1
    <3> QED BY <3>9
  <2> QED BY <2>2, <2>3
<1> QED BY <1>6, <1>7

-----------------------------------------------------------------------------
(***************************************************************************)
(* The network a day is closed over.                                       *)
(***************************************************************************)
Rows == [cell : Places, slot : Slots, previousCell : Places \cup {Never},
         previousSlot : Slots \cup {Never}, movedAt : Nat \cup {Never}, votes : BOOLEAN]

(* A sensor that has moved has left another cell, and a slot in it.        *)
RowsExplainMoves(table) ==
  \A s \in Sensors :
    /\ (table[s].previousCell = Never <=> table[s].movedAt = Never)
    /\ table[s].movedAt # Never => /\ table[s].previousCell # table[s].cell
                                  /\ table[s].previousSlot \in Slots
                                  /\ table[s].movedAt <= moment

(* The slots a sensor has in a cell: its own, and one it left.             *)
Holds(row, cell, slot) ==
  \/ row.cell = cell /\ row.slot = slot
  \/ row.previousCell = cell /\ row.previousSlot = slot

SlotsAreOwned(table) ==
  \A s \in Sensors, cell \in Places, slot \in Slots : Holds(table[s], cell, slot) =>
    /\ slot < sensorCount[cell]
    /\ \A t \in Sensors \ {s} : ~Holds(table[t], cell, slot)

NetworkOK ==
  /\ registry \in [Sensors -> Rows] /\ mirrored \in [Sensors -> Rows]
  /\ sensorCount \in [Places -> 0 .. MaxSlots]
  /\ readAt \in Nat /\ moment \in Nat /\ readAt <= moment
  /\ IsFiniteSet(reports)
  /\ \A r \in reports : /\ r.sensor \in Sensors /\ r.cell \in Places /\ r.value \in Gauges
                        /\ r.at \in Nat /\ r.at <= moment

NetworkInv ==
  /\ NetworkOK
  /\ RowsExplainMoves(registry) /\ RowsExplainMoves(mirrored)
  /\ SlotsAreOwned(registry) /\ SlotsAreOwned(mirrored)

LEMMA PlacesAreNumbers == Places \subseteq Nat /\ Never \notin Places /\ Never \notin Nat /\ Never \notin Slots
BY DayCloseAssumption DEF Places, Never, Slots

LEMMA NetworkInit == ASSUME DayCloseInit PROVE NetworkInv
<1> USE DayCloseAssumption, AggregateAssumption, PlacesAreNumbers DEF DayCloseInit, DayCloseFrom
<1>1. \A s \in Sensors :
        /\ registry[s] = [cell |-> Registered[s].cell, slot |-> Registered[s].slot, previousCell |-> Never,
                          previousSlot |-> Never, movedAt |-> Never, votes |-> TRUE]
        /\ registry[s] \in Rows
  BY DEF Rows, Places, Slots
<1>2. registry \in [Sensors -> Rows] /\ mirrored = registry
  BY <1>1
<1>3. sensorCount \in [Places -> 0 .. MaxSlots]
  BY DEF Places
<1>4. RowsExplainMoves(registry)
  BY <1>1 DEF RowsExplainMoves
<1>5. SlotsAreOwned(registry)
  BY <1>1 DEF SlotsAreOwned, Holds, Places
<1>6. NetworkOK
  BY <1>2, <1>3, FS_EmptySet DEF NetworkOK
<1> QED BY <1>2, <1>4, <1>5, <1>6 DEF NetworkInv

LEMMA NetworkOfReport ==
  ASSUME NetworkInv, NEW s \in Sensors, NEW v \in Gauges, NEW at \in Moments, Report(s, v, at)
  PROVE  NetworkInv'
<1> USE DEF Report
<1>1. IsFiniteSet(reports')
  BY FS_AddElement DEF NetworkInv, NetworkOK
<1>2. \A r \in reports' : /\ r.sensor \in Sensors /\ r.cell \in Places /\ r.value \in Gauges
                          /\ r.at \in Nat /\ r.at <= moment
  BY DEF NetworkInv, NetworkOK, Rows, Moments
<1> QED BY <1>1, <1>2 DEF NetworkInv, NetworkOK, RowsExplainMoves, SlotsAreOwned

LEMMA NetworkOfMove ==
  ASSUME NetworkInv, NEW s \in Sensors, NEW to \in Places, MoveSensor(s, to)
  PROVE  NetworkInv'
<1> USE AggregateAssumption, PlacesAreNumbers
<1> DEFINE row == registry[s]
           moved == [row EXCEPT !.cell = to, !.slot = sensorCount[to], !.previousCell = row.cell,
                                !.previousSlot = row.slot, !.movedAt = moment]
<1>1. /\ row \in Rows /\ to # row.cell /\ sensorCount[to] < MaxSlots /\ moment \in Nat
      /\ sensorCount[to] \in Nat
  BY DEF NetworkInv, NetworkOK, MoveSensor
<1>2. registry' = [registry EXCEPT ![s] = moved]
  BY DEF MoveSensor, NetworkInv, NetworkOK
<1>3. /\ moved.cell = to /\ moved.slot = sensorCount[to] /\ moved.previousCell = row.cell
      /\ moved.previousSlot = row.slot /\ moved.movedAt = moment /\ moved \in Rows
  <2>1. sensorCount[to] \in Slots
    BY <1>1 DEF Slots
  <2> HIDE DEF row
  <2>2. row.cell \in Places /\ row.slot \in Slots
    BY <1>1 DEF Rows
  <2>3. moved \in Rows
    BY <1>1, <2>1, <2>2 DEF Rows
  <2>4. moved.cell = to /\ moved.slot = sensorCount[to] /\ moved.movedAt = moment
    BY <1>1, <2>2 DEF Rows
  <2>5. moved.previousCell = row.cell /\ moved.previousSlot = row.slot
    BY <1>1, <2>2 DEF Rows
  <2> HIDE DEF moved
  <2> QED BY <2>3, <2>4, <2>5
<1> HIDE DEF moved
<1>4. \A t \in Sensors : registry'[t] = IF t = s THEN moved ELSE registry[t]
  BY <1>2 DEF NetworkInv, NetworkOK
<1>5. /\ sensorCount' \in [Places -> 0 .. MaxSlots]
      /\ \A c \in Places : sensorCount'[c] = IF c = to THEN sensorCount[c] + 1 ELSE sensorCount[c]
  BY <1>1 DEF MoveSensor, NetworkInv, NetworkOK
<1>6. NetworkOK'
  <2>1. registry' \in [Sensors -> Rows]
    BY <1>2, <1>3 DEF NetworkInv, NetworkOK
  <2> QED BY <2>1, <1>5 DEF NetworkInv, NetworkOK, MoveSensor
<1>7. RowsExplainMoves(registry)'
  <2> SUFFICES ASSUME NEW t \in Sensors
               PROVE  /\ (registry'[t].previousCell = Never <=> registry'[t].movedAt = Never)
                      /\ registry'[t].movedAt # Never => /\ registry'[t].previousCell # registry'[t].cell
                                                         /\ registry'[t].previousSlot \in Slots
                                                         /\ registry'[t].movedAt <= moment
    BY DEF RowsExplainMoves, MoveSensor
  <2>1. CASE t = s
    <3>1. row.cell \in Places /\ row.slot \in Slots
      BY <1>1 DEF Rows
    <3> HIDE DEF row
    <3> QED BY <2>1, <3>1, <1>1, <1>3, <1>4
  <2>2. CASE t # s
    BY <2>2, <1>4 DEF NetworkInv, RowsExplainMoves
  <2> QED BY <2>1, <2>2
<1>8. RowsExplainMoves(mirrored)'
  BY DEF NetworkInv, RowsExplainMoves, MoveSensor
<1>9. SlotsAreOwned(mirrored)'
  BY <1>5 DEF NetworkInv, NetworkOK, SlotsAreOwned, MoveSensor, Slots
<1>10. SlotsAreOwned(registry)'
  <2> SUFFICES ASSUME NEW t \in Sensors, NEW c \in Places, NEW slot \in Slots, Holds(registry'[t], c, slot)
               PROVE  slot < sensorCount'[c] /\ \A u \in Sensors \ {t} : ~Holds(registry'[u], c, slot)
    BY DEF SlotsAreOwned
  <2>1. \A u \in Sensors : Holds(registry[u], c, slot) =>
          slot < sensorCount[c] /\ \A w \in Sensors \ {u} : ~Holds(registry[w], c, slot)
    BY DEF NetworkInv, SlotsAreOwned
  <2>2. \A u \in Sensors : Holds(registry'[u], c, slot) =>
          Holds(registry[u], c, slot) \/ (u = s /\ c = to /\ slot = sensorCount[to])
    BY <1>3, <1>4 DEF Holds
  <2>3. slot \in Nat /\ sensorCount[c] \in Nat
    BY DEF Slots, NetworkInv, NetworkOK
  <2>4. sensorCount[to] <= sensorCount'[to] /\ sensorCount[c] <= sensorCount'[c]
    BY <1>1, <1>5, <2>3
  <2>5. slot < sensorCount'[c]
    <3>1. CASE Holds(registry[t], c, slot)
      BY <1>5, <2>1, <2>3, <2>4, <3>1
    <3>2. CASE c = to /\ slot = sensorCount[to]
      BY <1>1, <1>5, <3>2
    <3> QED BY <2>2, <3>1, <3>2
  <2>6. ASSUME NEW u \in Sensors \ {t}, Holds(registry'[u], c, slot) PROVE FALSE
    <3>1. CASE Holds(registry[t], c, slot) /\ Holds(registry[u], c, slot)
      BY <2>1, <3>1
    <3>2. CASE c = to /\ slot = sensorCount[to] /\ (Holds(registry[t], c, slot) \/ Holds(registry[u], c, slot))
      <4>1. slot < sensorCount[to]
        BY <2>1, <3>2
      <4> QED BY <2>3, <3>2, <4>1
    <3> QED BY <2>2, <2>6, <3>1, <3>2
  <2> QED BY <2>5, <2>6
<1> QED BY <1>6, <1>7, <1>8, <1>9, <1>10 DEF NetworkInv

LEMMA NetworkOfOthers ==
  ASSUME NetworkInv, (\E s \in Sensors : StopVoting(s)) \/ MirrorRegistry \/ Advance \/ UNCHANGED <<network, moment>>
  PROVE  NetworkInv'
<1>1. ASSUME NEW s \in Sensors, StopVoting(s) PROVE NetworkInv'
  <2>1. registry' \in [Sensors -> Rows] /\ \A t \in Sensors :
          /\ registry'[t].cell = registry[t].cell /\ registry'[t].slot = registry[t].slot
          /\ registry'[t].previousCell = registry[t].previousCell
          /\ registry'[t].previousSlot = registry[t].previousSlot
          /\ registry'[t].movedAt = registry[t].movedAt
    <3> DEFINE row == registry[s]
               stopped == [row EXCEPT !.votes = FALSE]
    <3>1. registry \in [Sensors -> Rows] /\ row \in Rows /\ registry' = [registry EXCEPT ![s] = stopped]
      BY <1>1 DEF StopVoting, NetworkInv, NetworkOK
    <3>2. /\ stopped \in Rows /\ stopped.cell = row.cell /\ stopped.slot = row.slot
          /\ stopped.previousCell = row.previousCell /\ stopped.previousSlot = row.previousSlot
          /\ stopped.movedAt = row.movedAt
      <4> HIDE DEF row
      <4> QED BY <3>1 DEF Rows
    <3> HIDE DEF stopped
    <3> QED BY <3>1, <3>2
  <2>2. NetworkOK'
    BY <2>1, <1>1 DEF StopVoting, NetworkInv, NetworkOK
  <2>3. RowsExplainMoves(registry)' /\ RowsExplainMoves(mirrored)'
    BY <2>1, <1>1 DEF StopVoting, NetworkInv, RowsExplainMoves
  <2>4. SlotsAreOwned(registry)' /\ SlotsAreOwned(mirrored)'
    BY <2>1, <1>1 DEF StopVoting, NetworkInv, SlotsAreOwned, Holds
  <2> QED BY <2>2, <2>3, <2>4 DEF NetworkInv
<1>2. ASSUME MirrorRegistry PROVE NetworkInv'
  BY <1>2 DEF MirrorRegistry, NetworkInv, NetworkOK, RowsExplainMoves, SlotsAreOwned
<1>3. ASSUME Advance PROVE NetworkInv'
  <2>1. NetworkOK'
    BY <1>3 DEF Advance, network, NetworkInv, NetworkOK
  <2>2. RowsExplainMoves(registry)' /\ RowsExplainMoves(mirrored)'
    BY <1>3 DEF Advance, network, NetworkInv, NetworkOK, RowsExplainMoves, Rows
  <2> QED BY <2>1, <2>2, <1>3 DEF Advance, network, NetworkInv, SlotsAreOwned
<1>4. ASSUME UNCHANGED <<network, moment>> PROVE NetworkInv'
  BY <1>4 DEF network, NetworkInv, NetworkOK, RowsExplainMoves, SlotsAreOwned
<1> QED BY <1>1, <1>2, <1>3, <1>4

LEMMA CloseLeavesNetwork == ASSUME CloseCellDay \/ UNCHANGED dayCloseVars PROVE UNCHANGED <<network, moment>>
BY DEF CloseCellDay, BeginDay, SaveIntervals, ReplaceDayVerdicts, SaveDay, Submit, SubmitUnanswered,
       MarkDaySubmitted, AbandonDay, dayCloseVars, tables, network

LEMMA NetworkStep ==
  ASSUME NetworkInv, [DayCloseNext]_dayCloseVars
  PROVE  NetworkInv'
BY NetworkOfReport, NetworkOfMove, NetworkOfOthers, CloseLeavesNetwork DEF DayCloseNext

-----------------------------------------------------------------------------
(***************************************************************************)
(* What a pass starts with.                                                *)
(***************************************************************************)
ReadingsOf(cell, day) == {AsVote(r) : r \in AcceptedHere(cell, day)}

LEMMA ReadingsAreCounted ==
  ASSUME NetworkInv, NEW cell \in Places, NEW day
  PROVE  /\ AreReadings(ReadingsOf(cell, day))
         /\ \A v \in ReadingsOf(cell, day) : v.slot < sensorCount[cell] /\ v.value \in Gauges
<1>1. ASSUME NEW r \in AcceptedHere(cell, day)
      PROVE  /\ AsVote(r).sensor = r.sensor /\ r.sensor \in Sensors
             /\ AsVote(r).operator = OperatorOf[r.sensor] /\ AsVote(r).value = r.value /\ r.value \in Gauges
             /\ AsVote(r).slot \in Slots /\ AsVote(r).slot < sensorCount[cell]
             /\ Holds(mirrored[r.sensor], cell, AsVote(r).slot)
  <2> DEFINE row == mirrored[r.sensor]
  <2>1. r \in reports /\ r.cell = cell /\ (row.cell = cell \/ row.previousCell = cell)
    BY DEF AcceptedHere
  <2>2. r.sensor \in Sensors /\ r.value \in Gauges /\ row \in Rows
    BY <2>1 DEF NetworkInv, NetworkOK
  <2>3. row.previousCell = cell => row.previousSlot \in Slots
    BY <2>2, PlacesAreNumbers DEF NetworkInv, RowsExplainMoves
  <2>4. AsVote(r).slot = IF row.cell = cell THEN row.slot ELSE row.previousSlot
    BY <2>1 DEF AsVote
  <2>5. AsVote(r).slot \in Slots /\ Holds(row, cell, AsVote(r).slot)
    <3> HIDE DEF row
    <3> QED BY <2>1, <2>2, <2>3, <2>4 DEF Holds, Rows
  <2>6. AsVote(r).slot < sensorCount[cell]
    BY <2>2, <2>5 DEF NetworkInv, SlotsAreOwned
  <2>7. /\ AsVote(r).sensor = r.sensor /\ AsVote(r).operator = OperatorOf[r.sensor]
        /\ AsVote(r).value = r.value
    BY DEF AsVote
  <2> QED BY <2>2, <2>5, <2>6, <2>7
<1>2. IsFiniteSet(ReadingsOf(cell, day))
  <2> DEFINE vote == [r \in AcceptedHere(cell, day) |-> AsVote(r)]
  <2>1. ReadingsOf(cell, day) = {vote[r] : r \in AcceptedHere(cell, day)}
    BY DEF ReadingsOf
  <2>2. AcceptedHere(cell, day) \in SUBSET reports /\ IsFiniteSet(reports)
    BY DEF AcceptedHere, NetworkInv, NetworkOK
  <2>3. IsFiniteSet(AcceptedHere(cell, day))
    BY <2>2, FS_Subset
  <2> HIDE DEF vote
  <2> QED BY <2>1, <2>3, SizeOfImage
<1>3. \A r, q \in AcceptedHere(cell, day) : AsVote(r).slot = AsVote(q).slot => r.sensor = q.sensor
  BY <1>1 DEF NetworkInv, SlotsAreOwned
<1>4. \A v \in ReadingsOf(cell, day) : v.value \in Int
  BY <1>1, DayCloseAssumption DEF ReadingsOf
<1> QED BY <1>1, <1>2, <1>3, <1>4 DEF ReadingsOf, AreReadings

LEMMA BucketsArePartial ==
  ASSUME NEW R, NEW day, NEW i \in Intervals
  PROVE  Buckets(R, day)[i] \subseteq R
BY DEF Buckets

(* The pass of a day, in terms of its buckets.                             *)
LEMMA PassBegins ==
  ASSUME NEW cell \in Places, NEW day \in ClosedDays, BeginDay(cell, day)
  PROVE  LET R == ReadingsOf(cell, day) IN
         /\ pass'.step = "intervals" /\ pass'.key = <<cell, day>> /\ pass' # NoPass /\ pass'.readAt = readAt
         /\ \A i \in Intervals : pass'.intervals[i] = CloseInterval(Buckets(R, day)[i])
         /\ DOMAIN pass'.intervals = Intervals
         /\ pass'.record = CloseDay(pass'.intervals)
         /\ pass'.reputation = DayReputation(pass'.intervals, WhoOf(R), Contributors(pass'.intervals))
         /\ pass = NoPass /\ day < DayIndexAt(moment) /\ ~Signed(<<cell, day>>)
         /\ DayIndexAt(moment) <= day + DayBacklog
         /\ UNCHANGED <<network, tables, dayLog, moment>>
BY DEF BeginDay, ReadingsOf, NoPass

LEMMA IntervalFields ==
  ASSUME NEW R
  PROVE  /\ CloseInterval(R).median = CellMedian(R) /\ CloseInterval(R).votes = Votes(R)
         /\ CloseInterval(R).contributors = {r.slot : r \in R} /\ CloseInterval(R).root = {Leaf(r) : r \in R}
         /\ CloseInterval(R).verdicts = JudgeInterval(R, CellMedian(R))
BY DEF CloseInterval

VerdictOn(R, r, m) ==
  LET value == Some(Median({x \in R : x.sensor = r.sensor})) IN
  [sensor |-> r.sensor, value |-> value, median |-> m, outlier |-> IsOutlier(value, m)]

LEMMA Verdicts == ASSUME NEW R, NEW M PROVE JudgeInterval(R, M) = {VerdictOn(R, r, m) : r \in R, m \in M}
BY DEF JudgeInterval, VerdictOn

(* Verdicts speak of sensors that reported.                                *)
LEMMA JudgedReported ==
  ASSUME NEW R, NEW v \in CloseInterval(R).verdicts
  PROVE  \E r \in R : v.sensor = r.sensor
<1>1. PICK r \in R, m \in CellMedian(R) : v = VerdictOn(R, r, m)
  BY IntervalFields, Verdicts
<1> QED BY <1>1 DEF VerdictOn

(* OperatorsCountAlike, of one interval.                                   *)
AlikeIn(interval) ==
  /\ \A m \in interval.median :
       \A group \in SUBSET {v.operator : v \in interval.votes} :
         LET others == {v.value : v \in {x \in interval.votes : x.operator \notin group}} IN
         2 * Cardinality(group) < Cardinality({v.operator : v \in interval.votes})
           => (\E v \in others : v <= m) /\ (\E v \in others : m <= v)
  /\ LET verdicts == interval.verdicts
         who      == [s \in Sensors |-> [operator |-> OperatorOf[s]]]
         paid(o)  == SumFunction([s \in {x \in Accepted(verdicts) : OperatorOf[x] = o} |->
                                    IntervalWeight(verdicts, who, s)])
         earning  == {OperatorOf[s] : s \in Accepted(verdicts)} IN
     /\ SumFunction([o \in earning |-> paid(o)]) <= WeightUnit
     /\ \A o, q \in earning : Magnitude(paid(o) - paid(q)) < Cardinality(Sensors)

AllAlike == pass.step = "intervals" => \A i \in Intervals : AlikeIn(pass.intervals[i])

LEMMA AlikeIsAllAlike == AllAlike <=> OperatorsCountAlike
BY DEF AllAlike, AlikeIn, OperatorsCountAlike, MinoritiesStayInRange, PaidByTheVote

LEMMA ClosedAlike ==
  ASSUME NEW R, AreReadings(R)
  PROVE  AlikeIn(CloseInterval(R))
<1> DEFINE interval == CloseInterval(R)
<1>1. interval.votes = Votes(R)
  BY IntervalFields
<1>2. Accepted(interval.verdicts) \in SUBSET Sensors
  BY JudgedReported DEF Accepted, AreReadings
<1>3. ASSUME NEW m \in interval.median, NEW group \in SUBSET {v.operator : v \in interval.votes},
             2 * Cardinality(group) < Cardinality({v.operator : v \in interval.votes})
      PROVE  LET others == {v.value : v \in {x \in interval.votes : x.operator \notin group}} IN
             (\E v \in others : v <= m) /\ (\E v \in others : m <= v)
  BY <1>1, <1>3, MinorityInRange
<1> HIDE DEF interval
<1> QED BY <1>2, <1>3, PayIsShared DEF AlikeIn, interval

(* A pass is a record whose step moves on.                                 *)
PassIsRecord ==
  pass # NoPass =>
    /\ pass = [step |-> pass.step, key |-> pass.key, readAt |-> pass.readAt, intervals |-> pass.intervals,
               record |-> pass.record, reputation |-> pass.reputation]
    /\ pass.step \in {"intervals", "verdicts", "day", "submit", "mark"}

LEMMA PassGoesOn ==
  ASSUME PassIsRecord, pass # NoPass, NEW x, pass' = [pass EXCEPT !.step = x]
  PROVE  /\ pass' = [step |-> x, key |-> pass.key, readAt |-> pass.readAt, intervals |-> pass.intervals,
                     record |-> pass.record, reputation |-> pass.reputation]
         /\ pass'.step = x /\ pass'.key = pass.key /\ pass'.intervals = pass.intervals
         /\ pass'.record = pass.record /\ pass'.reputation = pass.reputation /\ pass'.readAt = pass.readAt
BY DEF PassIsRecord

(* What a step does to the pass.                                           *)
LEMMA PassSteps ==
  ASSUME PassIsRecord, [DayCloseNext]_dayCloseVars
  PROVE  \/ \E cell \in Places, day \in ClosedDays : BeginDay(cell, day)
         \/ UNCHANGED pass
         \/ pass' = NoPass
         \/ /\ pass # NoPass /\ pass'.step \in {"verdicts", "day", "submit", "mark"}
            /\ pass' = [step |-> pass'.step, key |-> pass.key, readAt |-> pass.readAt, intervals |-> pass.intervals,
                        record |-> pass.record, reputation |-> pass.reputation]
<1>1. ASSUME NEW s \in Sensors,
             \/ \E v \in Gauges, at \in Moments : Report(s, v, at)
             \/ \E c \in Places : MoveSensor(s, c)
             \/ StopVoting(s)
      PROVE  UNCHANGED pass
  BY <1>1 DEF Report, MoveSensor, StopVoting
<1>2. ASSUME MirrorRegistry \/ Advance \/ UNCHANGED dayCloseVars PROVE UNCHANGED pass
  BY <1>2 DEF MirrorRegistry, Advance, dayCloseVars
<1>3. ASSUME SubmitUnanswered \/ MarkDaySubmitted \/ AbandonDay PROVE pass' = NoPass
  BY <1>3 DEF SubmitUnanswered, MarkDaySubmitted, AbandonDay
<1>4. ASSUME NEW x \in {"verdicts", "day", "submit", "mark"}, pass.step # "idle", pass' = [pass EXCEPT !.step = x]
      PROVE  /\ pass # NoPass /\ pass'.step \in {"verdicts", "day", "submit", "mark"}
             /\ pass' = [step |-> pass'.step, key |-> pass.key, readAt |-> pass.readAt, intervals |-> pass.intervals,
                         record |-> pass.record, reputation |-> pass.reputation]
  <2>1. pass # NoPass
    BY <1>4 DEF NoPass
  <2> QED BY <2>1, <1>4, PassGoesOn
<1>5. ASSUME SaveIntervals \/ ReplaceDayVerdicts \/ SaveDay \/ Submit
      PROVE  \E x \in {"verdicts", "day", "submit", "mark"} : pass.step # "idle" /\ pass' = [pass EXCEPT !.step = x]
  <2>1. CASE SaveIntervals
    BY <2>1 DEF SaveIntervals
  <2>2. CASE ReplaceDayVerdicts
    BY <2>2 DEF ReplaceDayVerdicts
  <2>3. CASE SaveDay
    BY <2>3 DEF SaveDay
  <2>4. CASE Submit
    BY <2>4 DEF Submit
  <2> QED BY <1>5, <2>1, <2>2, <2>3, <2>4
<1> QED BY <1>1, <1>2, <1>3, <1>4, <1>5 DEF DayCloseNext, CloseCellDay

LEMMA PassStaysRecord ==
  ASSUME PassIsRecord, [DayCloseNext]_dayCloseVars
  PROVE  PassIsRecord'
<1>1. ASSUME NEW cell \in Places, NEW day \in ClosedDays, BeginDay(cell, day) PROVE PassIsRecord'
  BY <1>1 DEF BeginDay, PassIsRecord
<1>2. ASSUME UNCHANGED pass PROVE PassIsRecord'
  BY <1>2 DEF PassIsRecord
<1>3. ASSUME pass' = NoPass PROVE PassIsRecord'
  BY <1>3 DEF PassIsRecord
<1>4. ASSUME pass'.step \in {"verdicts", "day", "submit", "mark"},
             pass' = [step |-> pass'.step, key |-> pass.key, readAt |-> pass.readAt, intervals |-> pass.intervals,
                      record |-> pass.record, reputation |-> pass.reputation]
      PROVE  PassIsRecord'
  <2>1. /\ pass'.key = pass.key /\ pass'.intervals = pass.intervals
        /\ pass'.record = pass.record /\ pass'.reputation = pass.reputation /\ pass'.readAt = pass.readAt
    BY <1>4
  <2> QED BY <2>1, <1>4 DEF PassIsRecord
<1> QED BY <1>1, <1>2, <1>3, <1>4, PassSteps

LEMMA AlikeStep ==
  ASSUME NetworkInv, PassIsRecord, AllAlike, [DayCloseNext]_dayCloseVars
  PROVE  AllAlike'
<1>1. ASSUME NEW cell \in Places, NEW day \in ClosedDays, BeginDay(cell, day) PROVE AllAlike'
  <2> DEFINE R == ReadingsOf(cell, day)
             B(i) == Buckets(R, day)[i]
  <2>1. \A i \in Intervals : pass'.intervals[i] = CloseInterval(B(i)) /\ AreReadings(B(i))
    BY <1>1, PassBegins, ReadingsAreCounted, BucketsArePartial, PartsOfReadings
  <2> HIDE DEF B
  <2> QED BY <2>1, ClosedAlike DEF AllAlike
<1>2. ASSUME UNCHANGED pass PROVE AllAlike'
  BY <1>2 DEF AllAlike
<1>3. ASSUME pass'.step # "intervals" PROVE AllAlike'
  BY <1>3 DEF AllAlike
<1>4. ASSUME pass' = NoPass PROVE pass'.step # "intervals"
  BY <1>4 DEF NoPass
<1> QED BY <1>1, <1>2, <1>3, <1>4, PassSteps

(* An operator counts as one, in what a day says and in what it pays,      *)
(* however many sensors it has and whatever they report (median.ts,        *)
(* rewards.ts).                                                            *)
THEOREM OneOperatorOneVote == DayCloseSpec => []OperatorsCountAlike
<1>1. DayCloseInit => NetworkInv /\ PassIsRecord /\ AllAlike
  <2>1. DayCloseInit => pass = NoPass /\ pass.step # "intervals"
    BY DEF DayCloseInit, DayCloseFrom, NoPass
  <2> QED BY <2>1, NetworkInit DEF AllAlike, PassIsRecord
<1>2. NetworkInv /\ PassIsRecord /\ AllAlike /\ [DayCloseNext]_dayCloseVars
        => (NetworkInv /\ PassIsRecord /\ AllAlike)'
  BY NetworkStep, PassStaysRecord, AlikeStep
<1>3. AllAlike => OperatorsCountAlike
  BY AlikeIsAllAlike
<1> QED BY <1>1, <1>2, <1>3, PTL DEF DayCloseSpec

-----------------------------------------------------------------------------
(***************************************************************************)
(* What the program checks of a day.                                       *)
(***************************************************************************)
LEMMA IntervalFacts ==
  ASSUME NEW Q, AreReadings(Q)
  PROVE  /\ \/ CloseInterval(Q).median = {}
            \/ \E m \in Int : /\ CloseInterval(Q).median = {m}
                              /\ (\A r \in Q : r.value >= 0) => m >= 0
         /\ CloseInterval(Q).contributors \in SUBSET Slots
         /\ CloseInterval(Q).median # {} => Cardinality(CloseInterval(Q).contributors) >= MinimumVotes
         /\ IsFiniteSet(CloseInterval(Q).verdicts)
<1> DEFINE M == CellMedian(Q)
           slots == {r.slot : r \in Q}
<1>1. /\ Valued(Votes(Q)) /\ Cardinality(Votes(Q)) = Cardinality(OperatorsOf(Q))
      /\ IsFiniteSet(OperatorsOf(Q)) /\ Cardinality(OperatorsOf(Q)) \in Nat
      /\ (\A r \in Q : r.value >= 0) => \A v \in Votes(Q) : v.value >= 0
  BY OperatorsVoteOnce
<1>2. MinimumVotes \in Nat \ {0} /\ MaxSlots \in Nat \ {0}
  BY AggregateAssumption
<1>3. M # {} => M = Median(Votes(Q)) /\ Cardinality(Votes(Q)) >= MinimumVotes
  BY <1>1, <1>2 DEF CellMedian
<1>4. \/ M = {}
      \/ \E m \in Int : M = {m} /\ ((\A r \in Q : r.value >= 0) => m >= 0)
  <2>1. SUFFICES ASSUME M # {} PROVE \E m \in Int : M = {m} /\ ((\A r \in Q : r.value >= 0) => m >= 0)
    OBVIOUS
  <2>2. Votes(Q) # {}
    BY <1>1, <1>2, <1>3, <2>1, FS_EmptySet
  <2>3. /\ Median(Votes(Q)) = {Some(Median(Votes(Q)))} /\ Some(Median(Votes(Q))) \in Int
        /\ (\A x \in Votes(Q) : x.value >= 0) => Some(Median(Votes(Q))) >= 0
    BY <1>1, <2>2, SomeMedian
  <2> HIDE DEF M
  <2> QED BY <1>1, <1>3, <2>1, <2>3
<1>5. IsFiniteSet(Q) /\ slots \in SUBSET Slots
  BY DEF AreReadings
<1>6. M # {} => Cardinality(slots) >= MinimumVotes
  <2>1. IsFiniteSet(slots) /\ Cardinality(slots) \in Nat
    <3>1. IsFiniteSet(Slots)
      BY <1>2, FS_Interval DEF Slots
    <3> HIDE DEF slots
    <3> QED BY <1>5, <3>1, FS_Subset, FS_CardinalityType
  <2> DEFINE owner == [s \in slots |-> (CHOOSE r \in Q : r.slot = s).operator]
             owners == {owner[s] : s \in slots}
  <2>2. OperatorsOf(Q) \subseteq owners
    <3>0. SUFFICES ASSUME NEW r \in Q PROVE r.operator \in owners
      <4> HIDE DEF owners
      <4> QED BY DEF OperatorsOf
    <3> DEFINE q == CHOOSE x \in Q : x.slot = r.slot
    <3>1. q \in Q /\ q.slot = r.slot
      OBVIOUS
    <3> HIDE DEF q
    <3>2. q.operator = r.operator
      BY <3>1 DEF AreReadings
    <3>3. owner[r.slot] = q.operator /\ r.slot \in slots
      BY DEF q
    <3> QED BY <3>2, <3>3
  <2>3. IsFiniteSet(owners) /\ Cardinality(owners) \in Nat /\ Cardinality(owners) <= Cardinality(slots)
    <3> HIDE DEF owner, slots
    <3> QED BY <2>1, SizeOfImage
  <2>4. Cardinality(OperatorsOf(Q)) <= Cardinality(owners)
    <3> HIDE DEF owners
    <3> QED BY <2>2, <2>3, FS_Subset
  <2> HIDE DEF slots, owners, M
  <2> QED BY <1>1, <1>2, <1>3, <2>1, <2>3, <2>4
<1>7. IsFiniteSet(JudgeInterval(Q, M))
  <2>1. CASE M = {}
    BY <2>1, FS_EmptySet DEF JudgeInterval
  <2>2. CASE M # {}
    <3>1. PICK m : M = {m}
      BY <1>4, <2>2
    <3> DEFINE verdict == [r \in Q |-> VerdictOn(Q, r, m)]
    <3>2. JudgeInterval(Q, M) = {verdict[r] : r \in Q}
      <4> HIDE DEF M
      <4> QED BY <3>1, Verdicts
    <3> HIDE DEF verdict, M
    <3> QED BY <3>2, <1>5, SizeOfImage
  <2> QED BY <2>1, <2>2
<1> HIDE DEF M
<1> QED BY <1>4, <1>5, <1>6, <1>7, IntervalFields DEF M

(* The intervals of a day are closed on parts of its readings.             *)
Closes(intervals, R) ==
  /\ intervals = [i \in Intervals |-> intervals[i]]
  /\ \A i \in Intervals : \E Q \in SUBSET R : intervals[i] = CloseInterval(Q)

LEMMA FiniteDay ==
  /\ IsFiniteSet(Intervals) /\ Cardinality(Intervals) = IntervalsPerDay /\ IntervalsPerDay \in Nat \ {0}
  /\ IsFiniteSet(Slots) /\ WeightUnit \in Nat \ {0} /\ MinimumVotes \in Nat \ {0}
<1>1. IntervalsPerDay \in Nat \ {0} /\ MaxSlots \in Nat \ {0} /\ WeightUnit \in Nat \ {0} /\ MinimumVotes \in Nat \ {0}
  BY AggregateAssumption
<1> QED BY <1>1, FS_Interval DEF Intervals, Slots

(* A day that sums below zero, and a reading of it that is below zero.     *)
SumsBelowZero(record) ==
  /\ \E r \in record.rainfall : r < 0
  /\ \E i \in Intervals : \E l \in record.root[i][3] : l.value < 0

(* check_coverage, check_contributors and check_classification.            *)
LEMMA RecordIsTaken ==
  ASSUME NEW R, AreReadings(R), NEW intervals, Closes(intervals, R)
  PROVE  /\ CheckDayRecord(CloseDay(intervals)) \/ SumsBelowZero(CloseDay(intervals))
         /\ Contributors(intervals) \in SUBSET Slots
<1> DEFINE state == Classify(intervals)
           covered == Covered(intervals)
           rain == [i \in covered |-> Some(intervals[i].median)]
<1>1. ASSUME NEW i \in Intervals
      PROVE  /\ \/ intervals[i].median = {}
                \/ \E m \in Int : /\ intervals[i].median = {m}
                                  /\ (\A l \in intervals[i].root : l.value >= 0) => m >= 0
             /\ \A l \in intervals[i].root : l.value \in Int
             /\ intervals[i].contributors \in SUBSET Slots
             /\ intervals[i].median # {} => Cardinality(intervals[i].contributors) >= MinimumVotes
  <2>1. PICK Q \in SUBSET R : intervals[i] = CloseInterval(Q)
    BY DEF Closes
  <2>2. AreReadings(Q)
    BY PartsOfReadings
  <2>3. intervals[i].root = {Leaf(r) : r \in Q}
    BY <2>1, IntervalFields
  <2>4. ASSUME \A l \in intervals[i].root : l.value >= 0, NEW r \in Q PROVE r.value >= 0
    <3>1. Leaf(r) \in intervals[i].root
      BY <2>3
    <3>2. Leaf(r).value = r.value
      BY DEF Leaf
    <3> QED BY <2>4, <3>1, <3>2
  <2>5. \A l \in intervals[i].root : l.value \in Int
    BY <2>2, <2>3 DEF Leaf, AreReadings
  <2> QED BY <2>1, <2>2, <2>4, <2>5, IntervalFacts
<1>2. covered \in SUBSET Intervals /\ IsFiniteSet(covered) /\ Cardinality(covered) \in Nat
      /\ Cardinality(covered) <= IntervalsPerDay
  <2>1. covered \in SUBSET Intervals
    BY DEF Covered
  <2> HIDE DEF covered
  <2> QED BY <2>1, FiniteDay, FS_Subset, FS_CardinalityType
<1> DEFINE NoneBelow == \A i \in Intervals : \A l \in intervals[i].root : l.value >= 0
<1>3. \A i \in covered : rain[i] \in Int /\ (NoneBelow => rain[i] \in Nat)
  <2> SUFFICES ASSUME NEW i \in covered
               PROVE  Some(intervals[i].median) \in Int /\ (NoneBelow => Some(intervals[i].median) \in Nat)
    OBVIOUS
  <2>1. i \in Intervals /\ intervals[i].median # {}
    BY DEF Covered
  <2>2. PICK m \in Int : intervals[i].median = {m} /\ ((\A l \in intervals[i].root : l.value >= 0) => m >= 0)
    BY <2>1, <1>1
  <2>3. Some({m}) = m
    BY DEF Some
  <2> QED BY <2>1, <2>2, <2>3
<1>4. Rainfall(intervals) \in Int /\ (NoneBelow => Rainfall(intervals) \in Nat)
  <2>1. Rainfall(intervals) = SumFunctionOnSet(rain, covered)
    BY DEF Rainfall, SumFunction
  <2> HIDE DEF rain, covered, NoneBelow
  <2> QED BY <2>1, <1>2, <1>3, SumType, SumOfIntegers
<1>5. /\ state # "NoCoverage" => Cardinality(covered) # 0
      /\ state # "NoCoverage" => state = IF Rainfall(intervals) <= DryThreshold THEN "Dry" ELSE "Wet"
  <2> DEFINE few == Cardinality(covered) = 0 \/ Cardinality(covered) * 100 < CoverageX100 * IntervalsPerDay
  <2>1. state = IF few THEN "NoCoverage" ELSE IF Rainfall(intervals) <= DryThreshold THEN "Dry" ELSE "Wet"
    BY Zenon DEF Classify
  <2>2. ~few => Cardinality(covered) # 0
    OBVIOUS
  <2> HIDE DEF state, few, covered
  <2> QED BY <2>1, <2>2
<1>6. Contributors(intervals) \in SUBSET Slots
  BY <1>1, <1>2 DEF Contributors
<1>7. state # "NoCoverage" => Cardinality(Contributors(intervals)) >= MinimumVotes
  <2>1. SUFFICES ASSUME state # "NoCoverage" PROVE Cardinality(Contributors(intervals)) >= MinimumVotes
    OBVIOUS
  <2>2. PICK i : i \in covered
    <3>1. covered # {}
      <4> HIDE DEF covered
      <4> QED BY <1>5, <2>1, FS_EmptySet
    <3> QED BY <3>1
  <2>3. i \in Intervals /\ intervals[i].median # {}
    BY <2>2 DEF Covered
  <2>4. intervals[i].contributors \in SUBSET Contributors(intervals)
    BY <2>1, <2>2 DEF Contributors
  <2>5. IsFiniteSet(Contributors(intervals))
    BY <1>6, FiniteDay, FS_Subset
  <2>6. /\ Cardinality(intervals[i].contributors) <= Cardinality(Contributors(intervals))
        /\ Cardinality(intervals[i].contributors) \in Nat /\ Cardinality(Contributors(intervals)) \in Nat
    BY <2>4, <2>5, FS_Subset, FS_CardinalityType
  <2> QED BY <2>3, <2>6, <1>1, FiniteDay
<1>8. Contributors(intervals) = {} \/ state # "NoCoverage"
  BY DEF Contributors
<1> DEFINE record == CloseDay(intervals)
<1>9. /\ record.state = state /\ record.contributors = Contributors(intervals)
      /\ record.rainfall = (IF state = "NoCoverage" THEN {} ELSE {Rainfall(intervals)})
      /\ record.covered = Cardinality(covered) /\ record.total = IntervalsPerDay
  BY DEF CloseDay
<1>10. \A i \in Intervals : record.root[i][3] = intervals[i].root
  BY DEF CloseDay
<1> HIDE DEF record, state, covered
<1>11. CASE state = "NoCoverage" \/ Rainfall(intervals) >= 0
  <2>1. CheckDayRecord(record)
    BY <1>2, <1>4, <1>5, <1>6, <1>7, <1>8, <1>9, <1>11, FiniteDay DEF CheckDayRecord
  <2> QED BY <2>1, <1>6 DEF record
<1>12. CASE state # "NoCoverage" /\ ~(Rainfall(intervals) >= 0)
  <2>1. Rainfall(intervals) \in record.rainfall /\ Rainfall(intervals) < 0 /\ ~NoneBelow
    BY <1>4, <1>9, <1>12
  <2>2. PICK i \in Intervals : \E l \in intervals[i].root : l.value < 0
    BY <1>1, <2>1
  <2>3. SumsBelowZero(record)
    BY <1>10, <2>1, <2>2 DEF SumsBelowZero
  <2> QED BY <2>3, <1>6 DEF record
<1> QED BY <1>11, <1>12

(* Who a sensor of the day is, is told by a reading of its own.            *)
LEMMA WhoIs ==
  ASSUME NEW R
  PROVE  /\ DOMAIN WhoOf(R) = {r.sensor : r \in R}
         /\ \A s \in DOMAIN WhoOf(R) : \E r \in R : r.sensor = s /\ WhoOf(R)[s].slot = r.slot
<1> DEFINE who == WhoOf(R)
<1>1. DOMAIN who = {r.sensor : r \in R}
  BY DEF WhoOf
<1>2. ASSUME NEW s \in DOMAIN who PROVE \E r \in R : r.sensor = s /\ who[s].slot = r.slot
  <2> DEFINE r == CHOOSE x \in R : x.sensor = s
  <2>1. r \in R /\ r.sensor = s
    BY <1>1
  <2>2. who[s] = [slot |-> r.slot, operator |-> r.operator]
    BY <1>1 DEF WhoOf
  <2> HIDE DEF r, who
  <2> QED BY <2>1, <2>2
<1> QED BY <1>1, <1>2

(* check_day_reputation and check_day_weights, with the contributors the   *)
(* record names: a slot is one sensor's, so that what it earned is bounded *)
(* by the intervals its verdict went well in.                              *)
LEMMA ReputationIsTaken ==
  ASSUME NEW R, AreReadings(R), NEW intervals, Closes(intervals, R),
         NEW count \in Nat, \A r \in R : r.slot < count, NEW contributors
  PROVE  CheckDayReputation(DayReputation(intervals, WhoOf(R), contributors), contributors, count)
<1> DEFINE who == WhoOf(R)
           rep == DayReputation(intervals, who, contributors)
<1> SUFFICES ASSUME NEW slot \in Slots
             PROVE  /\ rep.outliers[slot] <= rep.judged[slot]
                    /\ slot >= count => rep.judged[slot] = 0
                    /\ rep.weights[slot] > 0 =>
                         /\ rep.judged[slot] > rep.outliers[slot] /\ slot \in contributors
                         /\ rep.weights[slot] <= (rep.judged[slot] - rep.outliers[slot]) * WeightUnit
  BY DEF CheckDayReputation
<1> DEFINE at == {s \in DOMAIN who : who[s].slot = slot}
           V(i) == intervals[i].verdicts
           J(i) == {v \in V(i) : v.sensor \in at /\ (FALSE => v.outlier)}
           O(i) == {v \in V(i) : v.sensor \in at /\ (TRUE => v.outlier)}
           G(i) == J(i) \ O(i)
           judged == [i \in Intervals |-> Cardinality(J(i))]
           outliers == [i \in Intervals |-> Cardinality(O(i))]
           good == [i \in Intervals |-> Cardinality(G(i))]
           weight(s) == [i \in Intervals |-> IntervalWeight(V(i), who, s)]
<1>1. /\ rep.judged[slot] = SumFunctionOnSet(judged, Intervals)
      /\ rep.outliers[slot] = SumFunctionOnSet(outliers, Intervals)
      /\ rep.weights[slot] = IF slot \notin contributors THEN 0
                             ELSE SumFunctionOnSet([s \in at |-> DayWeight(intervals, who, s)], at)
  BY DEF DayReputation, SumFunction
<1>2. \A s : DayWeight(intervals, who, s) = SumFunctionOnSet(weight(s), Intervals)
  BY DEF DayWeight, SumFunction
<1>3. /\ DOMAIN who = {r.sensor : r \in R}
      /\ \A s \in DOMAIN who : \E r \in R : r.sensor = s /\ who[s].slot = r.slot
  BY WhoIs
<1>4. \A s, t \in at : s = t
  <2> HIDE DEF who
  <2> QED BY <1>3 DEF AreReadings
<1>5. slot >= count => at = {}
  <2> HIDE DEF who
  <2>1. slot \in Nat /\ \A r \in R : r.slot \in Nat
    BY DEF Slots, AreReadings
  <2> QED BY <1>3, <2>1
<1>6. ASSUME NEW i \in Intervals
      PROVE  /\ judged[i] \in Nat /\ outliers[i] \in Nat /\ good[i] \in Nat
             /\ judged[i] = outliers[i] + good[i]
             /\ at = {} => judged[i] = 0
             /\ \A s \in at : s \in Accepted(V(i)) => good[i] >= 1
  <2>1. PICK Q \in SUBSET R : intervals[i] = CloseInterval(Q)
    BY DEF Closes
  <2>2. IsFiniteSet(V(i))
    BY <2>1, IntervalFacts, PartsOfReadings
  <2>3. O(i) \in SUBSET J(i) /\ J(i) \in SUBSET V(i) /\ G(i) \in SUBSET J(i)
    OBVIOUS
  <2>4. J(i) = O(i) \cup G(i) /\ O(i) \cap G(i) = {}
    OBVIOUS
  <2>5. IsFiniteSet(J(i)) /\ IsFiniteSet(O(i)) /\ IsFiniteSet(G(i))
    <3> HIDE DEF V, J, O, G
    <3> QED BY <2>2, <2>3, FS_Subset
  <2>6. Cardinality(J(i)) = Cardinality(O(i)) + Cardinality(G(i))
    <3> HIDE DEF J, O, G
    <3>1. Cardinality(O(i) \cup G(i)) = Cardinality(O(i)) + Cardinality(G(i)) - Cardinality(O(i) \cap G(i))
      BY <2>5, FS_Union
    <3>2. Cardinality(O(i) \cup G(i)) = Cardinality(J(i)) /\ Cardinality(O(i) \cap G(i)) = 0
      BY <2>4, FS_EmptySet
    <3> QED BY <3>1, <3>2, <2>5, FS_CardinalityType
  <2>7. at = {} => J(i) = {}
    OBVIOUS
  <2>8. ASSUME NEW s \in at, s \in Accepted(V(i)) PROVE G(i) # {}
    <3>1. PICK v \in V(i) : ~v.outlier /\ v.sensor = s
      BY <2>8 DEF Accepted
    <3>2. v \in G(i)
      BY <3>1
    <3> QED BY <3>2
  <2> HIDE DEF J, O, G, at
  <2>9. Cardinality(J(i)) \in Nat /\ Cardinality(O(i)) \in Nat /\ Cardinality(G(i)) \in Nat
    BY <2>5, FS_CardinalityType
  <2>10. (at = {} => Cardinality(J(i)) = 0) /\ \A s \in at : s \in Accepted(V(i)) => Cardinality(G(i)) >= 1
    BY <2>5, <2>7, <2>8, <2>9, FS_EmptySet
  <2> QED BY <2>6, <2>9, <2>10
<1>7. /\ SumFunctionOnSet(judged, Intervals) \in Nat /\ SumFunctionOnSet(outliers, Intervals) \in Nat
      /\ SumFunctionOnSet(good, Intervals) \in Nat
      /\ SumFunctionOnSet(judged, Intervals)
           = SumFunctionOnSet(outliers, Intervals) + SumFunctionOnSet(good, Intervals)
      /\ at = {} => SumFunctionOnSet(judged, Intervals) = 0
  <2> HIDE DEF judged, outliers, good, at
  <2> QED BY <1>6, FiniteDay, SumType, SumOfBoth, SumOfNothing
<1>8. ASSUME NEW s \in at
      PROVE  /\ DayWeight(intervals, who, s) \in Nat
             /\ DayWeight(intervals, who, s) <= SumFunctionOnSet(good, Intervals) * WeightUnit
  <2>1. ASSUME NEW i \in Intervals
        PROVE  weight(s)[i] \in Nat /\ weight(s)[i] <= good[i] * WeightUnit
    <3>1. CASE s \notin Accepted(V(i))
      <4>1. weight(s)[i] = 0
        BY <3>1 DEF IntervalWeight
      <4> DEFINE w == weight(s)[i]
                 most == good[i] * WeightUnit
      <4>2. most \in Nat
        <5> HIDE DEF good
        <5>1. good[i] \in Nat
          BY <1>6
        <5> QED BY <5>1, FiniteDay
      <4> HIDE DEF w, most, weight, good
      <4>3. w \in Nat /\ w <= most
        BY <4>1, <4>2 DEF w
      <4> QED BY <4>3 DEF w, most
    <3>2. CASE s \in Accepted(V(i))
      <4> DEFINE A == Accepted(V(i))
                 ops == {who[x].operator : x \in A}
                 siblings == {x \in A : who[x].operator = who[s].operator}
                 perVote == WeightUnit \div Cardinality(ops)
      <4>1. weight(s)[i] = perVote \div Cardinality(siblings)
        BY <3>2 DEF IntervalWeight
      <4>2. IsFiniteSet(A)
        <5>1. PICK Q \in SUBSET R : intervals[i] = CloseInterval(Q)
          BY DEF Closes
        <5>2. A \in SUBSET Sensors /\ IsFiniteSet(Sensors)
          BY <5>1, JudgedReported, DayCloseAssumption DEF Accepted, AreReadings
        <5> HIDE DEF A
        <5> QED BY <5>2, FS_Subset
      <4>3. IsFiniteSet(siblings) /\ Cardinality(siblings) \in Nat \ {0}
        <5>1. siblings \in SUBSET A /\ siblings # {}
          BY <3>2
        <5> HIDE DEF siblings, A
        <5> QED BY <4>2, <5>1, FS_Subset, FS_EmptySet, FS_CardinalityType
      <4>4. IsFiniteSet(ops) /\ Cardinality(ops) \in Nat \ {0}
        <5> DEFINE name == [x \in A |-> who[x].operator]
        <5>1. ops = {name[x] : x \in A} /\ ops # {}
          BY <3>2
        <5> HIDE DEF name, A, ops
        <5> QED BY <4>2, <5>1, SizeOfImage, FS_EmptySet
      <4>5. perVote \in Nat /\ perVote <= WeightUnit
        <5> HIDE DEF ops
        <5> QED BY <4>4, FiniteDay
      <4>6. perVote \div Cardinality(siblings) \in Nat /\ perVote \div Cardinality(siblings) <= WeightUnit
        <5> HIDE DEF perVote, siblings
        <5> QED BY <4>3, <4>5, FiniteDay
      <4>7. good[i] \in Nat /\ good[i] >= 1
        <5> HIDE DEF good
        <5> QED BY <1>6, <3>2
      <4>8. WeightUnit <= good[i] * WeightUnit
        <5> HIDE DEF good
        <5> QED BY <4>7, FiniteDay
      <4> DEFINE w == perVote \div Cardinality(siblings)
                 most == good[i] * WeightUnit
      <4>9. most \in Nat
        <5> HIDE DEF good
        <5> QED BY <4>7, FiniteDay
      <4> HIDE DEF w, most, weight
      <4>10. weight(s)[i] = w /\ w \in Nat /\ w <= WeightUnit /\ WeightUnit <= most
        BY <4>1, <4>6, <4>8 DEF w, most
      <4>11. weight(s)[i] \in Nat /\ weight(s)[i] <= most
        BY <4>9, <4>10, FiniteDay
      <4> QED BY <4>11 DEF most
    <3> QED BY <3>1, <3>2
  <2> DEFINE f == weight(s)
             g == [i \in Intervals |-> good[i] * WeightUnit]
  <2>2. ASSUME NEW i \in Intervals
        PROVE  /\ f[i] \in Nat /\ g[i] \in Nat /\ f[i] <= g[i]
               /\ good[i] \in Nat /\ g[i] = good[i] * WeightUnit
    <3>1. f[i] = weight(s)[i]
      <4> HIDE DEF weight
      <4> QED OBVIOUS
    <3>2. g[i] = good[i] * WeightUnit
      <4> HIDE DEF good
      <4> QED OBVIOUS
    <3>3. f[i] \in Nat /\ f[i] <= good[i] * WeightUnit
      <4> HIDE DEF f, weight, good
      <4> QED BY <2>1, <3>1
    <3>4. good[i] \in Nat /\ good[i] * WeightUnit \in Nat
      <4> HIDE DEF good, f, g
      <4>1. good[i] \in Nat
        BY <1>6
      <4> QED BY <4>1, FiniteDay
    <3> HIDE DEF f, g, good
    <3> QED BY <3>2, <3>3, <3>4
  <2> HIDE DEF f, g, good, weight
  <2>3. SumFunctionOnSet(f, Intervals) <= SumFunctionOnSet(g, Intervals)
    BY <2>2, FiniteDay, SumOfLess
  <2>4. SumFunctionOnSet(g, Intervals) = SumFunctionOnSet(good, Intervals) * WeightUnit
    BY <2>2, FiniteDay, SumOfMultiples
  <2>5. SumFunctionOnSet(f, Intervals) \in Nat
    BY <2>2, FiniteDay, SumType
  <2>6. DayWeight(intervals, who, s) = SumFunctionOnSet(f, Intervals)
    BY <1>2 DEF f
  <2> QED BY <2>3, <2>4, <2>5, <2>6
<1>9. /\ rep.weights[slot] \in Nat
      /\ rep.weights[slot] > 0 => slot \in contributors
      /\ rep.weights[slot] <= SumFunctionOnSet(good, Intervals) * WeightUnit
  <2> DEFINE total == SumFunctionOnSet([s \in at |-> DayWeight(intervals, who, s)], at)
             most == SumFunctionOnSet(good, Intervals) * WeightUnit
  <2>0. most \in Nat
    <3> HIDE DEF good
    <3> QED BY <1>7, FiniteDay
  <2>1. total \in Nat /\ total <= most
    <3>1. CASE at = {}
      <4>1. total = 0
        <5> HIDE DEF at
        <5> QED BY <3>1, SumOfNone
      <4> HIDE DEF total, most
      <4> QED BY <4>1, <2>0
    <3>2. CASE at # {}
      <4>1. PICK s \in at : TRUE
        BY <3>2
      <4>2. at = {s}
        BY <1>4
      <4> DEFINE f == [x \in at |-> DayWeight(intervals, who, x)]
      <4>3. f[s] = DayWeight(intervals, who, s)
        OBVIOUS
      <4>4. f[s] \in Nat /\ f[s] <= most
        <5> HIDE DEF f, good, at, who
        <5> QED BY <4>3, <1>8
      <4>5. SumFunctionOnSet(f, {s}) = f[s]
        <5> HIDE DEF f
        <5> QED BY <4>4, SumOfOne
      <4> HIDE DEF at, f, most
      <4> QED BY <4>2, <4>4, <4>5 DEF f
    <3> QED BY <3>1, <3>2
  <2>2. rep.weights[slot] = IF slot \notin contributors THEN 0 ELSE total
    BY <1>1
  <2> HIDE DEF rep, total, most
  <2>3. rep.weights[slot] \in Nat /\ (rep.weights[slot] > 0 => slot \in contributors) /\ rep.weights[slot] <= most
    BY <2>0, <2>1, <2>2
  <2> QED BY <2>3 DEF most
<1> DEFINE j == SumFunctionOnSet(judged, Intervals)
           o == SumFunctionOnSet(outliers, Intervals)
           n == SumFunctionOnSet(good, Intervals)
<1>10. /\ rep.judged[slot] = j /\ rep.outliers[slot] = o
       /\ j \in Nat /\ o \in Nat /\ n \in Nat /\ j = o + n /\ (at = {} => j = 0)
  BY <1>1, <1>7
<1>11. rep.weights[slot] \in Nat /\ (rep.weights[slot] > 0 => slot \in contributors) /\ rep.weights[slot] <= n * WeightUnit
  BY <1>9
<1> HIDE DEF rep, j, o, n, at
<1>12. j - o = n
  BY <1>10
<1>13. n = 0 => rep.weights[slot] = 0
  BY <1>11, FiniteDay
<1> QED BY <1>5, <1>10, <1>11, <1>12, <1>13

(* What is in hand can be sent: the chain's count of sensors only grows.   *)
Sendable ==
  pass # NoPass =>
    /\ pass.key[1] \in Places
    /\ CheckDayRecord(pass.record) \/ SumsBelowZero(pass.record)
    /\ CheckDayReputation(pass.reputation, pass.record.contributors, sensorCount[pass.key[1]])

LEMMA SensorCountsGrow ==
  ASSUME NetworkInv, [DayCloseNext]_dayCloseVars, NEW c \in Places
  PROVE  sensorCount[c] \in Nat /\ sensorCount'[c] \in Nat /\ sensorCount[c] <= sensorCount'[c]
<1>1. sensorCount \in [Places -> 0 .. MaxSlots] /\ MaxSlots \in Nat
  BY AggregateAssumption DEF NetworkInv, NetworkOK
<1>2. ASSUME NEW s \in Sensors, NEW to \in Places, MoveSensor(s, to)
      PROVE  sensorCount'[c] = sensorCount[c] \/ sensorCount'[c] = sensorCount[c] + 1
  BY <1>1, <1>2 DEF MoveSensor
<1>3. ASSUME UNCHANGED <<network, moment>> PROVE UNCHANGED sensorCount
  BY <1>3 DEF network
<1>4. ASSUME MirrorRegistry \/ Advance \/ \E s \in Sensors : \/ \E v \in Gauges, at \in Moments : Report(s, v, at)
                                                             \/ StopVoting(s)
      PROVE  UNCHANGED sensorCount
  BY <1>4 DEF MirrorRegistry, Advance, network, Report, StopVoting
<1> QED BY <1>1, <1>2, <1>3, <1>4, CloseLeavesNetwork DEF DayCloseNext

LEMMA MoreSensorsDoNoHarm ==
  ASSUME NEW reputation, NEW contributors, NEW count \in Nat, NEW more \in Nat, count <= more,
         CheckDayReputation(reputation, contributors, count)
  PROVE  CheckDayReputation(reputation, contributors, more)
BY DEF CheckDayReputation, Slots

LEMMA SendableStep ==
  ASSUME NetworkInv, PassIsRecord, Sendable, [DayCloseNext]_dayCloseVars
  PROVE  Sendable'
<1>1. ASSUME NEW cell \in Places, NEW day \in ClosedDays, BeginDay(cell, day) PROVE Sendable'
  <2> DEFINE R == ReadingsOf(cell, day)
             intervals == pass'.intervals
             count == sensorCount[cell]
  <2>1. AreReadings(R) /\ count \in Nat /\ \A r \in R : r.slot < count
    BY ReadingsAreCounted, SensorCountsGrow
  <2>2. Closes(intervals, R)
    <3>1. \A i \in Intervals : intervals[i] = CloseInterval(Buckets(R, day)[i]) /\ Buckets(R, day)[i] \subseteq R
      BY <1>1, PassBegins, BucketsArePartial
    <3>2. intervals = [i \in Intervals |-> intervals[i]]
      BY <1>1 DEF BeginDay
    <3> HIDE DEF R, intervals
    <3> QED BY <3>1, <3>2 DEF Closes
  <2>3. /\ pass'.key = <<cell, day>> /\ pass'.record = CloseDay(intervals)
        /\ pass'.reputation = DayReputation(intervals, WhoOf(R), Contributors(intervals))
        /\ UNCHANGED sensorCount
    BY <1>1, PassBegins DEF network
  <2>4. pass'.record.contributors = Contributors(intervals)
    BY <2>3 DEF CloseDay
  <2> HIDE DEF R, intervals, count
  <2>5. CheckDayRecord(pass'.record) \/ SumsBelowZero(pass'.record)
    BY <2>1, <2>2, <2>3, RecordIsTaken
  <2>6. CheckDayReputation(pass'.reputation, pass'.record.contributors, count)
    BY <2>1, <2>2, <2>3, <2>4, ReputationIsTaken
  <2> QED BY <2>3, <2>5, <2>6 DEF Sendable, count
<1>2. ASSUME pass # NoPass, pass'.key = pass.key, pass'.record = pass.record, pass'.reputation = pass.reputation
      PROVE  Sendable'
  <2>1. /\ pass.key[1] \in Places /\ (CheckDayRecord(pass.record) \/ SumsBelowZero(pass.record))
        /\ CheckDayReputation(pass.reputation, pass.record.contributors, sensorCount[pass.key[1]])
    BY <1>2 DEF Sendable
  <2>2. CheckDayReputation(pass.reputation, pass.record.contributors, sensorCount'[pass.key[1]])
    BY <2>1, SensorCountsGrow, MoreSensorsDoNoHarm
  <2> QED BY <1>2, <2>1, <2>2 DEF Sendable
<1>3. ASSUME pass' = NoPass PROVE Sendable'
  BY <1>3 DEF Sendable
<1>4. ASSUME UNCHANGED pass PROVE Sendable'
  BY <1>2, <1>3, <1>4
<1>5. ASSUME pass # NoPass,
             pass' = [step |-> pass'.step, key |-> pass.key, readAt |-> pass.readAt, intervals |-> pass.intervals,
                      record |-> pass.record, reputation |-> pass.reputation]
      PROVE  Sendable'
  <2>1. pass'.key = pass.key /\ pass'.record = pass.record /\ pass'.reputation = pass.reputation
    BY <1>5
  <2> QED BY <2>1, <1>5, <1>2
<1> QED BY <1>1, <1>3, <1>4, <1>5, PassSteps

(* Whatever was measured, by whom and from where, and whatever moved or    *)
(* was stopped in between: what the worker is about to send passes every   *)
(* check of the program (day.rs check_record, reputation.rs), or is of a   *)
(* day that sums below zero, some reading of which is below zero.          *)
THEOREM DaysPassTheProgram == DayCloseSpec => []DaysAreTaken
<1>1. DayCloseInit => NetworkInv /\ PassIsRecord /\ Sendable
  <2>1. DayCloseInit => pass = NoPass
    BY DEF DayCloseInit, DayCloseFrom
  <2> QED BY <2>1, NetworkInit DEF Sendable, PassIsRecord
<1>2. NetworkInv /\ PassIsRecord /\ Sendable /\ [DayCloseNext]_dayCloseVars
        => (NetworkInv /\ PassIsRecord /\ Sendable)'
  BY NetworkStep, PassStaysRecord, SendableStep
<1>3. Sendable => DaysAreTaken
  BY DEF Sendable, SumsBelowZero, DaysAreTaken, ChainTakes, NoPass
<1> QED BY <1>1, <1>2, <1>3, PTL DEF DayCloseSpec

-----------------------------------------------------------------------------
(***************************************************************************)
(* What is stored of a signed day.                                         *)
(***************************************************************************)
DayVerdicts(intervals) == UNION {{<<i, v>> : v \in intervals[i].verdicts} : i \in Intervals}

(* The verdicts that ride with a day are the verdicts of the day, each     *)
(* under the slot of its sensor.                                           *)
LEMMA JudgedAreVerdicts ==
  ASSUME NEW R, AreReadings(R), NEW intervals, Closes(intervals, R), NEW contributors
  PROVE  SumFunction(DayReputation(intervals, WhoOf(R), contributors).judged) = Cardinality(DayVerdicts(intervals))
<1> DEFINE who == WhoOf(R)
           judged == DayReputation(intervals, who, contributors).judged
           at(slot) == {s \in DOMAIN who : who[s].slot = slot}
           J(slot, i) == {v \in intervals[i].verdicts : v.sensor \in at(slot) /\ (FALSE => v.outlier)}
           In(slot, i) == {<<i, v>> : v \in J(slot, i)}
           P(slot) == UNION {In(slot, i) : i \in Intervals}
<1>1. ASSUME NEW i \in Intervals
      PROVE  /\ IsFiniteSet(intervals[i].verdicts)
             /\ \A v \in intervals[i].verdicts : v.sensor \in DOMAIN who /\ who[v.sensor].slot \in Slots
  <2>1. PICK Q \in SUBSET R : intervals[i] = CloseInterval(Q)
    BY DEF Closes
  <2>2. IsFiniteSet(intervals[i].verdicts)
    BY <2>1, IntervalFacts, PartsOfReadings
  <2>3. \A v \in intervals[i].verdicts : v.sensor \in {r.sensor : r \in R}
    BY <2>1, JudgedReported
  <2>4. DOMAIN who = {r.sensor : r \in R}
    BY WhoIs
  <2>5. \A s \in DOMAIN who : who[s].slot \in Slots
    <3>1. \A s \in DOMAIN who : \E r \in R : r.sensor = s /\ who[s].slot = r.slot
      BY WhoIs
    <3> HIDE DEF who
    <3> QED BY <3>1 DEF AreReadings
  <2> HIDE DEF who
  <2> QED BY <2>2, <2>3, <2>4, <2>5
<1>2. ASSUME NEW slot \in Slots PROVE IsFiniteSet(P(slot)) /\ Cardinality(P(slot)) = judged[slot]
  <2> DEFINE parts == [i \in Intervals |-> In(slot, i)]
             counts == [i \in Intervals |-> Cardinality(J(slot, i))]
  <2>1. judged[slot] = SumFunctionOnSet(counts, Intervals)
    BY DEF DayReputation, SumFunction
  <2>2. ASSUME NEW i \in Intervals PROVE IsFiniteSet(parts[i]) /\ counts[i] = Cardinality(parts[i])
    <3> DEFINE pair == [v \in J(slot, i) |-> <<i, v>>]
    <3>1. parts[i] = {pair[v] : v \in J(slot, i)} /\ counts[i] = Cardinality(J(slot, i))
      OBVIOUS
    <3>2. \A v, w \in J(slot, i) : pair[v] = pair[w] => v = w
      OBVIOUS
    <3>3. IsFiniteSet(J(slot, i))
      <4>1. J(slot, i) \in SUBSET intervals[i].verdicts
        OBVIOUS
      <4> HIDE DEF J
      <4> QED BY <4>1, <1>1, FS_Subset
    <3> HIDE DEF pair, parts, counts, J
    <3> QED BY <3>1, <3>2, <3>3, SizeOfImage
  <2>3. \A i, j \in Intervals : i # j => parts[i] \cap parts[j] = {}
    OBVIOUS
  <2>4. P(slot) = UNION {parts[i] : i \in Intervals}
    OBVIOUS
  <2> HIDE DEF parts, counts, P, judged
  <2> QED BY <2>1, <2>2, <2>3, <2>4, FiniteDay, SizeOfParts
<1>3. \A slot, other \in Slots : slot # other => P(slot) \cap P(other) = {}
  OBVIOUS
<1>4. UNION {P(slot) : slot \in Slots} = DayVerdicts(intervals)
  <2> HIDE DEF who
  <2> QED BY <1>1 DEF DayVerdicts
<1> DEFINE parts == [slot \in Slots |-> P(slot)]
<1>5. /\ \A slot \in Slots : parts[slot] = P(slot)
      /\ UNION {parts[slot] : slot \in Slots} = UNION {P(slot) : slot \in Slots}
  <2> HIDE DEF P
  <2> QED OBVIOUS
<1>6. DOMAIN judged = Slots
  BY DEF DayReputation
<1> HIDE DEF parts, P, judged
<1>7. Cardinality(DayVerdicts(intervals)) = SumFunctionOnSet(judged, Slots)
  <2>1. \A slot \in Slots : IsFiniteSet(parts[slot]) /\ judged[slot] = Cardinality(parts[slot])
    BY <1>2, <1>5
  <2>2. \A slot, other \in Slots : slot # other => parts[slot] \cap parts[other] = {}
    BY <1>3, <1>5
  <2> QED BY <2>1, <2>2, <1>4, <1>5, FiniteDay, SizeOfParts
<1> QED BY <1>6, <1>7 DEF SumFunction, judged

LeavesOf(record) == {<<i, record.root[i][1], record.root[i][2], record.root[i][3]>> : i \in Intervals}

Judged(reputation) == SumFunction(reputation.judged)

(* What a pass is about to write speaks of what it is about to send, and   *)
(* its day is not signed.                                                  *)
PassIsWhole ==
  pass # NoPass =>
    /\ pass.key \in DayKeys /\ ~Signed(pass.key)
    /\ {<<i, pass.intervals[i].median, Cardinality(pass.intervals[i].votes),
          pass.intervals[i].root>> : i \in Intervals} = LeavesOf(pass.record)
    /\ Cardinality(DayVerdicts(pass.intervals)) = Judged(pass.reputation)

(* What a pass has written is of its own day, whatever was there before.   *)
PassIsStored ==
  /\ pass.step \in {"verdicts", "day", "submit", "mark"} => cellHours[pass.key] = LeavesOf(pass.record)
  /\ pass.step \in {"day", "submit", "mark"} => Cardinality(sensorVerdicts[pass.key]) = Judged(pass.reputation)
  /\ pass.step \in {"submit", "mark"} => cellDays[pass.key] = {DayRow(pass.record, FALSE)}
  /\ pass.step = "mark" => dayLog[pass.key] =
       {[record |-> pass.record, reputation |-> pass.reputation, readAt |-> pass.readAt]}

TablesOfDays == DOMAIN cellHours = DayKeys /\ DOMAIN sensorVerdicts = DayKeys
                /\ DOMAIN cellDays = DayKeys /\ DOMAIN dayLog = DayKeys

CanBeRerun(k) ==
  \E taken \in dayLog[k] : /\ cellHours[k] = LeavesOf(taken.record)
                           /\ cellDays[k] = {DayRow(taken.record, TRUE)}
                           /\ Cardinality(sensorVerdicts[k]) = Judged(taken.reputation)

SignedIsStored == \A k \in DayKeys : Signed(k) => CanBeRerun(k)

RerunInv == PassIsWhole /\ PassIsStored /\ TablesOfDays /\ SignedIsStored

LEMMA RerunIsSigned == SignedIsStored <=> SignedDaysCanBeRerun
BY DEF SignedIsStored, CanBeRerun, LeavesOf, Judged, SignedDaysCanBeRerun

(* The tables of other days are left alone.                                *)
OthersAreKept(key) ==
  \A k \in DayKeys : k # key =>
    /\ cellHours'[k] = cellHours[k] /\ sensorVerdicts'[k] = sensorVerdicts[k]
    /\ cellDays'[k] = cellDays[k] /\ dayLog'[k] = dayLog[k]

LEMMA SignedStaysStored ==
  ASSUME SignedIsStored, NEW k \in DayKeys,
         cellHours'[k] = cellHours[k] /\ sensorVerdicts'[k] = sensorVerdicts[k],
         cellDays'[k] = cellDays[k] /\ dayLog'[k] = dayLog[k],
         Signed(k)'
  PROVE  CanBeRerun(k)'
<1>1. Signed(k)
  BY DEF Signed
<1>2. PICK taken \in dayLog[k] : /\ cellHours[k] = LeavesOf(taken.record)
                                 /\ cellDays[k] = {DayRow(taken.record, TRUE)}
                                 /\ Cardinality(sensorVerdicts[k]) = Judged(taken.reputation)
  BY <1>1 DEF SignedIsStored, CanBeRerun
<1>3. taken \in dayLog'[k]
  BY <1>2
<1> QED BY <1>2, <1>3 DEF CanBeRerun

LEMMA OthersStayStored ==
  ASSUME SignedIsStored, NEW key, OthersAreKept(key), Signed(key)' => CanBeRerun(key)'
  PROVE  SignedIsStored'
<1>1. ASSUME NEW k \in DayKeys, Signed(k)' PROVE CanBeRerun(k)'
  BY <1>1, SignedStaysStored DEF OthersAreKept
<1> QED BY <1>1 DEF SignedIsStored

LEMMA RerunOfBegin ==
  ASSUME NetworkInv, RerunInv, NEW cell \in Places, NEW day \in ClosedDays, BeginDay(cell, day)
  PROVE  RerunInv'
<1> DEFINE R == ReadingsOf(cell, day)
           intervals == pass'.intervals
           row(i) == <<intervals[i].median, Cardinality(intervals[i].votes), intervals[i].root>>
<1>1. /\ pass'.step = "intervals" /\ pass'.key = <<cell, day>> /\ ~Signed(<<cell, day>>)
      /\ pass'.record = CloseDay(intervals) /\ DOMAIN intervals = Intervals
      /\ pass'.reputation = DayReputation(intervals, WhoOf(R), Contributors(intervals))
      /\ UNCHANGED <<tables, dayLog>>
  BY PassBegins
<1>2. Closes(intervals, R) /\ AreReadings(R)
  <2>1. \A i \in Intervals : intervals[i] = CloseInterval(Buckets(R, day)[i]) /\ Buckets(R, day)[i] \subseteq R
    BY PassBegins, BucketsArePartial
  <2>2. intervals = [i \in Intervals |-> intervals[i]]
    BY DEF BeginDay
  <2>3. AreReadings(R)
    BY ReadingsAreCounted
  <2> HIDE DEF R, intervals
  <2> QED BY <2>1, <2>2, <2>3 DEF Closes
<1>3. pass'.record.root = [i \in Intervals |-> row(i)]
  BY <1>1 DEF CloseDay
<1> HIDE DEF R, intervals
<1>4. Cardinality(DayVerdicts(intervals)) = Judged(pass'.reputation)
  BY <1>1, <1>2, JudgedAreVerdicts DEF Judged
<1>5. {<<i, intervals[i].median, Cardinality(intervals[i].votes), intervals[i].root>> : i \in Intervals}
        = LeavesOf(pass'.record)
  BY <1>3 DEF LeavesOf
<1>6. <<cell, day>> \in DayKeys /\ ~Signed(<<cell, day>>)'
  BY <1>1 DEF DayKeys, Signed, tables
<1>7. PassIsWhole'
  BY <1>1, <1>4, <1>5, <1>6 DEF PassIsWhole, intervals
<1>8. PassIsStored'
  BY <1>1 DEF PassIsStored
<1>9. TablesOfDays' /\ SignedIsStored'
  BY <1>1 DEF tables, RerunInv, TablesOfDays, SignedIsStored, CanBeRerun, Signed
<1> QED BY <1>7, <1>8, <1>9 DEF RerunInv

LEMMA RerunOfNoPass ==
  ASSUME RerunInv, UNCHANGED <<tables, dayLog>>, pass' = NoPass \/ UNCHANGED pass
  PROVE  RerunInv'
<1>1. TablesOfDays' /\ SignedIsStored'
  BY DEF tables, RerunInv, TablesOfDays, SignedIsStored, CanBeRerun, Signed
<1>2. CASE pass' = NoPass
  BY <1>1, <1>2 DEF RerunInv, PassIsWhole, PassIsStored, NoPass
<1>3. CASE UNCHANGED pass
  BY <1>1, <1>3 DEF tables, RerunInv, PassIsWhole, PassIsStored, Signed
<1> QED BY <1>2, <1>3

(* One write of a pass.                                                    *)
LEMMA WholeAfterWrite ==
  ASSUME RerunInv, pass # NoPass, NEW key, OthersAreKept(key), TablesOfDays', ~Signed(key)',
         pass.key = key, pass'.key = key, pass'.intervals = pass.intervals,
         pass'.record = pass.record, pass'.reputation = pass.reputation
  PROVE  PassIsWhole' /\ SignedIsStored' /\ (PassIsStored' => RerunInv')
<1>1. PassIsWhole'
  BY DEF RerunInv, PassIsWhole
<1>2. SignedIsStored'
  BY OthersStayStored DEF RerunInv
<1> QED BY <1>1, <1>2 DEF RerunInv

LEMMA RerunOfWrites ==
  ASSUME PassIsRecord, RerunInv, SaveIntervals \/ ReplaceDayVerdicts \/ SaveDay \/ Submit
  PROVE  RerunInv'
<1> PICK key : key = pass.key
  OBVIOUS
<1>1. PICK x \in {"verdicts", "day", "submit", "mark"} : pass' = [pass EXCEPT !.step = x]
  BY DEF SaveIntervals, ReplaceDayVerdicts, SaveDay, Submit
<1>2. pass # NoPass
  <2>1. pass.step \in {"intervals", "verdicts", "day", "submit"}
    BY DEF SaveIntervals, ReplaceDayVerdicts, SaveDay, Submit
  <2> QED BY <2>1 DEF NoPass
<1>3. /\ pass'.step = x /\ pass'.key = key /\ pass'.intervals = pass.intervals
      /\ pass'.record = pass.record /\ pass'.reputation = pass.reputation /\ pass'.readAt = pass.readAt
  BY <1>1, <1>2, PassGoesOn
<1>4. /\ key \in DayKeys /\ ~Signed(key)
      /\ {<<i, pass.intervals[i].median, Cardinality(pass.intervals[i].votes),
            pass.intervals[i].root>> : i \in Intervals} = LeavesOf(pass.record)
      /\ Cardinality(DayVerdicts(pass.intervals)) = Judged(pass.reputation)
  BY <1>2 DEF RerunInv, PassIsWhole
<1>5. ASSUME SaveIntervals PROVE RerunInv'
  <2>1. pass'.step = "verdicts"
    BY <1>2, <1>5, PassGoesOn DEF SaveIntervals
  <2>2. /\ cellHours'[key] = LeavesOf(pass.record) /\ DOMAIN cellHours' = DayKeys
        /\ \A k \in DayKeys : k # key => cellHours'[k] = cellHours[k]
        /\ UNCHANGED <<sensorVerdicts, cellDays, dayLog>>
    BY <1>4, <1>5 DEF SaveIntervals, RerunInv, TablesOfDays
  <2>3. OthersAreKept(key) /\ TablesOfDays' /\ ~Signed(key)'
    BY <2>2, <1>4 DEF OthersAreKept, RerunInv, TablesOfDays, Signed
  <2>4. PassIsStored'
    BY <2>1, <2>2, <1>3 DEF PassIsStored
  <2> QED BY <2>3, <2>4, <1>2, <1>3, WholeAfterWrite
<1>6. ASSUME ReplaceDayVerdicts PROVE RerunInv'
  <2>1. pass'.step = "day" /\ pass.step = "verdicts"
    BY <1>2, <1>6, PassGoesOn DEF ReplaceDayVerdicts
  <2>2. /\ Cardinality(sensorVerdicts'[key]) = Judged(pass.reputation) /\ DOMAIN sensorVerdicts' = DayKeys
        /\ \A k \in DayKeys : k # key => sensorVerdicts'[k] = sensorVerdicts[k]
        /\ UNCHANGED <<cellHours, cellDays, dayLog>>
    BY <1>4, <1>6 DEF ReplaceDayVerdicts, RerunInv, TablesOfDays, DayVerdicts
  <2>3. OthersAreKept(key) /\ TablesOfDays' /\ ~Signed(key)'
    BY <2>2, <1>4 DEF OthersAreKept, RerunInv, TablesOfDays, Signed
  <2>4. PassIsStored'
    BY <2>1, <2>2, <1>3 DEF RerunInv, PassIsStored
  <2> QED BY <2>3, <2>4, <1>2, <1>3, WholeAfterWrite
<1>7. ASSUME SaveDay PROVE RerunInv'
  <2>1. pass'.step = "submit" /\ pass.step = "day"
    BY <1>2, <1>7, PassGoesOn DEF SaveDay
  <2>2. /\ cellDays'[key] = {DayRow(pass.record, FALSE)} /\ DOMAIN cellDays' = DayKeys
        /\ \A k \in DayKeys : k # key => cellDays'[k] = cellDays[k]
        /\ UNCHANGED <<cellHours, sensorVerdicts, dayLog>>
    BY <1>4, <1>7 DEF SaveDay, RerunInv, TablesOfDays
  <2>3. OthersAreKept(key) /\ TablesOfDays'
    BY <2>2 DEF OthersAreKept, RerunInv, TablesOfDays
  <2>4. ~Signed(key)'
    BY <1>3, <2>2 DEF Signed, DayRow
  <2>5. PassIsStored'
    BY <2>1, <2>2, <1>3 DEF RerunInv, PassIsStored
  <2> QED BY <2>3, <2>4, <2>5, <1>2, <1>3, WholeAfterWrite
<1>8. ASSUME Submit PROVE RerunInv'
  <2>1. pass'.step = "mark" /\ pass.step = "submit"
    BY <1>2, <1>8, PassGoesOn DEF Submit
  <2>2. /\ dayLog'[key] = {[record |-> pass.record, reputation |-> pass.reputation, readAt |-> pass.readAt]}
        /\ DOMAIN dayLog' = DayKeys
        /\ \A k \in DayKeys : k # key => dayLog'[k] = dayLog[k]
        /\ UNCHANGED <<cellHours, sensorVerdicts, cellDays>>
    BY <1>4, <1>8 DEF Submit, Submitted, tables, RerunInv, TablesOfDays
  <2>3. OthersAreKept(key) /\ TablesOfDays' /\ ~Signed(key)'
    BY <2>2, <1>4 DEF OthersAreKept, RerunInv, TablesOfDays, Signed
  <2>4. PassIsStored'
    BY <2>1, <2>2, <1>3 DEF RerunInv, PassIsStored
  <2> QED BY <2>3, <2>4, <1>2, <1>3, WholeAfterWrite
<1> QED BY <1>5, <1>6, <1>7, <1>8

(* The pass ends, with its day on chain and marked or not.                 *)
LEMMA RerunOfEnds ==
  ASSUME RerunInv, SubmitUnanswered \/ MarkDaySubmitted
  PROVE  RerunInv'
<1> PICK key : key = pass.key
  OBVIOUS
<1>1. pass # NoPass /\ pass' = NoPass
  <2>1. pass.step \in {"submit", "mark"} /\ pass' = NoPass
    BY DEF SubmitUnanswered, MarkDaySubmitted
  <2> QED BY <2>1 DEF NoPass
<1>2. key \in DayKeys /\ ~Signed(key)
  BY <1>1 DEF RerunInv, PassIsWhole
<1>3. PassIsWhole' /\ PassIsStored'
  BY <1>1 DEF PassIsWhole, PassIsStored, NoPass
<1>4. ASSUME SubmitUnanswered PROVE RerunInv'
  <2>1. /\ DOMAIN dayLog' = DayKeys /\ \A k \in DayKeys : k # key => dayLog'[k] = dayLog[k]
        /\ UNCHANGED <<cellHours, sensorVerdicts, cellDays>>
    BY <1>4, <1>2 DEF SubmitUnanswered, Submitted, tables, RerunInv, TablesOfDays
  <2>2. OthersAreKept(key) /\ TablesOfDays' /\ ~Signed(key)'
    BY <2>1, <1>2 DEF OthersAreKept, RerunInv, TablesOfDays, Signed
  <2>3. SignedIsStored'
    BY <2>2, OthersStayStored DEF RerunInv
  <2> QED BY <2>2, <2>3, <1>3 DEF RerunInv
<1>5. ASSUME MarkDaySubmitted PROVE RerunInv'
  <2>1. /\ cellDays'[key] = {[row EXCEPT !.signed = TRUE] : row \in cellDays[key]}
        /\ DOMAIN cellDays' = DayKeys /\ \A k \in DayKeys : k # key => cellDays'[k] = cellDays[k]
        /\ UNCHANGED <<cellHours, sensorVerdicts, dayLog>> /\ pass.step = "mark"
    BY <1>5, <1>2 DEF MarkDaySubmitted, RerunInv, TablesOfDays
  <2>2. /\ cellHours[key] = LeavesOf(pass.record)
        /\ Cardinality(sensorVerdicts[key]) = Judged(pass.reputation)
        /\ cellDays[key] = {DayRow(pass.record, FALSE)}
        /\ dayLog[key] = {[record |-> pass.record, reputation |-> pass.reputation, readAt |-> pass.readAt]}
    BY <2>1 DEF RerunInv, PassIsStored
  <2>3. cellDays'[key] = {DayRow(pass.record, TRUE)}
    BY <2>1, <2>2 DEF DayRow
  <2> DEFINE taken == [record |-> pass.record, reputation |-> pass.reputation, readAt |-> pass.readAt]
  <2>4. taken.record = pass.record /\ taken.reputation = pass.reputation /\ taken \in dayLog'[key]
    BY <2>1, <2>2
  <2> HIDE DEF taken
  <2>5. \E t \in dayLog'[key] : /\ cellHours'[key] = LeavesOf(t.record)
                                /\ cellDays'[key] = {DayRow(t.record, TRUE)}
                                /\ Cardinality(sensorVerdicts'[key]) = Judged(t.reputation)
    BY <2>1, <2>2, <2>3, <2>4
  <2>6. OthersAreKept(key) /\ TablesOfDays'
    BY <2>1 DEF OthersAreKept, RerunInv, TablesOfDays
  <2>7. ASSUME NEW k \in DayKeys, Signed(k)' PROVE CanBeRerun(k)'
    <3>1. CASE k = key
      BY <2>5, <3>1 DEF CanBeRerun
    <3>2. CASE k # key
      BY <2>6, <2>7, <3>2, SignedStaysStored DEF OthersAreKept, RerunInv
    <3> QED BY <3>1, <3>2
  <2>8. SignedIsStored'
    BY <2>7 DEF SignedIsStored
  <2> QED BY <2>6, <2>8, <1>3 DEF RerunInv
<1> QED BY <1>4, <1>5

LEMMA RerunStep ==
  ASSUME NetworkInv, PassIsRecord, RerunInv, [DayCloseNext]_dayCloseVars
  PROVE  RerunInv'
<1>1. ASSUME \/ \E s \in Sensors : \/ \E v \in Gauges, at \in Moments : Report(s, v, at)
                                   \/ \E c \in Places : MoveSensor(s, c)
                                   \/ StopVoting(s)
             \/ MirrorRegistry \/ Advance \/ UNCHANGED dayCloseVars
      PROVE  UNCHANGED <<pass, tables, dayLog>>
  <2>1. CASE \E s \in Sensors, v \in Gauges, at \in Moments : Report(s, v, at)
    BY <2>1 DEF Report
  <2>2. CASE \E s \in Sensors, c \in Places : MoveSensor(s, c)
    BY <2>2 DEF MoveSensor
  <2>3. CASE \E s \in Sensors : StopVoting(s)
    BY <2>3 DEF StopVoting
  <2>4. CASE MirrorRegistry \/ Advance \/ UNCHANGED dayCloseVars
    BY <2>4 DEF MirrorRegistry, Advance, dayCloseVars
  <2> QED BY <1>1, <2>1, <2>2, <2>3, <2>4
<1>2. ASSUME AbandonDay PROVE pass' = NoPass /\ UNCHANGED <<tables, dayLog>>
  BY <1>2 DEF AbandonDay
<1> QED BY <1>1, <1>2, RerunOfBegin, RerunOfNoPass, RerunOfWrites, RerunOfEnds DEF DayCloseNext, CloseCellDay

LEMMA RerunInit == ASSUME DayCloseInit PROVE RerunInv
<1>1. pass = NoPass /\ TablesOfDays /\ \A k \in DayKeys : cellDays[k] = {}
  BY DEF DayCloseInit, DayCloseFrom, TablesOfDays
<1>2. PassIsWhole
  BY <1>1 DEF PassIsWhole
<1>3. PassIsStored
  <2>1. pass.step = "idle"
    BY <1>1 DEF NoPass
  <2> QED BY <2>1 DEF PassIsStored
<1>4. SignedIsStored
  BY <1>1 DEF SignedIsStored, Signed
<1> QED BY <1>1, <1>2, <1>3, <1>4 DEF RerunInv

(* A signed day can be rerun from what is stored of it, although the       *)
(* worker stops between any two of its writes, loses the answer of the     *)
(* chain, and closes the day again on other readings (interval.ts,         *)
(* closeCellDay).                                                          *)
THEOREM StoredDaysCanBeRerun == DayCloseSpec => []SignedDaysCanBeRerun
<1>1. DayCloseInit => NetworkInv /\ PassIsRecord /\ RerunInv
  <2>1. DayCloseInit => pass = NoPass
    BY DEF DayCloseInit, DayCloseFrom
  <2> QED BY <2>1, NetworkInit, RerunInit DEF PassIsRecord
<1>2. NetworkInv /\ PassIsRecord /\ RerunInv /\ [DayCloseNext]_dayCloseVars
        => (NetworkInv /\ PassIsRecord /\ RerunInv)'
  BY NetworkStep, PassStaysRecord, RerunStep
<1>3. RerunInv => SignedDaysCanBeRerun
  BY RerunIsSigned DEF RerunInv
<1> QED BY <1>1, <1>2, <1>3, PTL DEF DayCloseSpec

-----------------------------------------------------------------------------
(***************************************************************************)
(* A sensor that moves.  The registry remembers one move of each sensor,   *)
(* and the mirror is the registry as it was when it was read: a vote that  *)
(* was counted stands in the registry, as a vote where the sensor is or    *)
(* where it was, for as long as a cell may still close its day.            *)
(***************************************************************************)
(* Since the mirror was read the sensor has stayed, has moved once, or has *)
(* moved again after the wait.                                             *)
RowFollows(s) ==
  LET row == mirrored[s]  held == registry[s] IN
  \/ held.movedAt = row.movedAt /\ held.cell = row.cell /\ held.previousCell = row.previousCell
  \/ /\ held.movedAt # Never /\ held.movedAt >= readAt /\ held.previousCell = row.cell
     /\ row.movedAt # Never => DayIndexAt(held.movedAt) >= DayIndexAt(row.movedAt) + MoveWait
  \/ held.movedAt # Never /\ DayIndexAt(held.movedAt) >= DayIndexAt(readAt) + MoveWait

MirrorFollows == \A s \in Sensors : RowFollows(s)

(* Who voted in an interval of a day, on a mirror read since the interval  *)
(* began: in what the chain took, or in what is about to be sent.          *)
Voted(record, s, i) == \E l \in record.root[i][3] : l.sensor = s

VotedIn(s, key, i) ==
  \/ \E t \in dayLog[key] : t.readAt > IntervalStart(key[2], i) /\ Voted(t.record, s, i)
  \/ /\ pass # NoPass /\ pass.key = key
     /\ pass.readAt > IntervalStart(key[2], i) /\ Voted(pass.record, s, i)

(* Where a vote of a day that may still be closed elsewhere was cast: in   *)
(* the cell the sensor is in since before the interval, or in the one it   *)
(* left after the interval began.                                          *)
StandsIn(held, c, start) ==
  \/ held.cell = c /\ (held.movedAt # Never => held.movedAt <= start)
  \/ held.movedAt # Never /\ held.previousCell = c /\ start < held.movedAt

VoteStands(s, c, d, i) ==
  LET start == IntervalStart(d, i) IN
  /\ \E at \in Nat : start <= at /\ DayIndexAt(at) = d
  /\ d < DayIndexAt(moment)
  /\ DayIndexAt(moment) <= d + DayBacklog => StandsIn(registry[s], c, start)

VotesStand ==
  \A c \in Places, d \in ClosedDays, i \in Intervals :
    \A s : VotedIn(s, <<c, d>>, i) => s \in Sensors /\ VoteStands(s, c, d, i)

OneCellEach ==
  \A c, e \in Places, d \in ClosedDays, i \in Intervals :
    \A s : VotedIn(s, <<c, d>>, i) /\ VotedIn(s, <<e, d>>, i) => c = e

VotesInv == MirrorFollows /\ VotesStand /\ OneCellEach

LEMMA DaysInOrder ==
  ASSUME NEW a \in Nat, NEW b \in Nat
  PROVE  DayIndexAt(a) \in Nat /\ (a <= b => DayIndexAt(a) <= DayIndexAt(b))
<1>1. DayTicks \in Nat \ {0}
  BY AggregateAssumption
<1> DEFINE p == a \div DayTicks
           q == b \div DayTicks
<1>2. p \in Nat /\ DayTicks * p <= a /\ a < DayTicks * (p + 1)
  BY <1>1
<1>3. q \in Nat /\ DayTicks * q <= b /\ b < DayTicks * (q + 1)
  BY <1>1
<1> HIDE DEF p, q
<1>4. ASSUME a <= b PROVE p <= q
  <2>1. SUFFICES ASSUME q + 1 <= p PROVE FALSE
    BY <1>2, <1>3
  <2>2. DayTicks * (q + 1) <= DayTicks * p
    BY <2>1, <1>1, <1>2, <1>3
  <2> QED BY <2>2, <1>1, <1>2, <1>3, <1>4
<1> QED BY <1>2, <1>4 DEF p, q, DayIndexAt

(* An interval begins on its day. *)
LEMMA Boundaries ==
  ASSUME NEW d \in ClosedDays, NEW i \in Intervals
  PROVE  /\ d \in Nat /\ IntervalStart(d, i) \in Nat /\ IntervalEnd(d, i) \in Nat
         /\ d <= DayIndexAt(IntervalStart(d, i))
<1>1. DayTicks \in Nat \ {0} /\ IntervalsPerDay \in Nat \ {0} /\ d \in Nat /\ i \in Nat
  BY AggregateAssumption, DayCloseAssumption DEF Intervals
<1>2. \A j \in Nat : IntervalStart(d, j) \in Nat
  <2> SUFFICES ASSUME NEW j \in Nat PROVE IntervalStart(d, j) \in Nat
    OBVIOUS
  <2>1. d * IntervalsPerDay \in Nat
    BY <1>1
  <2>2. (d * IntervalsPerDay + j) * DayTicks \in Nat
    BY <2>1, <1>1
  <2> QED BY <2>2, <1>1 DEF IntervalStart
<1>3. d * DayTicks <= IntervalStart(d, i)
  <2> DEFINE n     == IntervalsPerDay
             whole == d * DayTicks
             part  == i * DayTicks
             start == (whole * n + part) \div n
  <2>1. whole \in Nat /\ part \in Nat /\ n \in Nat \ {0}
    BY <1>1
  <2>2. whole * n \in Nat /\ whole * n + part \in Nat
    BY <2>1
  <2>3. (d * n + i) * DayTicks = whole * n + part
    BY <1>1
  <2> HIDE DEF n, whole, part
  <2>4. start \in Nat /\ whole * n + part < n * (start + 1)
    BY <2>1, <2>2
  <2>5. IntervalStart(d, i) = start
    BY <2>3 DEF IntervalStart, n
  <2> HIDE DEF start
  <2>6. ASSUME start + 1 <= whole PROVE FALSE
    <3>1. n * (start + 1) <= n * whole
      BY <2>1, <2>4, <2>6
    <3>2. n * whole = whole * n
      BY <2>1
    <3> QED BY <2>1, <2>2, <2>4, <3>1, <3>2
  <2>7. whole <= start
    BY <2>1, <2>4, <2>6
  <2> QED BY <2>5, <2>7 DEF whole
<1>4. DayIndexAt(d * DayTicks) = d /\ d * DayTicks \in Nat
  BY <1>1 DEF DayIndexAt
<1>5. d <= DayIndexAt(IntervalStart(d, i))
  <2>1. IntervalStart(d, i) \in Nat
    BY <1>1, <1>2
  <2> QED BY <1>3, <1>4, <2>1, DaysInOrder
<1>6. IntervalEnd(d, i) \in Nat
  BY <1>1, <1>2 DEF IntervalEnd
<1> QED BY <1>1, <1>2, <1>5, <1>6

LEMMA RowsAreTyped ==
  ASSUME NetworkInv, NEW s \in Sensors
  PROVE  /\ mirrored[s] \in Rows /\ registry[s] \in Rows
         /\ mirrored[s].movedAt \in Nat \cup {Never} /\ registry[s].movedAt \in Nat \cup {Never}
         /\ readAt \in Nat /\ moment \in Nat /\ readAt <= moment
         /\ registry[s].movedAt # Never => registry[s].previousCell # registry[s].cell
                                           /\ registry[s].movedAt <= moment
         /\ mirrored[s].movedAt # Never => mirrored[s].previousCell # mirrored[s].cell
                                           /\ mirrored[s].movedAt <= moment
BY DEF NetworkInv, NetworkOK, RowsExplainMoves, Rows

(* The steps that change neither the registry nor its mirror.              *)
LEMMA NetworkMoves ==
  ASSUME NetworkInv, [DayCloseNext]_dayCloseVars
  PROVE  /\ moment <= moment' /\ moment' \in Nat
         /\ \/ \E s \in Sensors, c \in Places : MoveSensor(s, c)
            \/ \E s \in Sensors : StopVoting(s)
            \/ MirrorRegistry
            \/ UNCHANGED <<registry, mirrored, readAt>>
<1>1. moment \in Nat
  BY DEF NetworkInv, NetworkOK
<1>2. ASSUME NEW s \in Sensors, NEW v \in Gauges, NEW at \in Moments, Report(s, v, at)
      PROVE  moment' = moment /\ UNCHANGED <<registry, mirrored, readAt>>
  BY <1>2 DEF Report
<1>3. ASSUME NEW s \in Sensors, NEW c \in Places, MoveSensor(s, c) PROVE moment' = moment
  BY <1>3 DEF MoveSensor
<1>4. ASSUME NEW s \in Sensors, StopVoting(s) PROVE moment' = moment
  BY <1>4 DEF StopVoting
<1>5. ASSUME MirrorRegistry PROVE moment' = moment
  BY <1>5 DEF MirrorRegistry
<1>6. ASSUME Advance PROVE moment' = moment + 1 /\ UNCHANGED <<registry, mirrored, readAt>>
  BY <1>6 DEF Advance, network
<1>7. ASSUME UNCHANGED <<network, moment>> PROVE moment' = moment /\ UNCHANGED <<registry, mirrored, readAt>>
  BY <1>7 DEF network
<1> QED BY <1>1, <1>2, <1>3, <1>4, <1>5, <1>6, <1>7, CloseLeavesNetwork DEF DayCloseNext

(* What a move does to a row, and to the others. *)
LEMMA MoveOfARow ==
  ASSUME NetworkInv, NEW s \in Sensors, NEW c \in Places, MoveSensor(s, c)
  PROVE  /\ UNCHANGED <<mirrored, readAt, moment>>
         /\ \A t \in Sensors \ {s} : registry'[t] = registry[t]
         /\ registry'[s].movedAt = moment /\ registry'[s].previousCell = registry[s].cell
         /\ registry[s].movedAt # Never => DayIndexAt(moment) >= DayIndexAt(registry[s].movedAt) + MoveWait
BY DEF MoveSensor, NetworkInv, NetworkOK, Rows

LEMMA MirrorStaysBehind ==
  ASSUME NetworkInv, MirrorFollows, [DayCloseNext]_dayCloseVars
  PROVE  MirrorFollows'
<1>1. MoveWait \in Nat
  BY DayCloseAssumption
<1>2. ASSUME NEW s \in Sensors, NEW c \in Places, MoveSensor(s, c), NEW t \in Sensors
      PROVE  RowFollows(t)'
  <2>1. UNCHANGED <<mirrored, readAt>> /\ (t # s => registry'[t] = registry[t])
    BY <1>2, MoveOfARow
  <2>2. RowFollows(t)
    BY DEF MirrorFollows
  <2>3. CASE t # s
    BY <2>1, <2>2, <2>3 DEF RowFollows
  <2>4. CASE t = s
    <3> DEFINE row == mirrored[s]
               held == registry[s]
               new == registry'[s]
    <3>1. /\ new.movedAt = moment /\ new.previousCell = held.cell
          /\ held.movedAt # Never => DayIndexAt(moment) >= DayIndexAt(held.movedAt) + MoveWait
      BY <1>2, MoveOfARow
    <3>2. /\ held.movedAt \in Nat \cup {Never} /\ moment \in Nat /\ readAt \in Nat /\ readAt <= moment
          /\ moment # Never
      BY RowsAreTyped DEF Never
    <3>3. DayIndexAt(readAt) \in Nat /\ DayIndexAt(moment) \in Nat
      BY <3>2, DaysInOrder
    <3>4. CASE held.movedAt = row.movedAt /\ held.cell = row.cell
      BY <2>1, <2>4, <3>1, <3>2, <3>4 DEF RowFollows
    <3>5. CASE held.movedAt # Never /\ held.movedAt >= readAt
      <4>1. held.movedAt \in Nat
        BY <3>2, <3>5
      <4>2. DayIndexAt(held.movedAt) \in Nat /\ DayIndexAt(readAt) <= DayIndexAt(held.movedAt)
        BY <3>2, <3>5, <4>1, DaysInOrder
      <4>3. DayIndexAt(moment) >= DayIndexAt(readAt) + MoveWait
        BY <1>1, <3>1, <3>3, <3>5, <4>2
      <4> QED BY <2>1, <2>4, <3>1, <3>2, <4>3 DEF RowFollows
    <3>6. CASE held.movedAt # Never /\ DayIndexAt(held.movedAt) >= DayIndexAt(readAt) + MoveWait
      <4>1. held.movedAt \in Nat
        BY <3>2, <3>6
      <4>2. DayIndexAt(held.movedAt) \in Nat
        BY <4>1, DaysInOrder
      <4>3. DayIndexAt(moment) >= DayIndexAt(readAt) + MoveWait
        BY <1>1, <3>1, <3>3, <3>6, <4>2
      <4> QED BY <2>1, <2>4, <3>1, <3>2, <4>3 DEF RowFollows
    <3> QED BY <2>2, <2>4, <3>4, <3>5, <3>6 DEF RowFollows
  <2> QED BY <2>3, <2>4
<1>3. ASSUME NEW s \in Sensors, StopVoting(s), NEW t \in Sensors
      PROVE  RowFollows(t)'
  <2>1. /\ UNCHANGED <<mirrored, readAt>> /\ registry'[t].cell = registry[t].cell
        /\ registry'[t].movedAt = registry[t].movedAt /\ registry'[t].previousCell = registry[t].previousCell
    BY <1>3 DEF StopVoting, NetworkInv, NetworkOK, Rows
  <2> QED BY <2>1 DEF MirrorFollows, RowFollows
<1>4. ASSUME MirrorRegistry, NEW s \in Sensors PROVE RowFollows(s)'
  BY <1>4 DEF MirrorRegistry, RowFollows
<1>5. ASSUME UNCHANGED <<registry, mirrored, readAt>> PROVE MirrorFollows'
  BY <1>5 DEF MirrorFollows, RowFollows
<1> QED BY <1>2, <1>3, <1>4, <1>5, NetworkMoves DEF MirrorFollows

(* A vote that stands goes on standing wherever the sensor moves, or its   *)
(* day is past closing.                                                    *)
LEMMA VoteGoesOn ==
  ASSUME DayBacklog < MoveWait, NetworkInv, [DayCloseNext]_dayCloseVars,
         NEW s \in Sensors, NEW c \in Places, NEW d \in ClosedDays, NEW i \in Intervals, VoteStands(s, c, d, i)
  PROVE  VoteStands(s, c, d, i)'
<1> DEFINE held == registry[s]
           new == registry'[s]
           start == IntervalStart(d, i)
<1>1. /\ MoveWait \in Nat /\ DayBacklog \in Nat /\ d \in Nat /\ start \in Nat /\ d <= DayIndexAt(start)
  BY DayCloseAssumption, Boundaries
<1>2. moment \in Nat /\ moment' \in Nat /\ moment <= moment'
  BY NetworkMoves DEF NetworkInv, NetworkOK
<1>3. DayIndexAt(moment) \in Nat /\ DayIndexAt(moment') \in Nat /\ DayIndexAt(moment) <= DayIndexAt(moment')
  BY <1>2, DaysInOrder
<1>4. PICK at \in Nat : start <= at /\ DayIndexAt(at) = d
  BY DEF VoteStands
<1>5. d < DayIndexAt(moment) /\ d < DayIndexAt(moment')
  BY <1>1, <1>3 DEF VoteStands
<1>6. SUFFICES ASSUME DayIndexAt(moment') <= d + DayBacklog PROVE StandsIn(new, c, start)
  BY <1>4, <1>5 DEF VoteStands
<1>7. StandsIn(held, c, start)
  BY <1>1, <1>3, <1>6 DEF VoteStands
<1>8. CASE UNCHANGED registry
  BY <1>7, <1>8
<1>9. ASSUME NEW t \in Sensors, StopVoting(t) PROVE StandsIn(new, c, start)
  <2>1. new.cell = held.cell /\ new.movedAt = held.movedAt /\ new.previousCell = held.previousCell
    BY <1>9 DEF StopVoting, NetworkInv, NetworkOK, Rows
  <2> QED BY <1>7, <2>1 DEF StandsIn
<1>10. ASSUME NEW t \in Sensors, NEW e \in Places, MoveSensor(t, e) PROVE StandsIn(new, c, start)
  <2>1. CASE t # s
    BY <1>7, <1>10, <2>1, MoveOfARow
  <2>2. CASE t = s
    <3>1. /\ new.movedAt = moment /\ new.previousCell = held.cell
          /\ held.movedAt # Never => DayIndexAt(moment) >= DayIndexAt(held.movedAt) + MoveWait
      BY <1>10, <2>2, MoveOfARow
    <3>2. held.movedAt \in Nat \cup {Never} /\ moment # Never
      BY <1>2, RowsAreTyped DEF Never
    <3>3. start < moment
      <4>1. ~(moment <= at)
        BY <1>2, <1>3, <1>4, <1>5, DaysInOrder
      <4> QED BY <1>1, <1>2, <1>4, <4>1
    <3>4. ASSUME held.movedAt # Never, start < held.movedAt PROVE FALSE
      <4>1. held.movedAt \in Nat
        BY <3>2, <3>4
      <4>2. DayIndexAt(held.movedAt) \in Nat /\ DayIndexAt(start) \in Nat /\ DayIndexAt(start) <= DayIndexAt(held.movedAt)
        BY <1>1, <3>4, <4>1, DaysInOrder
      <4> QED BY <1>1, <1>3, <1>6, <3>1, <3>4, <4>2
    <3>5. held.cell = c
      BY <1>7, <3>4 DEF StandsIn
    <3> QED BY <3>1, <3>2, <3>3, <3>5 DEF StandsIn
  <2> QED BY <2>1, <2>2
<1>11. ASSUME MirrorRegistry PROVE UNCHANGED registry
  BY <1>11 DEF MirrorRegistry
<1> QED BY <1>8, <1>9, <1>10, <1>11, NetworkMoves

(* Whose votes a pass counts: of readings taken in its cell, on its day,   *)
(* on the pass's side of the sensor's move.                                *)
LEMMA VotesOfPass ==
  ASSUME NetworkInv, NEW cell \in Places, NEW day \in ClosedDays, BeginDay(cell, day),
         NEW i \in Intervals, NEW s, Voted(pass'.record, s, i)
  PROVE  /\ s \in Sensors
         /\ \E r \in reports :
              LET row == mirrored[s] IN
              /\ r.sensor = s /\ r.cell = cell /\ DayIndexAt(r.at) = day
              /\ IntervalStart(day, i) <= r.at /\ r.at < IntervalEnd(day, i)
              /\ \/ row.cell = cell /\ (row.movedAt # Never => row.movedAt <= IntervalStart(day, i))
                 \/ row.cell # cell /\ row.previousCell = cell /\ IntervalEnd(day, i) <= row.movedAt
<1> DEFINE R == ReadingsOf(cell, day)
           B == Buckets(R, day)[i]
<1>1. pass'.record.root[i][3] = {Leaf(v) : v \in B}
  <2> DEFINE intervals == pass'.intervals
             row(j) == <<intervals[j].median, Cardinality(intervals[j].votes), intervals[j].root>>
  <2>1. pass'.record = CloseDay(intervals) /\ intervals[i] = CloseInterval(B)
    BY PassBegins
  <2> HIDE DEF intervals, B
  <2>2. pass'.record.root = [j \in Intervals |-> row(j)]
    BY <2>1 DEF CloseDay
  <2>3. pass'.record.root[i] = row(i)
    <3> HIDE DEF row
    <3> QED BY <2>2
  <2>4. row(i)[3] = intervals[i].root
    OBVIOUS
  <2>5. intervals[i].root = {Leaf(v) : v \in B}
    BY <2>1, IntervalFields
  <2> QED BY <2>3, <2>4, <2>5
<1>2. PICK v \in B : v.sensor = s
  <2>1. PICK l \in pass'.record.root[i][3] : l.sensor = s
    BY DEF Voted
  <2>2. PICK v \in B : l = Leaf(v)
    BY <1>1, <2>1
  <2> QED BY <2>1, <2>2 DEF Leaf
<1>3. /\ v \in R /\ IntervalStart(day, i) <= v.at /\ v.at < IntervalEnd(day, i)
      /\ VotesInInterval(v, IntervalStart(day, i), IntervalEnd(day, i))
  <2>1. v \in R /\ v.at >= IntervalStart(day, i) /\ v.at < IntervalEnd(day, i)
        /\ VotesInInterval(v, IntervalStart(day, i), IntervalEnd(day, i))
    BY <1>2 DEF Buckets
  <2> QED BY <2>1
<1>4. PICK r \in AcceptedHere(cell, day) : v = AsVote(r)
  BY <1>3 DEF ReadingsOf
<1>5. /\ r \in reports /\ r.cell = cell /\ DayIndexAt(r.at) = day
      /\ cell \in {mirrored[r.sensor].cell, mirrored[r.sensor].previousCell}
  BY <1>4 DEF AcceptedHere
<1>6. /\ v.sensor = r.sensor /\ v.at = r.at
      /\ v.votesFrom = (IF mirrored[r.sensor].cell = r.cell /\ mirrored[r.sensor].movedAt # Never
                        THEN {mirrored[r.sensor].movedAt} ELSE {})
      /\ v.votesUntil = (IF mirrored[r.sensor].cell # r.cell THEN {mirrored[r.sensor].movedAt} ELSE {})
  BY <1>4 DEF AsVote
<1>7. r.sensor = s /\ s \in Sensors
  BY <1>2, <1>5, <1>6 DEF NetworkInv, NetworkOK
<1>8. \/ mirrored[s].cell = cell /\ (mirrored[s].movedAt # Never => mirrored[s].movedAt <= IntervalStart(day, i))
      \/ /\ mirrored[s].cell # cell /\ mirrored[s].previousCell = cell
         /\ IntervalEnd(day, i) <= mirrored[s].movedAt
  <2> HIDE DEF B, R
  <2>1. /\ \A t \in v.votesFrom : IntervalStart(day, i) >= t
        /\ \A t \in v.votesUntil : IntervalEnd(day, i) <= t
    BY <1>3 DEF VotesInInterval
  <2> QED BY <2>1, <1>5, <1>6, <1>7
<1> QED BY <1>3, <1>5, <1>6, <1>7, <1>8

(* A vote is in the chain, or in hand, since its pass began.               *)
LEMMA VotesHaveAPass ==
  ASSUME PassIsRecord, RerunInv, [DayCloseNext]_dayCloseVars,
         NEW key \in DayKeys, NEW i, NEW s, VotedIn(s, key, i)'
  PROVE  \/ VotedIn(s, key, i)
         \/ \E cell \in Places, day \in ClosedDays :
              /\ BeginDay(cell, day) /\ key = <<cell, day>> /\ Voted(pass'.record, s, i)
              /\ readAt > IntervalStart(day, i)
<1>1. ASSUME NEW cell \in Places, NEW day \in ClosedDays, BeginDay(cell, day)
      PROVE  \/ VotedIn(s, key, i)
             \/ key = <<cell, day>> /\ Voted(pass'.record, s, i) /\ readAt > IntervalStart(day, i)
  <2>1. pass'.key = <<cell, day>> /\ UNCHANGED dayLog /\ pass'.readAt = readAt
    BY <1>1, PassBegins
  <2>2. key = <<cell, day>> => key[2] = day
    OBVIOUS
  <2> QED BY <2>1, <2>2 DEF VotedIn
<1>2. ASSUME Submitted, pass # NoPass, pass' = NoPass \/ (pass'.key = pass.key /\ pass'.record = pass.record /\ pass'.readAt = pass.readAt)
      PROVE  VotedIn(s, key, i)
  <2>1. dayLog'[key] = IF key = pass.key THEN {[record |-> pass.record, reputation |-> pass.reputation,
                                                readAt |-> pass.readAt]}
                       ELSE dayLog[key]
    BY <1>2 DEF Submitted, RerunInv, TablesOfDays
  <2>2. CASE \E t \in dayLog'[key] : t.readAt > IntervalStart(key[2], i) /\ Voted(t.record, s, i)
    <3>1. PICK t \in dayLog'[key] : t.readAt > IntervalStart(key[2], i) /\ Voted(t.record, s, i)
      BY <2>2
    <3>2. CASE key = pass.key
      <4>1. t.record = pass.record /\ t.readAt = pass.readAt
        BY <2>1, <3>1, <3>2
      <4> QED BY <1>2, <3>1, <3>2, <4>1 DEF VotedIn
    <3>3. CASE key # pass.key
      BY <2>1, <3>1, <3>3 DEF VotedIn
    <3> QED BY <3>2, <3>3
  <2>3. CASE /\ pass' # NoPass /\ pass'.key = key
             /\ pass'.readAt > IntervalStart(key[2], i) /\ Voted(pass'.record, s, i)
    BY <1>2, <2>3 DEF VotedIn
  <2> QED BY <2>2, <2>3 DEF VotedIn
<1>3. ASSUME UNCHANGED dayLog, pass' = NoPass \/ UNCHANGED pass
             \/ (pass # NoPass /\ pass'.key = pass.key /\ pass'.record = pass.record /\ pass'.readAt = pass.readAt)
      PROVE  VotedIn(s, key, i)
  BY <1>3 DEF VotedIn
<1>4. ASSUME Submit \/ SubmitUnanswered PROVE VotedIn(s, key, i)
  <2>1. pass.step = "submit" /\ Submitted
    BY <1>4 DEF Submit, SubmitUnanswered
  <2>2. pass # NoPass
    BY <2>1 DEF NoPass
  <2>3. pass' = NoPass \/ (pass'.key = pass.key /\ pass'.record = pass.record /\ pass'.readAt = pass.readAt)
    BY <1>4, <2>2, PassGoesOn DEF Submit, SubmitUnanswered
  <2> QED BY <1>2, <2>1, <2>2, <2>3
<1>5. ASSUME SaveIntervals \/ ReplaceDayVerdicts \/ SaveDay PROVE VotedIn(s, key, i)
  <2>1. pass.step \in {"intervals", "verdicts", "day"} /\ UNCHANGED dayLog
    BY <1>5 DEF SaveIntervals, ReplaceDayVerdicts, SaveDay
  <2>2. pass # NoPass
    BY <2>1 DEF NoPass
  <2>3. pass'.key = pass.key /\ pass'.record = pass.record /\ pass'.readAt = pass.readAt
    BY <1>5, <2>2, PassGoesOn DEF SaveIntervals, ReplaceDayVerdicts, SaveDay
  <2> QED BY <1>3, <2>1, <2>2, <2>3
<1>6. ASSUME MarkDaySubmitted \/ AbandonDay PROVE VotedIn(s, key, i)
  BY <1>3, <1>6 DEF MarkDaySubmitted, AbandonDay
<1>7. ASSUME NEW t \in Sensors, NEW v \in Gauges, NEW at \in Moments, Report(t, v, at) PROVE VotedIn(s, key, i)
  BY <1>3, <1>7 DEF Report
<1>8. ASSUME NEW t \in Sensors, StopVoting(t) \/ \E c \in Places : MoveSensor(t, c) PROVE VotedIn(s, key, i)
  BY <1>3, <1>8 DEF MoveSensor, StopVoting
<1>9. ASSUME MirrorRegistry \/ Advance \/ UNCHANGED dayCloseVars PROVE VotedIn(s, key, i)
  BY <1>3, <1>9 DEF MirrorRegistry, Advance, dayCloseVars
<1> QED BY <1>1, <1>4, <1>5, <1>6, <1>7, <1>8, <1>9 DEF DayCloseNext, CloseCellDay

(* A vote that a pass counts on a mirror read since the interval began     *)
(* stands, and is the sensor's only one.                                   *)
LEMMA VotesOfPassStand ==
  ASSUME DayBacklog < MoveWait, NetworkInv, MirrorFollows, VotesStand,
         NEW cell \in Places, NEW day \in ClosedDays, BeginDay(cell, day),
         NEW i \in Intervals, NEW s, Voted(pass'.record, s, i), readAt > IntervalStart(day, i)
  PROVE  /\ s \in Sensors /\ VoteStands(s, cell, day, i)
         /\ \A c \in Places : VotedIn(s, <<c, day>>, i) => c = cell
<1> DEFINE row == mirrored[s]
           held == registry[s]
           start == IntervalStart(day, i)
           end == IntervalEnd(day, i)
<1>1. s \in Sensors
  BY VotesOfPass
<1>2. PICK r \in reports :
        /\ r.sensor = s /\ r.cell = cell /\ DayIndexAt(r.at) = day /\ start <= r.at /\ r.at < end
        /\ \/ row.cell = cell /\ (row.movedAt # Never => row.movedAt <= start)
           \/ row.cell # cell /\ row.previousCell = cell /\ end <= row.movedAt
  BY VotesOfPass
<1>3. /\ r.at \in Nat /\ start \in Nat /\ end \in Nat /\ day \in Nat /\ day <= DayIndexAt(start)
      /\ MoveWait \in Nat /\ DayBacklog \in Nat
  BY DayCloseAssumption, Boundaries DEF NetworkInv, NetworkOK
<1>4. /\ row.movedAt \in Nat \cup {Never} /\ held.movedAt \in Nat \cup {Never}
      /\ readAt \in Nat /\ moment \in Nat /\ (held.movedAt # Never => held.movedAt <= moment)
      /\ row.previousCell = cell => row.movedAt # Never
  <2>1. row.previousCell = cell => row.movedAt # Never
    BY <1>1, PlacesAreNumbers DEF NetworkInv, RowsExplainMoves
  <2> QED BY <1>1, <2>1, RowsAreTyped
<1>5. day < DayIndexAt(moment) /\ DayIndexAt(moment) <= day + DayBacklog /\ DayIndexAt(moment) \in Nat
  BY <1>4, PassBegins, DaysInOrder
<1>6. held.movedAt # Never => /\ held.movedAt \in Nat /\ DayIndexAt(held.movedAt) \in Nat
                              /\ DayIndexAt(held.movedAt) < day + MoveWait
  <2>1. SUFFICES ASSUME held.movedAt # Never
                 PROVE  /\ held.movedAt \in Nat /\ DayIndexAt(held.movedAt) \in Nat
                        /\ DayIndexAt(held.movedAt) < day + MoveWait
    OBVIOUS
  <2>2. held.movedAt \in Nat /\ held.movedAt <= moment
    BY <1>4, <2>1
  <2>3. DayIndexAt(held.movedAt) \in Nat /\ DayIndexAt(held.movedAt) <= DayIndexAt(moment)
    BY <1>4, <2>2, DaysInOrder
  <2> QED BY <1>3, <1>5, <2>2, <2>3
<1>7. StandsIn(held, cell, start)
  <2>1. CASE held.movedAt = row.movedAt /\ held.cell = row.cell /\ held.previousCell = row.previousCell
    <3>1. CASE row.cell = cell /\ (row.movedAt # Never => row.movedAt <= start)
      BY <2>1, <3>1 DEF StandsIn
    <3>2. CASE row.previousCell = cell /\ end <= row.movedAt
      <4>1. row.movedAt \in Nat /\ row.movedAt # Never
        BY <1>4, <3>2
      <4>2. start < row.movedAt
        BY <1>2, <1>3, <3>2, <4>1
      <4> QED BY <2>1, <3>2, <4>1, <4>2 DEF StandsIn
    <3> QED BY <1>2, <3>1, <3>2
  <2>2. CASE /\ held.movedAt # Never /\ held.movedAt >= readAt /\ held.previousCell = row.cell
             /\ row.movedAt # Never => DayIndexAt(held.movedAt) >= DayIndexAt(row.movedAt) + MoveWait
    <3>1. start < held.movedAt
      BY <1>3, <1>4, <1>6, <2>2
    <3>2. CASE row.cell = cell
      BY <2>2, <3>1, <3>2 DEF StandsIn
    <3>3. CASE row.previousCell = cell /\ end <= row.movedAt
      <4>1. row.movedAt \in Nat /\ row.movedAt # Never
        BY <1>4, <3>3
      <4>2. r.at <= row.movedAt
        BY <1>2, <1>3, <3>3, <4>1
      <4>3. DayIndexAt(row.movedAt) \in Nat /\ day <= DayIndexAt(row.movedAt)
        BY <1>2, <1>3, <4>1, <4>2, DaysInOrder
      <4> QED BY <1>3, <1>6, <2>2, <4>1, <4>3
    <3> QED BY <1>2, <3>2, <3>3
  <2>3. CASE held.movedAt # Never /\ DayIndexAt(held.movedAt) >= DayIndexAt(readAt) + MoveWait
    <3>1. DayIndexAt(readAt) \in Nat /\ DayIndexAt(start) \in Nat /\ DayIndexAt(start) <= DayIndexAt(readAt)
      BY <1>3, <1>4, DaysInOrder
    <3> QED BY <1>3, <1>6, <2>3, <3>1
  <2> QED BY <1>1, <2>1, <2>2, <2>3 DEF MirrorFollows, RowFollows
<1>8. VoteStands(s, cell, day, i)
  BY <1>2, <1>3, <1>5, <1>7 DEF VoteStands
<1>9. ASSUME NEW c \in Places, VotedIn(s, <<c, day>>, i) PROVE c = cell
  <2>1. StandsIn(held, c, start)
    BY <1>5, <1>9 DEF VotesStand, VoteStands
  <2> QED BY <1>3, <1>4, <1>7, <2>1 DEF StandsIn
<1> QED BY <1>1, <1>8, <1>9

LEMMA VotesStep ==
  ASSUME DayBacklog < MoveWait,
         NetworkInv, PassIsRecord, RerunInv, VotesInv, [DayCloseNext]_dayCloseVars
  PROVE  VotesInv'
<1>1. MirrorFollows'
  BY MirrorStaysBehind DEF VotesInv
<1>2. ASSUME NEW c \in Places, NEW d \in ClosedDays, NEW i \in Intervals, NEW s, VotedIn(s, <<c, d>>, i)'
      PROVE  /\ s \in Sensors /\ VoteStands(s, c, d, i)
             /\ \/ VotedIn(s, <<c, d>>, i)
                \/ BeginDay(c, d) /\ Voted(pass'.record, s, i) /\ readAt > IntervalStart(d, i)
  <2>1. <<c, d>> \in DayKeys
    BY DEF DayKeys
  <2>2. \/ VotedIn(s, <<c, d>>, i)
        \/ BeginDay(c, d) /\ Voted(pass'.record, s, i) /\ readAt > IntervalStart(d, i)
    BY <1>2, <2>1, VotesHaveAPass
  <2>3. CASE VotedIn(s, <<c, d>>, i)
    BY <2>3 DEF VotesInv, VotesStand
  <2>4. CASE BeginDay(c, d) /\ Voted(pass'.record, s, i) /\ readAt > IntervalStart(d, i)
    BY <2>4, VotesOfPassStand DEF VotesInv
  <2> QED BY <2>2, <2>3, <2>4
<1>3. VotesStand'
  <2>1. ASSUME NEW c \in Places, NEW d \in ClosedDays, NEW i \in Intervals, NEW s, VotedIn(s, <<c, d>>, i)'
        PROVE  s \in Sensors /\ VoteStands(s, c, d, i)'
    BY <1>2, <2>1, VoteGoesOn
  <2> QED BY <2>1 DEF VotesStand
<1>4. OneCellEach'
  <2>1. ASSUME NEW c \in Places, NEW e \in Places, NEW d \in ClosedDays, NEW i \in Intervals, NEW s,
               VotedIn(s, <<c, d>>, i)', VotedIn(s, <<e, d>>, i)'
        PROVE  c = e
    <3>1. CASE VotedIn(s, <<c, d>>, i) /\ VotedIn(s, <<e, d>>, i)
      BY <3>1 DEF VotesInv, OneCellEach
    <3>2. CASE BeginDay(c, d) /\ Voted(pass'.record, s, i) /\ readAt > IntervalStart(d, i) /\ VotedIn(s, <<e, d>>, i)
      BY <3>2, VotesOfPassStand DEF VotesInv
    <3>3. CASE BeginDay(e, d) /\ Voted(pass'.record, s, i) /\ readAt > IntervalStart(d, i) /\ VotedIn(s, <<c, d>>, i)
      BY <3>3, VotesOfPassStand DEF VotesInv
    <3>4. CASE BeginDay(c, d) /\ BeginDay(e, d)
      <4>1. pass'.key = <<c, d>> /\ pass'.key = <<e, d>>
        BY <3>4, PassBegins
      <4> QED BY <4>1
    <3> QED BY <1>2, <2>1, <3>1, <3>2, <3>3, <3>4
  <2> QED BY <2>1 DEF OneCellEach
<1> QED BY <1>1, <1>3, <1>4 DEF VotesInv

(* No sensor votes in two cells at once, however often it moves, whatever  *)
(* time its readings claim, and whichever of the cells closes the day      *)
(* first (FR-059), provided that the backlog is shorter than the wait      *)
(* between two moves: the code waits fifteen days (OUTLIER_WINDOW_DAYS and *)
(* one) and closes the last seven (BACKLOG_DAYS).  A vote counts if the    *)
(* mirror was read after its interval began.                               *)
THEOREM MoversVoteOnce ==
  ASSUME DayBacklog < MoveWait
  PROVE  DayCloseSpec => []NoVoteInTwoCells
<1> DEFINE Inv == NetworkInv /\ PassIsRecord /\ RerunInv /\ VotesInv
<1>1. DayCloseInit => Inv
  <2> SUFFICES ASSUME DayCloseInit PROVE Inv
    OBVIOUS
  <2>1. NetworkInv /\ pass = NoPass /\ mirrored = registry
        /\ \A k \in DayKeys : dayLog[k] = {} /\ cellDays[k] = {}
    BY NetworkInit DEF DayCloseInit, DayCloseFrom
  <2>2. PassIsRecord /\ RerunInv
    BY <2>1, RerunInit DEF PassIsRecord
  <2>3. MirrorFollows
    BY <2>1 DEF MirrorFollows, RowFollows
  <2>4. \A c \in Places, d \in ClosedDays : \A i, s : ~VotedIn(s, <<c, d>>, i)
    BY <2>1 DEF VotedIn, DayKeys
  <2> QED BY <2>1, <2>2, <2>3, <2>4 DEF VotesInv, VotesStand, OneCellEach
<1>2. Inv /\ [DayCloseNext]_dayCloseVars => Inv'
  BY NetworkStep, PassStaysRecord, RerunStep, VotesStep
<1>3. Inv => NoVoteInTwoCells
  <2> SUFFICES ASSUME Inv, NEW c \in Places, NEW e \in Places, NEW d \in ClosedDays, NEW i \in Intervals, c # e
               PROVE  VotersOf(<<c, d>>, i) \cap VotersOf(<<e, d>>, i) = {}
    BY DEF NoVoteInTwoCells
  <2>1. \A k, s : s \in VotersOf(k, i) => VotedIn(s, k, i)
    BY DEF VotersOf, VotedIn, Voted
  <2> QED BY <2>1 DEF VotesInv, OneCellEach
<1> QED BY <1>1, <1>2, <1>3, PTL DEF DayCloseSpec

-----------------------------------------------------------------------------
(***************************************************************************)
(* The tree.                                                               *)
(***************************************************************************)
(* Equal hashes hash equal things, and a leaf is not a node.               *)
LEMMA HashesAreFree ==
  /\ \A a, b, c, d : HashNode(a, b) = HashNode(c, d) => a = c /\ b = d
  /\ \A a, b : HashLeaf(a) = HashLeaf(b) => a = b
  /\ \A a, b, c : HashLeaf(a) # HashNode(b, c)
BY DEF HashNode, HashLeaf

(* A fold that looks at how many elements there were, and at none of them: *)
(* what it comes to on a set is what so many rounds come to.               *)
LEMMA RoundsOfAFold ==
  ASSUME NEW n \in Nat
  PROVE  /\ Cardinality({}) = 0 /\ \A k \in 0 .. n : 1 .. k \in SUBSET (1 .. n)
         /\ 1 .. 0 = {}
         /\ \A k \in 1 .. n : 1 .. k # {} /\ (1 .. k) \ {LastOf(1 .. k)} = 1 .. k - 1
         /\ \A s \in (SUBSET (1 .. n)) \ {{}} :
              /\ Cardinality(s) \in 1 .. n /\ s \ {LastOf(s)} \in SUBSET (1 .. n)
              /\ Cardinality(s \ {LastOf(s)}) = Cardinality(s) - 1
<1>1. Cardinality({}) = 0 /\ 1 .. 0 = {} /\ \A k \in 0 .. n : 1 .. k \in SUBSET (1 .. n)
  BY FS_EmptySet
<1>2. ASSUME NEW k \in 1 .. n PROVE 1 .. k # {} /\ (1 .. k) \ {LastOf(1 .. k)} = 1 .. k - 1
  <2>1. k \in Nat /\ k # 0 /\ k \in 1 .. k
    OBVIOUS
  <2> QED BY <2>1, LastOfThese
<1>3. ASSUME NEW s \in (SUBSET (1 .. n)) \ {{}}
      PROVE  /\ Cardinality(s) \in 1 .. n /\ s \ {LastOf(s)} \in SUBSET (1 .. n)
             /\ Cardinality(s \ {LastOf(s)}) = Cardinality(s) - 1
  <2>1. LastOf(s) \in s /\ s \ {LastOf(s)} \in SUBSET (1 .. n)
    BY LastIsOne
  <2>2. IsFiniteSet(s) /\ Cardinality(s) <= n
    <3>1. IsFiniteSet(1 .. n) /\ Cardinality(1 .. n) = n
      BY FS_Interval
    <3> QED BY <3>1, FS_Subset
  <2>3. Cardinality(s) \in Nat /\ Cardinality(s) # 0 /\ Cardinality(s \ {LastOf(s)}) = Cardinality(s) - 1
    BY <2>1, <2>2, FS_CardinalityType, FS_EmptySet, FS_RemoveElement
  <2> QED BY <2>1, <2>2, <2>3
<1> QED BY <1>1, <1>2, <1>3

(* What comes out of a number of rounds: out of none the first value, out  *)
(* of each the next.                                                       *)
LevelsFrom(level, n, lv) ==
  /\ lv[0] = level
  /\ \A k \in 1 .. n : lv[k] = IF Len(lv[k - 1]) > 1 THEN ParentLevel(lv[k - 1]) ELSE lv[k - 1]

LEMMA LevelsExist == ASSUME NEW n \in Nat, NEW level PROVE \E lv : LevelsFrom(level, n, lv)
<1> DEFINE up(l) == IF Len(l) > 1 THEN ParentLevel(l) ELSE l
           Fine(k, lv) == lv[0] = level /\ \A j \in 1 .. k : lv[j] = up(lv[j - 1])
           Good == {k \in 0 .. n : \E lv : Fine(k, lv)}
<1>1. 0 \in Good
  <2>1. Fine(0, [k \in {0} |-> level])
    OBVIOUS
  <2> HIDE DEF Fine
  <2> QED BY <2>1
<1>2. ASSUME NEW k \in 1 .. n, k - 1 \in Good PROVE k \in Good
  <2> HIDE DEF up
  <2>1. PICK lv : Fine(k - 1, lv)
    BY <1>2
  <2> DEFINE more == [j \in 0 .. k |-> IF j = k THEN up(lv[k - 1]) ELSE lv[j]]
  <2>2. more[0] = level /\ more[k] = up(more[k - 1])
    BY <2>1
  <2>3. \A j \in 1 .. k - 1 : more[j] = up(more[j - 1])
    BY <2>1
  <2>4. Fine(k, more)
    <3> HIDE DEF more
    <3> QED BY <2>2, <2>3
  <2> HIDE DEF Fine
  <2> QED BY <2>4
<1>3. n \in Good
  <2> HIDE DEF Good
  <2> QED BY <1>1, <1>2, StepByStep
<1> QED BY <1>3 DEF LevelsFrom

(* The root is what the rounds of ParentLevel end with.                    *)
LEMMA RootIsTheLastLevel ==
  ASSUME NEW n \in Nat \ {0}, NEW bytes, DOMAIN bytes = 1 .. n, bytes # <<>>
  PROVE  \E lv : /\ LevelsFrom([i \in 1 .. n |-> HashLeaf(bytes[i])], n, lv)
                 /\ MerkleRoot(bytes) = {lv[n][1]}
<1> DEFINE base == [i \in 1 .. n |-> HashLeaf(bytes[i])]
           up(l) == IF Len(l) > 1 THEN ParentLevel(l) ELSE l
           Solves(g) == g = [s \in SUBSET (1 .. n) |-> IF s = {} THEN base ELSE up(g[s \ {LastOf(s)}])]
           iter == CHOOSE g : Solves(g)
           lv == [k \in 0 .. n |-> iter[1 .. k]]
<1>1. MerkleRoot(bytes) = {iter[1 .. n][1]}
  BY DEF MerkleRoot, FoldLeft, MapThenFoldSet, Max, LastOf
<1> HIDE DEF base
<1>2. PICK old : LevelsFrom(base, n, old)
  BY LevelsExist
<1> DEFINE g == [s \in SUBSET (1 .. n) |-> old[Cardinality(s)]]
<1>3. Solves(g)
  <2> HIDE DEF up
  <2>1. g[{}] = base
    BY <1>2, RoundsOfAFold DEF LevelsFrom
  <2>2. ASSUME NEW s \in SUBSET (1 .. n), s # {} PROVE g[s] = up(g[s \ {LastOf(s)}])
    <3>1. /\ Cardinality(s) \in 1 .. n /\ s \ {LastOf(s)} \in SUBSET (1 .. n)
          /\ Cardinality(s \ {LastOf(s)}) = Cardinality(s) - 1
      BY <2>2, RoundsOfAFold
    <3>2. old[Cardinality(s)] = up(old[Cardinality(s) - 1])
      BY <1>2, <3>1 DEF LevelsFrom, up
    <3> QED BY <3>1, <3>2
  <2>3. \A s \in SUBSET (1 .. n) : g[s] = IF s = {} THEN base ELSE up(g[s \ {LastOf(s)}])
    <3> HIDE DEF g
    <3> QED BY <2>1, <2>2
  <2> QED BY <2>3
<1>4. Solves(iter)
  <2> HIDE DEF Solves
  <2> QED BY <1>3
<1>5. LevelsFrom(base, n, lv)
  <2> HIDE DEF up, iter
  <2>1. lv[0] = base
    BY <1>4, RoundsOfAFold
  <2>2. ASSUME NEW k \in 1 .. n PROVE lv[k] = up(lv[k - 1])
    <3>1. 1 .. k \in SUBSET (1 .. n) /\ 1 .. k # {} /\ (1 .. k) \ {LastOf(1 .. k)} = 1 .. k - 1 /\ k - 1 \in 0 .. n
      BY RoundsOfAFold
    <3>2. iter[1 .. k] = up(iter[1 .. k - 1])
      BY <1>4, <3>1
    <3> QED BY <3>1, <3>2
  <2> HIDE DEF lv
  <2> QED BY <2>1, <2>2 DEF LevelsFrom, up
<1>6. lv[n] = iter[1 .. n]
  OBVIOUS
<1> HIDE DEF lv, iter
<1> QED BY <1>1, <1>5, <1>6 DEF base

(* The levels of the tree over n hashes, up to a round past which nothing  *)
(* changes: level k has w[k] nodes, half as many as the one below and the  *)
(* odd one, which goes up as it is.                                        *)
Tree(base, n, lv, w, top) ==
  /\ w \in [0 .. top -> Nat \ {0}] /\ w[0] = n /\ w[top] = 1
  /\ \A k \in 1 .. top : w[k] = (w[k - 1] + 1) \div 2
  /\ \A k \in 0 .. top : DOMAIN lv[k] = 1 .. w[k] /\ Len(lv[k]) = w[k]
  /\ \A i \in 1 .. n : lv[0][i] = base[i]
  /\ \A k \in 1 .. top : \A i \in 1 .. w[k] :
       lv[k][i] = IF 2 * i <= w[k - 1] THEN HashNode(lv[k - 1][2 * i - 1], lv[k - 1][2 * i])
                  ELSE lv[k - 1][2 * i - 1]

LEMMA LengthOfMap == ASSUME NEW m \in Nat, NEW f, f = [i \in 1 .. m |-> f[i]] PROVE DOMAIN f = 1 .. m /\ Len(f) = m
OBVIOUS

LEMMA ParentsOf ==
  ASSUME NEW l, NEW m \in Nat \ {0}, DOMAIN l = 1 .. m, Len(l) = m, l = [i \in 1 .. m |-> l[i]]
  PROVE  LET p == IF m > 1 THEN ParentLevel(l) ELSE l
             h == (m + 1) \div 2 IN
         /\ h \in Nat \ {0} /\ (m > 1 => h < m) /\ (m = 1 => h = 1)
         /\ p = [i \in 1 .. h |-> p[i]] /\ DOMAIN p = 1 .. h /\ Len(p) = h
         /\ \A i \in 1 .. h : p[i] = IF 2 * i <= m THEN HashNode(l[2 * i - 1], l[2 * i]) ELSE l[2 * i - 1]
<1> DEFINE p == IF m > 1 THEN ParentLevel(l) ELSE l
           h == (m + 1) \div 2
           f(i) == IF 2 * i <= m THEN HashNode(l[2 * i - 1], l[2 * i]) ELSE l[2 * i - 1]
<1>1. h \in Nat \ {0} /\ (m > 1 => h < m) /\ (m = 1 => h = 1)
  OBVIOUS
<1>2. CASE m > 1
  <2>1. p = [i \in 1 .. h |-> f(i)]
    BY <1>2 DEF ParentLevel
  <2> HIDE DEF f, p, h
  <2>2. p = [i \in 1 .. h |-> p[i]] /\ \A i \in 1 .. h : p[i] = f(i)
    BY <2>1
  <2>3. DOMAIN p = 1 .. h /\ Len(p) = h
    BY <1>1, <2>2, LengthOfMap
  <2> QED BY <1>1, <2>2, <2>3 DEF f, p, h
<1>3. CASE m = 1
  <2>1. p = l /\ h = 1
    BY <1>3
  <2>2. \A i \in 1 .. 1 : i = 1 /\ ~(2 * i <= m) /\ 2 * i - 1 = 1
    BY <1>3
  <2>3. \A i \in 1 .. h : p[i] = f(i)
    BY <2>1, <2>2
  <2> HIDE DEF f
  <2> QED BY <1>1, <1>3, <2>1, <2>3 DEF f
<1> QED BY <1>2, <1>3

(* As many rounds as there are hashes are enough, and more change nothing. *)
LEMMA LevelsAreATree ==
  ASSUME NEW n \in Nat \ {0}, NEW base, NEW lv, LevelsFrom([i \in 1 .. n |-> base[i]], n, lv),
         NEW top \in Nat, n <= top
  PROVE  \E more, w : /\ Tree(base, n, more, w, top) /\ more[top] = lv[n]
                      /\ \A k \in 0 .. n : more[k] = lv[k]
<1> DEFINE w == [k \in 0 .. n |-> Len(lv[k])]
           Fine(k) == /\ w[k] \in Nat \ {0} /\ (w[k] = 1 \/ w[k] <= n - k)
                      /\ lv[k] = [i \in 1 .. w[k] |-> lv[k][i]] /\ DOMAIN lv[k] = 1 .. w[k] /\ Len(lv[k]) = w[k]
           Half(k) == /\ w[k] = (w[k - 1] + 1) \div 2
                      /\ \A i \in 1 .. w[k] :
                           lv[k][i] = IF 2 * i <= w[k - 1] THEN HashNode(lv[k - 1][2 * i - 1], lv[k - 1][2 * i])
                                      ELSE lv[k - 1][2 * i - 1]
           Good == {k \in 0 .. n : Fine(k)}
<1>1. Fine(0) /\ w[0] = n /\ \A i \in 1 .. n : lv[0][i] = base[i]
  <2>1. lv[0] = [i \in 1 .. n |-> base[i]]
    BY DEF LevelsFrom
  <2>2. lv[0] = [i \in 1 .. n |-> lv[0][i]] /\ \A i \in 1 .. n : lv[0][i] = base[i]
    BY <2>1
  <2>3. DOMAIN lv[0] = 1 .. n /\ Len(lv[0]) = n
    BY <2>2, LengthOfMap
  <2> QED BY <2>2, <2>3
<1>2. ASSUME NEW k \in 1 .. n, k - 1 \in Good PROVE k \in Good /\ Half(k)
  <2>1. Fine(k - 1) /\ k - 1 \in 0 .. n
    BY <1>2
  <2>2. lv[k] = IF w[k - 1] > 1 THEN ParentLevel(lv[k - 1]) ELSE lv[k - 1]
    BY <2>1 DEF LevelsFrom
  <2> DEFINE m == w[k - 1]
             h == (m + 1) \div 2
  <2>3. /\ h \in Nat \ {0} /\ (m > 1 => h < m) /\ (m = 1 => h = 1)
        /\ lv[k] = [i \in 1 .. h |-> lv[k][i]] /\ DOMAIN lv[k] = 1 .. h /\ Len(lv[k]) = h
        /\ \A i \in 1 .. h : lv[k][i] = IF 2 * i <= m THEN HashNode(lv[k - 1][2 * i - 1], lv[k - 1][2 * i])
                                        ELSE lv[k - 1][2 * i - 1]
    <3> DEFINE l == lv[k - 1]
               p == IF m > 1 THEN ParentLevel(l) ELSE l
    <3>1. m \in Nat \ {0} /\ l = [i \in 1 .. m |-> l[i]] /\ DOMAIN l = 1 .. m /\ Len(l) = m /\ lv[k] = p
      <4> HIDE DEF w
      <4> QED BY <2>1, <2>2
    <3> HIDE DEF l, m
    <3>2. /\ h \in Nat \ {0} /\ (m > 1 => h < m) /\ (m = 1 => h = 1)
          /\ p = [i \in 1 .. h |-> p[i]] /\ DOMAIN p = 1 .. h /\ Len(p) = h
          /\ \A i \in 1 .. h : p[i] = IF 2 * i <= m THEN HashNode(l[2 * i - 1], l[2 * i]) ELSE l[2 * i - 1]
      BY <3>1, ParentsOf
    <3> HIDE DEF p, h
    <3> QED BY <3>1, <3>2 DEF l
  <2>4. w[k] = h
    BY <2>3
  <2>5. m \in Nat \ {0} /\ (m = 1 \/ m <= n - (k - 1))
    BY <2>1
  <2>6. h = 1 \/ h <= n - k
    <3> HIDE DEF m, h, w
    <3> QED BY <2>3, <2>5
  <2>7. k \in 0 .. n
    OBVIOUS
  <2>8. Fine(k)
    <3> HIDE DEF w, h
    <3> QED BY <2>3, <2>4, <2>6
  <2>9. Half(k)
    <3> HIDE DEF w
    <3> QED BY <2>3, <2>4
  <2> HIDE DEF w, Fine, Half
  <2> QED BY <2>7, <2>8, <2>9
<1>3. \A k \in 0 .. n : k \in Good
  <2>1. 0 \in Good
    <3> HIDE DEF w
    <3> QED BY <1>1
  <2> HIDE DEF Good, Half
  <2> QED BY <2>1, <1>2, StepByStep
<1>4. w[n] = 1
  <2>1. Fine(n)
    <3> HIDE DEF Fine
    <3> QED BY <1>3
  <2> HIDE DEF w
  <2> QED BY <2>1
<1> DEFINE at(k) == IF k <= n THEN k ELSE n
           more == [k \in 0 .. top |-> lv[at(k)]]
           width == [k \in 0 .. top |-> w[at(k)]]
<1> HIDE DEF w
<1>5. \A k \in 0 .. top : Fine(at(k)) /\ more[k] = lv[at(k)] /\ width[k] = w[at(k)]
  <2>1. \A k \in 0 .. top : at(k) \in 0 .. n
    OBVIOUS
  <2> HIDE DEF at, Fine
  <2> QED BY <1>3, <2>1
<1>6. ASSUME NEW k \in 1 .. top
      PROVE  /\ width[k] = (width[k - 1] + 1) \div 2
             /\ \A i \in 1 .. width[k] :
                  more[k][i] = IF 2 * i <= width[k - 1] THEN HashNode(more[k - 1][2 * i - 1], more[k - 1][2 * i])
                               ELSE more[k - 1][2 * i - 1]
  <2>1. CASE k <= n
    <3>1. k \in 1 .. n /\ k - 1 \in Good
      BY <1>3, <2>1
    <3>2. Half(k)
      BY <1>2, <3>1
    <3>3. more[k] = lv[k] /\ width[k] = w[k] /\ more[k - 1] = lv[k - 1] /\ width[k - 1] = w[k - 1]
      BY <2>1
    <3> QED BY <3>2, <3>3
  <2>2. CASE k > n
    <3>1. more[k] = lv[n] /\ width[k] = 1 /\ more[k - 1] = lv[n] /\ width[k - 1] = 1
      BY <1>4, <2>2
    <3>2. \A i \in 1 .. 1 : i = 1 /\ ~(2 * i <= 1) /\ 2 * i - 1 = 1
      OBVIOUS
    <3> HIDE DEF more, width
    <3> QED BY <3>1, <3>2
  <2>3. k <= n \/ k > n
    OBVIOUS
  <2> HIDE DEF more, width
  <2> QED BY <2>1, <2>2, <2>3
<1>7. more[0] = lv[0] /\ width[0] = n /\ more[top] = lv[n] /\ width[top] = 1 /\ \A k \in 0 .. n : more[k] = lv[k]
  BY <1>1, <1>4
<1>8. width \in [0 .. top -> Nat \ {0}]
  <2> HIDE DEF at
  <2> QED BY <1>5
<1>9. Tree(base, n, more, width, top)
  <2> HIDE DEF more, width
  <2> QED BY <1>1, <1>5, <1>6, <1>7, <1>8 DEF Tree
<1> QED BY <1>7, <1>9

(* The tree a root is the top of. *)
LEMMA RootOfATree ==
  ASSUME NEW n \in Nat \ {0}, NEW bytes, DOMAIN bytes = 1 .. n, bytes # <<>>, NEW top \in Nat, n <= top
  PROVE  \E lv, w : /\ Tree([i \in 1 .. n |-> HashLeaf(bytes[i])], n, lv, w, top)
                    /\ LevelsFrom([i \in 1 .. n |-> HashLeaf(bytes[i])], n, lv)
                    /\ MerkleRoot(bytes) = {lv[top][1]}
<1> DEFINE base == [i \in 1 .. n |-> HashLeaf(bytes[i])]
<1>1. PICK lv : LevelsFrom(base, n, lv) /\ MerkleRoot(bytes) = {lv[n][1]}
  BY RootIsTheLastLevel
<1>2. base = [i \in 1 .. n |-> base[i]]
  OBVIOUS
<1> HIDE DEF base
<1>3. LevelsFrom([i \in 1 .. n |-> base[i]], n, lv)
  <2>1. LevelsFrom(base, n, lv)
    BY <1>1
  <2> QED BY <1>2, <2>1, Zenon
<1>4. PICK more, w : Tree(base, n, more, w, top) /\ more[top] = lv[n] /\ \A k \in 0 .. n : more[k] = lv[k]
  BY <1>3, LevelsAreATree
<1>5. LevelsFrom(base, n, more)
  <2>1. more[0] = base
    <3>1. 0 \in 0 .. n
      OBVIOUS
    <3> QED BY <1>1, <1>4, <3>1 DEF LevelsFrom
  <2>2. ASSUME NEW k \in 1 .. n
        PROVE  more[k] = IF Len(more[k - 1]) > 1 THEN ParentLevel(more[k - 1]) ELSE more[k - 1]
    <3>1. k \in 0 .. n /\ k - 1 \in 0 .. n
      OBVIOUS
    <3>2. more[k] = lv[k] /\ more[k - 1] = lv[k - 1]
      BY <1>4, <3>1
    <3>3. lv[k] = IF Len(lv[k - 1]) > 1 THEN ParentLevel(lv[k - 1]) ELSE lv[k - 1]
      BY <1>1 DEF LevelsFrom
    <3> QED BY <3>2, <3>3
  <2> QED BY <2>1, <2>2 DEF LevelsFrom
<1> QED BY <1>1, <1>4, <1>5 DEF base

(* The verifier's rounds. *)
ChecksFrom(at, siblings, n, v) ==
  v[0] = at /\ \A k \in 1 .. n : v[k] = Check(v[k - 1], siblings)

LEMMA ChecksExist == ASSUME NEW n \in Nat, NEW at, NEW siblings PROVE \E v : ChecksFrom(at, siblings, n, v)
<1> DEFINE up(x) == Check(x, siblings)
           Fine(k, v) == v[0] = at /\ \A j \in 1 .. k : v[j] = up(v[j - 1])
           Good == {k \in 0 .. n : \E v : Fine(k, v)}
<1> HIDE DEF up
<1>1. 0 \in Good
  <2>1. Fine(0, [k \in {0} |-> at])
    OBVIOUS
  <2> HIDE DEF Fine
  <2> QED BY <2>1
<1>2. ASSUME NEW k \in 1 .. n, k - 1 \in Good PROVE k \in Good
  <2>1. PICK v : Fine(k - 1, v)
    BY <1>2
  <2> DEFINE more == [j \in 0 .. k |-> IF j = k THEN up(v[k - 1]) ELSE v[j]]
  <2>2. more[0] = at /\ more[k] = up(more[k - 1])
    BY <2>1
  <2>3. \A j \in 1 .. k - 1 : more[j] = up(more[j - 1])
    BY <2>1
  <2>4. Fine(k, more)
    <3> HIDE DEF more
    <3> QED BY <2>2, <2>3
  <2> HIDE DEF Fine
  <2> QED BY <2>4
<1>3. n \in Good
  <2> HIDE DEF Good
  <2> QED BY <1>1, <1>2, StepByStep
<1> QED BY <1>3 DEF ChecksFrom, up

StartOfCheck(bytes, proof) ==
  [hash |-> HashLeaf(bytes), position |-> proof.index, width |-> proof.size, used |-> 0, fails |-> FALSE]

(* The verifier takes the proof. *)
Accepts(x, siblings, root) == ~x.fails /\ x.used = Len(siblings) /\ x.hash = root

LEMMA VerifierChecks ==
  ASSUME NEW proof, NEW n \in Nat \ {0}, proof.size = n, proof.index \in 0 .. n - 1, NEW bytes, NEW root
  PROVE  \E v : /\ ChecksFrom(StartOfCheck(bytes, proof), proof.siblings, n, v)
                /\ VerifyMerkleProof(bytes, proof, root)
                     <=> Accepts(v[n], proof.siblings, root)
<1> DEFINE base == [hash |-> HashLeaf(bytes), position |-> proof.index, width |-> proof.size,
                    used |-> 0, fails |-> FALSE]
           up(x) == Check(x, proof.siblings)
           Solves(g) == g = [s \in SUBSET (1 .. n) |-> IF s = {} THEN base ELSE up(g[s \ {LastOf(s)}])]
           iter == CHOOSE g : Solves(g)
           v == [k \in 0 .. n |-> iter[1 .. k]]
<1>1. VerifyMerkleProof(bytes, proof, root)
        <=> (~iter[1 .. n].fails /\ iter[1 .. n].used = Len(proof.siblings) /\ iter[1 .. n].hash = root)
  <2>1. proof.size >= 1 /\ proof.index \in 0 .. (proof.size - 1) /\ DOMAIN [i \in 1 .. proof.size |-> i] = 1 .. n
    OBVIOUS
  <2> QED BY <2>1 DEF VerifyMerkleProof, FoldLeft, MapThenFoldSet, Max, LastOf
<1> HIDE DEF base
<1>2. PICK old : ChecksFrom(base, proof.siblings, n, old)
  BY ChecksExist
<1> DEFINE g == [s \in SUBSET (1 .. n) |-> old[Cardinality(s)]]
<1>3. Solves(g)
  <2> HIDE DEF up
  <2>1. g[{}] = base
    BY <1>2, RoundsOfAFold DEF ChecksFrom
  <2>2. ASSUME NEW s \in SUBSET (1 .. n), s # {} PROVE g[s] = up(g[s \ {LastOf(s)}])
    <3>1. /\ Cardinality(s) \in 1 .. n /\ s \ {LastOf(s)} \in SUBSET (1 .. n)
          /\ Cardinality(s \ {LastOf(s)}) = Cardinality(s) - 1
      BY <2>2, RoundsOfAFold
    <3>2. old[Cardinality(s)] = up(old[Cardinality(s) - 1])
      BY <1>2, <3>1 DEF ChecksFrom, up
    <3> QED BY <3>1, <3>2
  <2>3. \A s \in SUBSET (1 .. n) : g[s] = IF s = {} THEN base ELSE up(g[s \ {LastOf(s)}])
    <3> HIDE DEF g
    <3> QED BY <2>1, <2>2
  <2> QED BY <2>3
<1>4. Solves(iter)
  <2> HIDE DEF Solves
  <2> QED BY <1>3
<1>5. ChecksFrom(base, proof.siblings, n, v)
  <2> HIDE DEF up, iter
  <2>1. v[0] = base
    BY <1>4, RoundsOfAFold
  <2>2. ASSUME NEW k \in 1 .. n PROVE v[k] = up(v[k - 1])
    <3>1. 1 .. k \in SUBSET (1 .. n) /\ 1 .. k # {} /\ (1 .. k) \ {LastOf(1 .. k)} = 1 .. k - 1 /\ k - 1 \in 0 .. n
      BY RoundsOfAFold
    <3>2. iter[1 .. k] = up(iter[1 .. k - 1])
      BY <1>4, <3>1
    <3> QED BY <3>1, <3>2
  <2> HIDE DEF v
  <2> QED BY <2>1, <2>2 DEF ChecksFrom, up
<1>6. v[n] = iter[1 .. n]
  OBVIOUS
<1> HIDE DEF v, iter
<1> QED BY <1>1, <1>5, <1>6 DEF base, StartOfCheck, Accepts

(* The rounds of the climb that makes a proof. *)
ClimbsFrom(at, n, c) ==
  c[0] = at /\ \A k \in 1 .. n : c[k] = Climb(c[k - 1], k)

LEMMA ClimbsExist == ASSUME NEW n \in Nat, NEW at PROVE \E c : ClimbsFrom(at, n, c)
<1> DEFINE up(x, k) == Climb(x, k)
           Fine(k, c) == c[0] = at /\ \A j \in 1 .. k : c[j] = up(c[j - 1], j)
           Good == {k \in 0 .. n : \E c : Fine(k, c)}
<1> HIDE DEF up
<1>1. 0 \in Good
  <2>1. Fine(0, [k \in {0} |-> at])
    OBVIOUS
  <2> HIDE DEF Fine
  <2> QED BY <2>1
<1>2. ASSUME NEW k \in 1 .. n, k - 1 \in Good PROVE k \in Good
  <2>1. PICK c : Fine(k - 1, c)
    BY <1>2
  <2> DEFINE more == [j \in 0 .. k |-> IF j = k THEN up(c[k - 1], k) ELSE c[j]]
  <2>2. more[0] = at /\ more[k] = up(more[k - 1], k)
    BY <2>1
  <2>3. \A j \in 1 .. k - 1 : more[j] = up(more[j - 1], j)
    BY <2>1
  <2>4. Fine(k, more)
    <3> HIDE DEF more
    <3> QED BY <2>2, <2>3
  <2> HIDE DEF Fine
  <2> QED BY <2>4
<1>3. n \in Good
  <2> HIDE DEF Good
  <2> QED BY <1>1, <1>2, StepByStep
<1> QED BY <1>3 DEF ClimbsFrom, up

LEMMA ProofIsClimbed ==
  ASSUME NEW n \in Nat \ {0}, NEW bytes, DOMAIN bytes = 1 .. n, NEW index
  PROVE  \E c : /\ ClimbsFrom([level |-> [i \in 1 .. n |-> HashLeaf(bytes[i])], position |-> index,
                               siblings |-> <<>>], n, c)
                /\ MerkleProof(bytes, index) = [index |-> index, size |-> Len(bytes), siblings |-> c[n].siblings]
<1> DEFINE base == [level |-> [i \in DOMAIN bytes |-> HashLeaf(bytes[i])], position |-> index, siblings |-> <<>>]
           Solves(g) == g = [s \in SUBSET (1 .. n) |->
                               IF s = {} THEN base ELSE Climb(g[s \ {LastOf(s)}], bytes[LastOf(s)])]
           iter == CHOOSE g : Solves(g)
           c == [k \in 0 .. n |-> iter[1 .. k]]
<1>1. MerkleProof(bytes, index) = [index |-> index, size |-> Len(bytes), siblings |-> iter[1 .. n].siblings]
  BY DEF MerkleProof, FoldLeft, MapThenFoldSet, Max, LastOf
<1>0. \A x, a, b : Climb(x, a) = Climb(x, b)
  BY DEF Climb
<1> HIDE DEF base
<1>2. PICK old : ClimbsFrom(base, n, old)
  BY ClimbsExist
<1> DEFINE g == [s \in SUBSET (1 .. n) |-> old[Cardinality(s)]]
<1>3. Solves(g)
  <2>1. g[{}] = base
    BY <1>2, RoundsOfAFold DEF ClimbsFrom
  <2>2. ASSUME NEW s \in SUBSET (1 .. n), s # {} PROVE g[s] = Climb(g[s \ {LastOf(s)}], bytes[LastOf(s)])
    <3>1. /\ Cardinality(s) \in 1 .. n /\ s \ {LastOf(s)} \in SUBSET (1 .. n)
          /\ Cardinality(s \ {LastOf(s)}) = Cardinality(s) - 1
      BY <2>2, RoundsOfAFold
    <3>2. old[Cardinality(s)] = Climb(old[Cardinality(s) - 1], Cardinality(s))
      BY <1>2, <3>1 DEF ClimbsFrom
    <3> QED BY <1>0, <3>1, <3>2
  <2>3. \A s \in SUBSET (1 .. n) : g[s] = IF s = {} THEN base ELSE Climb(g[s \ {LastOf(s)}], bytes[LastOf(s)])
    <3> HIDE DEF g
    <3> QED BY <2>1, <2>2
  <2> QED BY <2>3
<1>4. Solves(iter)
  <2> HIDE DEF Solves
  <2> QED BY <1>3
<1>5. ClimbsFrom(base, n, c)
  <2> HIDE DEF iter
  <2>1. c[0] = base
    BY <1>4, RoundsOfAFold
  <2>2. ASSUME NEW k \in 1 .. n PROVE c[k] = Climb(c[k - 1], k)
    <3>1. 1 .. k \in SUBSET (1 .. n) /\ 1 .. k # {} /\ (1 .. k) \ {LastOf(1 .. k)} = 1 .. k - 1 /\ k - 1 \in 0 .. n
      BY RoundsOfAFold
    <3>2. iter[1 .. k] = Climb(iter[1 .. k - 1], bytes[LastOf(1 .. k)])
      BY <1>4, <3>1
    <3> QED BY <1>0, <3>1, <3>2
  <2> HIDE DEF c
  <2> QED BY <2>1, <2>2 DEF ClimbsFrom
<1>6. c[n] = iter[1 .. n]
  OBVIOUS
<1> HIDE DEF c, iter
<1>7. base = [level |-> [i \in 1 .. n |-> HashLeaf(bytes[i])], position |-> index, siblings |-> <<>>]
  BY DEF base
<1> QED BY <1>1, <1>5, <1>6, <1>7

LEMMA TreeWidths ==
  ASSUME NEW n, NEW top \in Nat, NEW base, NEW lv, NEW w, Tree(base, n, lv, w, top)
  PROVE  /\ w[0] = n /\ w[top] = 1
         /\ \A k \in 0 .. top : w[k] \in Nat \ {0}
         /\ \A k \in 1 .. top : w[k] = (w[k - 1] + 1) \div 2 /\ k - 1 \in 0 .. top /\ w[k - 1] \in Nat \ {0}
<1>1. w \in [0 .. top -> Nat \ {0}] /\ w[0] = n /\ w[top] = 1 /\ \A k \in 1 .. top : w[k] = (w[k - 1] + 1) \div 2
  BY DEF Tree
<1>2. \A k \in 1 .. top : k - 1 \in 0 .. top
  OBVIOUS
<1> QED BY <1>1, <1>2

(* A verifier that has not failed is at a place of the tree. *)
AtPlace(x, w) == ~x.fails /\ x.width = w /\ x.position \in 0 .. w - 1

(* One round of it. *)
LEMMA CheckOnce ==
  ASSUME NEW x, NEW siblings, NEW w \in Nat \ {0}, AtPlace(x, w), ~Check(x, siblings).fails
  PROVE  LET y == Check(x, siblings)
             odd == x.position % 2 = 1
             takes == odd \/ x.position + 1 < w IN
         /\ AtPlace(y, (w + 1) \div 2)
         /\ y.position = x.position \div 2
         /\ takes => w > 1
         /\ ~takes => y.hash = x.hash /\ y.used = x.used
         /\ takes /\ odd => y.hash = HashNode(siblings[x.used + 1], x.hash)
         /\ takes /\ ~odd => y.hash = HashNode(x.hash, siblings[x.used + 1])
         /\ takes => y.used = x.used + 1
<1> DEFINE y == Check(x, siblings)
           p == x.position
           odd == p % 2 = 1
           takes == odd \/ p + 1 < w
<1>1. p \in 0 .. w - 1 /\ x.width = w /\ ~x.fails
  BY DEF AtPlace
<1>2. p \div 2 \in 0 .. ((w + 1) \div 2) - 1 /\ (takes => w > 1) /\ (~(w > 1) => p \div 2 = p /\ (w + 1) \div 2 = w)
  <2> HIDE DEF p
  <2> QED BY <1>1
<1>3. CASE ~(w > 1)
  <2>1. y = x
    BY <1>1, <1>3 DEF Check
  <2>2. ~takes
    <3> HIDE DEF p
    <3> QED BY <1>1, <1>3
  <2> HIDE DEF y, takes
  <2> QED BY <1>1, <1>2, <1>3, <2>1, <2>2 DEF AtPlace, takes, y
<1>4. CASE w > 1
  <2> DEFINE short == takes /\ x.used >= Len(siblings)
  <2>1. y = [hash     |-> IF ~takes \/ short THEN x.hash
                          ELSE IF odd THEN HashNode(siblings[x.used + 1], x.hash)
                          ELSE HashNode(x.hash, siblings[x.used + 1]),
             position |-> p \div 2,
             width    |-> (w + 1) \div 2,
             used     |-> IF takes /\ ~short THEN x.used + 1 ELSE x.used,
             fails    |-> short]
    BY <1>1, <1>4 DEF Check
  <2>2. y.fails = short
    BY <2>1
  <2>3. ~short
    BY <2>2
  <2>4. /\ y.position = p \div 2 /\ y.width = (w + 1) \div 2
        /\ y.used = IF takes THEN x.used + 1 ELSE x.used
        /\ y.hash = IF ~takes THEN x.hash
                    ELSE IF odd THEN HashNode(siblings[x.used + 1], x.hash)
                    ELSE HashNode(x.hash, siblings[x.used + 1])
    BY <2>1, <2>3
  <2> HIDE DEF short
  <2>5. AtPlace(y, (w + 1) \div 2)
    <3> HIDE DEF y, takes
    <3> QED BY <1>2, <2>2, <2>3, <2>4 DEF AtPlace
  <2> HIDE DEF y
  <2> QED BY <1>2, <2>4, <2>5 DEF y
<1> QED BY <1>3, <1>4

(* Failing is for good: a verifier that ends well never failed.            *)
LEMMA NeverFailed ==
  ASSUME NEW n \in Nat \ {0}, NEW base, NEW lv, NEW w, Tree(base, n, lv, w, n),
         NEW siblings, NEW at, AtPlace(at, n), NEW v, ChecksFrom(at, siblings, n, v), ~v[n].fails
  PROVE  \A k \in 0 .. n : AtPlace(v[k], w[k])
<1> DEFINE Ends == {k \in 0 .. n : ~v[n - k].fails}
           Good == {k \in 0 .. n : AtPlace(v[k], w[k])}
<1>1. \A k \in 0 .. n : k \in Ends
  <2>1. 0 \in Ends
    OBVIOUS
  <2>2. ASSUME NEW k \in 1 .. n, k - 1 \in Ends PROVE k \in Ends
    <3>1. n - (k - 1) \in 1 .. n /\ (n - (k - 1)) - 1 = n - k /\ ~v[n - (k - 1)].fails
      BY <2>2
    <3>2. v[n - (k - 1)] = Check(v[n - k], siblings)
      BY <3>1 DEF ChecksFrom
    <3>3. v[n - k].fails => v[n - (k - 1)] = v[n - k]
      BY <3>2 DEF Check
    <3> QED BY <3>1, <3>3
  <2> HIDE DEF Ends
  <2> QED BY <2>1, <2>2, StepByStep
<1>2. \A k \in 0 .. n : ~v[k].fails
  <2>1. ASSUME NEW k \in 0 .. n PROVE ~v[k].fails
    <3>1. n - k \in 0 .. n /\ n - (n - k) = k
      OBVIOUS
    <3> QED BY <1>1, <3>1
  <2> QED BY <2>1
<1>3. \A k \in 0 .. n : k \in Good
  <2>1. 0 \in Good
    <3>1. w[0] = n
      BY DEF Tree
    <3>2. v[0] = at
      BY DEF ChecksFrom
    <3>3. 0 \in 0 .. n
      OBVIOUS
    <3> QED BY <3>1, <3>2, <3>3
  <2>2. ASSUME NEW k \in 1 .. n, k - 1 \in Good PROVE k \in Good
    <3>1. /\ v[k] = Check(v[k - 1], siblings) /\ ~v[k].fails /\ k - 1 \in 0 .. n
          /\ w[k - 1] \in Nat \ {0} /\ w[k] = (w[k - 1] + 1) \div 2
      <4>1. v[k] = Check(v[k - 1], siblings)
        BY DEF ChecksFrom
      <4>2. k \in 0 .. n
        OBVIOUS
      <4> HIDE DEF Ends, Good
      <4> QED BY <1>2, <4>1, <4>2, TreeWidths
    <3>2. AtPlace(v[k], (w[k - 1] + 1) \div 2)
      BY <2>2, <3>1, CheckOnce
    <3> QED BY <3>1, <3>2
  <2> HIDE DEF Good
  <2> QED BY <2>1, <2>2, StepByStep
<1> QED BY <1>3

(* A verifier that ends with the root has started with the leaf of its     *)
(* place, whatever it was given.                                           *)
LEMMA VerifiedIsTheLeaf ==
  ASSUME NEW n \in Nat \ {0}, NEW base, NEW lv, NEW w, Tree(base, n, lv, w, n),
         NEW siblings, NEW at, AtPlace(at, n), NEW v, ChecksFrom(at, siblings, n, v),
         ~v[n].fails, v[n].hash = lv[n][1]
  PROVE  at.hash = base[at.position + 1]
<1> DEFINE Good == {k \in 0 .. n : v[n - k].hash = lv[n - k][v[n - k].position + 1]}
<1>1. \A k \in 0 .. n : AtPlace(v[k], w[k])
  BY NeverFailed
<1>2. 0 \in Good
  <2>1. w[n] = 1 /\ v[n].position \in 0 .. w[n] - 1
    <3>1. n \in 0 .. n
      OBVIOUS
    <3>2. w[n] = 1
      BY DEF Tree
    <3> HIDE DEF Good
    <3> QED BY <1>1, <3>1, <3>2 DEF AtPlace
  <2>2. v[n].position + 1 = 1 /\ n - 0 = n
    BY <2>1
  <2> QED BY <2>2
<1>3. ASSUME NEW k \in 1 .. n, k - 1 \in Good PROVE k \in Good
  <2> DEFINE j == n - (k - 1)
             x == v[j - 1]
             y == v[j]
             p == x.position
             m == w[j - 1]
  <2>1. j \in 1 .. n /\ j - 1 = n - k /\ j - 1 \in 0 .. n /\ k \in 0 .. n
    OBVIOUS
  <2>2. y.hash = lv[j][y.position + 1] /\ y = Check(x, siblings) /\ ~y.fails /\ AtPlace(x, m) /\ m \in Nat \ {0}
    <3>1. y.hash = lv[j][y.position + 1]
      BY <1>3
    <3> HIDE DEF j
    <3>2. v[j] = Check(v[j - 1], siblings)
      BY <2>1 DEF ChecksFrom
    <3>3. j \in 0 .. n /\ m \in Nat \ {0}
      BY <2>1, TreeWidths
    <3>4. AtPlace(v[j - 1], w[j - 1]) /\ AtPlace(v[j], w[j])
      BY <1>1, <2>1, <3>3
    <3> HIDE DEF Good
    <3> QED BY <3>1, <3>2, <3>3, <3>4 DEF AtPlace
  <2> HIDE DEF j, y, x, m
  <2>3. /\ y.position = p \div 2
        /\ p % 2 = 1 => y.hash = HashNode(siblings[x.used + 1], x.hash)
        /\ p % 2 # 1 /\ p + 1 < m => y.hash = HashNode(x.hash, siblings[x.used + 1])
        /\ p % 2 # 1 /\ ~(p + 1 < m) => y.hash = x.hash
    BY <2>2, CheckOnce
  <2>4. p \in 0 .. m - 1
    BY <2>2 DEF AtPlace
  <2> DEFINE i == p \div 2 + 1
  <2>5. i \in 1 .. w[j] /\ lv[j][i] = IF 2 * i <= m THEN HashNode(lv[j - 1][2 * i - 1], lv[j - 1][2 * i])
                                      ELSE lv[j - 1][2 * i - 1]
    <3>1. w[j] = (m + 1) \div 2
      BY <2>1 DEF Tree, m
    <3>2. i \in 1 .. w[j]
      <4> HIDE DEF p
      <4> QED BY <2>2, <2>4, <3>1
    <3> HIDE DEF i
    <3> QED BY <2>1, <3>2 DEF Tree, m
  <2>6. x.hash = lv[j - 1][p + 1]
    <3> HIDE DEF p
    <3>1. CASE p % 2 = 1
      <4>1. 2 * i = p + 1 /\ 2 * i <= m
        BY <2>2, <2>4, <3>1
      <4>2. HashNode(siblings[x.used + 1], x.hash) = HashNode(lv[j - 1][2 * i - 1], lv[j - 1][2 * i])
        BY <2>2, <2>3, <2>5, <3>1, <4>1
      <4>3. x.hash = lv[j - 1][2 * i]
        BY <4>2, HashesAreFree
      <4> QED BY <4>1, <4>3
    <3>2. CASE p % 2 # 1 /\ p + 1 < m
      <4>1. 2 * i - 1 = p + 1 /\ 2 * i <= m
        BY <2>2, <2>4, <3>2
      <4>2. HashNode(x.hash, siblings[x.used + 1]) = HashNode(lv[j - 1][2 * i - 1], lv[j - 1][2 * i])
        BY <2>2, <2>3, <2>5, <3>2, <4>1
      <4>3. x.hash = lv[j - 1][2 * i - 1]
        BY <4>2, HashesAreFree
      <4> QED BY <4>1, <4>3
    <3>3. CASE p % 2 # 1 /\ ~(p + 1 < m)
      <4>1. 2 * i - 1 = p + 1 /\ ~(2 * i <= m)
        BY <2>2, <2>4, <3>3
      <4> QED BY <2>2, <2>3, <2>5, <3>3, <4>1
    <3> QED BY <3>1, <3>2, <3>3
  <2> QED BY <2>1, <2>6 DEF x
<1>4. n \in Good
  <2> HIDE DEF Good
  <2> QED BY <1>2, <1>3, StepByStep
<1>5. v[0].hash = lv[0][v[0].position + 1] /\ v[0] = at /\ n - n = 0
  BY <1>4 DEF ChecksFrom
<1>6. at.position + 1 \in 1 .. n
  BY DEF AtPlace
<1> QED BY <1>5, <1>6 DEF Tree

(* One round of the climb. *)
LEMMA ClimbOnce ==
  ASSUME NEW x, NEW round, NEW m \in Nat \ {0}, Len(x.level) = m, x.position \in 0 .. m - 1
  PROVE  LET y == Climb(x, round)
             odd == x.position % 2 = 1
             takes == odd \/ x.position + 1 < m IN
         /\ y.level = IF m > 1 THEN ParentLevel(x.level) ELSE x.level
         /\ y.position = x.position \div 2 /\ y.position \in 0 .. ((m + 1) \div 2) - 1
         /\ ~takes => y.siblings = x.siblings
         /\ takes /\ odd => y.siblings = Append(x.siblings, x.level[x.position])
         /\ takes /\ ~odd => y.siblings = Append(x.siblings, x.level[x.position + 2])
<1> DEFINE p == x.position
           odd == p % 2 = 1
           takes == odd \/ p + 1 < m
           sibling == IF odd THEN p - 1 ELSE p + 1
           y == Climb(x, round)
<1>1. p \div 2 \in 0 .. ((m + 1) \div 2) - 1 /\ (takes => m > 1) /\ (~(m > 1) => p \div 2 = p)
  <2> HIDE DEF p
  <2>1. p \in 0 .. m - 1
    BY DEF p
  <2> QED BY <2>1
<1>2. CASE ~(m > 1)
  <2>1. y = x
    BY <1>2 DEF Climb
  <2> HIDE DEF y, takes
  <2> QED BY <1>1, <1>2, <2>1 DEF y, takes
<1>3. CASE m > 1
  <2>1. y = [level    |-> ParentLevel(x.level),
             position |-> p \div 2,
             siblings |-> IF sibling < m THEN Append(x.siblings, x.level[sibling + 1]) ELSE x.siblings]
    BY <1>3 DEF Climb
  <2>2. /\ sibling < m <=> takes
        /\ odd => sibling + 1 = p
        /\ ~odd => sibling + 1 = p + 2
    <3> HIDE DEF p
    <3>1. p \in 0 .. m - 1
      BY DEF p
    <3> QED BY <3>1
  <2>3. /\ y.level = ParentLevel(x.level) /\ y.position = p \div 2
        /\ y.siblings = IF sibling < m THEN Append(x.siblings, x.level[sibling + 1]) ELSE x.siblings
    BY <2>1
  <2> HIDE DEF y, sibling
  <2>4. odd => y.siblings = Append(x.siblings, x.level[p])
    BY <2>2, <2>3
  <2>5. takes /\ ~odd => y.siblings = Append(x.siblings, x.level[p + 2])
    BY <2>2, <2>3
  <2> QED BY <1>1, <1>3, <2>2, <2>3, <2>4, <2>5 DEF y
<1> QED BY <1>2, <1>3

NodesOf(lv, w, n) == UNION {{lv[k][i] : i \in 1 .. w[k]} : k \in 0 .. n}

(* The climb sees the tree, and collects hashes of it: those of one round  *)
(* are the first of those of the next, and so of the proof.                *)
LEMMA ClimbSeesTheTree ==
  ASSUME NEW n \in Nat \ {0}, NEW base, NEW lv, NEW w, Tree(base, n, lv, w, n), LevelsFrom(base, n, lv),
         NEW index \in 0 .. n - 1, NEW c,
         ClimbsFrom([level |-> base, position |-> index, siblings |-> <<>>], n, c)
  PROVE  /\ \A k \in 0 .. n : c[k].level = lv[k] /\ c[k].position \in 0 .. w[k] - 1
         /\ \A k \in 0 .. n : c[k].siblings \in Seq(NodesOf(lv, w, n))
         /\ \A k \in 0 .. n : /\ Len(c[k].siblings) \in 0 .. Len(c[n].siblings)
                              /\ \A i \in 1 .. Len(c[k].siblings) : c[k].siblings[i] = c[n].siblings[i]
<1> DEFINE U == UNION {{lv[k][i] : i \in 1 .. w[k]} : k \in 0 .. n}
           Sees(k) == c[k].level = lv[k] /\ c[k].position \in 0 .. w[k] - 1 /\ c[k].siblings \in Seq(U)
           Good == {k \in 0 .. n : Sees(k)}
           Grows(k) == /\ Len(c[k - 1].siblings) <= Len(c[k].siblings)
                       /\ \A i \in 1 .. Len(c[k - 1].siblings) : c[k - 1].siblings[i] = c[k].siblings[i]
<1>1. 0 \in Good
  <2>1. c[0] = [level |-> base, position |-> index, siblings |-> <<>>] /\ lv[0] = base /\ w[0] = n
    BY DEF ClimbsFrom, LevelsFrom, Tree
  <2>2. c[0].level = base /\ c[0].position = index /\ c[0].siblings = <<>>
    BY <2>1
  <2>3. Sees(0)
    <3> HIDE DEF U
    <3>1. <<>> \in Seq(U)
      OBVIOUS
    <3>2. index \in 0 .. n - 1
      OBVIOUS
    <3>3. c[0].position \in 0 .. w[0] - 1
      BY <2>1, <2>2, <3>2, Zenon
    <3> QED BY <2>1, <2>2, <3>1, <3>3, Zenon
  <2>4. 0 \in 0 .. n
    OBVIOUS
  <2> HIDE DEF Sees
  <2> QED BY <2>3, <2>4
<1>2. ASSUME NEW k \in 1 .. n, k - 1 \in Good PROVE k \in Good /\ Grows(k)
  <2> DEFINE x == c[k - 1]
             m == w[k - 1]
             y == c[k]
             p == x.position
  <2>1. y = Climb(x, k) /\ w[k] = (m + 1) \div 2 /\ m \in Nat \ {0} /\ k - 1 \in 0 .. n /\ k \in 0 .. n
    <3>1. c[k] = Climb(c[k - 1], k)
      BY DEF ClimbsFrom
    <3>2. k \in 0 .. n
      OBVIOUS
    <3> QED BY <3>1, <3>2, TreeWidths
  <2>2. x.level = lv[k - 1] /\ p \in 0 .. m - 1 /\ x.siblings \in Seq(U)
    <3> HIDE DEF U
    <3> QED BY <1>2
  <2>3. Len(lv[k - 1]) = m /\ DOMAIN lv[k - 1] = 1 .. m
    BY <2>1 DEF Tree
  <2>4. lv[k] = IF m > 1 THEN ParentLevel(lv[k - 1]) ELSE lv[k - 1]
    BY <2>3 DEF LevelsFrom
  <2> DEFINE odd == p % 2 = 1
             takes == odd \/ p + 1 < m
  <2>5. /\ y.level = IF m > 1 THEN ParentLevel(x.level) ELSE x.level
        /\ y.position \in 0 .. ((m + 1) \div 2) - 1
        /\ ~takes => y.siblings = x.siblings
        /\ takes /\ odd => y.siblings = Append(x.siblings, x.level[p])
        /\ takes /\ ~odd => y.siblings = Append(x.siblings, x.level[p + 2])
    <3> HIDE DEF x, y, m
    <3> QED BY <2>1, <2>2, <2>3, ClimbOnce
  <2>6. \A i \in 1 .. m : lv[k - 1][i] \in U
    BY <2>1
  <2>7. y.siblings \in Seq(U) /\ Grows(k)
    <3> HIDE DEF U, m, p
    <3>1. CASE ~takes
      BY <2>2, <2>5, <3>1
    <3>2. CASE takes
      <4>1. PICK e \in U : y.siblings = Append(x.siblings, e)
        <5>1. CASE odd
          <6>1. p \in 1 .. m
            <7>1. p \in 0 .. m - 1 /\ m \in Nat \ {0} /\ p % 2 = 1
              BY <2>1, <2>2, <5>1
            <7>2. p # 0
              BY <7>1
            <7> HIDE DEF odd
            <7> QED BY <7>1, <7>2
          <6> QED BY <2>2, <2>5, <2>6, <5>1, <6>1
        <5>2. CASE ~odd
          <6>1. p + 2 \in 1 .. m
            BY <2>1, <2>2, <3>2, <5>2
          <6> QED BY <2>2, <2>5, <2>6, <3>2, <5>2, <6>1
        <5> QED BY <5>1, <5>2
      <4> HIDE DEF takes
      <4> QED BY <2>2, <4>1
    <3> QED BY <3>1, <3>2
  <2>8. Sees(k)
    <3> HIDE DEF U
    <3> QED BY <2>1, <2>2, <2>4, <2>5, <2>7
  <2> HIDE DEF Sees, Grows
  <2> QED BY <2>1, <2>7, <2>8
<1>3. \A k \in 0 .. n : k \in Good
  <2> HIDE DEF Good, Grows
  <2> QED BY <1>1, <1>2, StepByStep
<1>4. \A k \in 1 .. n : Grows(k)
  <2>1. ASSUME NEW k \in 1 .. n PROVE Grows(k)
    <3>1. k - 1 \in 0 .. n
      OBVIOUS
    <3> HIDE DEF Good, Grows
    <3> QED BY <1>2, <1>3, <3>1
  <2> HIDE DEF Grows
  <2> QED BY <2>1
<1>5. \A k \in 0 .. n : Sees(k) /\ Len(c[k].siblings) \in Nat
  <2> HIDE DEF U
  <2> QED BY <1>3
<1> DEFINE First(k) == /\ Len(c[k].siblings) <= Len(c[n].siblings)
                       /\ \A i \in 1 .. Len(c[k].siblings) : c[k].siblings[i] = c[n].siblings[i]
           Back == {k \in 0 .. n : First(n - k)}
<1>6. 0 \in Back
  <2>1. n - 0 = n /\ Len(c[n].siblings) \in Nat /\ 0 \in 0 .. n
    <3> HIDE DEF Sees
    <3> QED BY <1>5
  <2> QED BY <2>1
<1>7. ASSUME NEW k \in 1 .. n, k - 1 \in Back PROVE k \in Back
  <2> DEFINE j == n - (k - 1)
  <2>1. j \in 1 .. n /\ j - 1 = n - k /\ j - 1 \in 0 .. n /\ j \in 0 .. n /\ k \in 0 .. n /\ First(j)
    BY <1>7
  <2> HIDE DEF j
  <2>2. Grows(j) /\ Len(c[j - 1].siblings) \in Nat /\ Len(c[j].siblings) \in Nat /\ Len(c[n].siblings) \in Nat
    <3> HIDE DEF Sees, Grows
    <3>1. n \in 0 .. n
      OBVIOUS
    <3> QED BY <1>4, <1>5, <2>1, <3>1
  <2>3. First(j - 1)
    <3> DEFINE a == c[j - 1].siblings
               b == c[j].siblings
               d == c[n].siblings
    <3>1. /\ Len(a) \in Nat /\ Len(b) \in Nat /\ Len(d) \in Nat
          /\ Len(a) <= Len(b) /\ \A i \in 1 .. Len(a) : a[i] = b[i]
          /\ Len(b) <= Len(d) /\ \A i \in 1 .. Len(b) : b[i] = d[i]
      BY <2>1, <2>2
    <3> HIDE DEF a, b, d
    <3>2. Len(a) <= Len(d) /\ \A i \in 1 .. Len(a) : a[i] = d[i]
      BY <3>1
    <3> QED BY <3>2 DEF a, d
  <2> HIDE DEF First
  <2> QED BY <2>1, <2>3
<1>8. \A k \in 0 .. n : First(k)
  <2>1. \A k \in 0 .. n : k \in Back
    <3> HIDE DEF Back
    <3> QED BY <1>6, <1>7, StepByStep
  <2>2. \A k \in 0 .. n : n - k \in 0 .. n /\ n - (n - k) = k
    OBVIOUS
  <2> HIDE DEF First
  <2> QED BY <2>1, <2>2
<1>9. n \in 0 .. n
  OBVIOUS
<1>10. \A k \in 0 .. n : Len(c[k].siblings) \in 0 .. Len(c[n].siblings)
  <2> HIDE DEF U
  <2> QED BY <1>5, <1>8, <1>9
<1>11. \A k \in 0 .. n : c[k].level = lv[k] /\ c[k].position \in 0 .. w[k] - 1
  <2> HIDE DEF U
  <2> QED BY <1>5
<1>12. \A k \in 0 .. n : c[k].siblings \in Seq(NodesOf(lv, w, n))
  <2> HIDE DEF U
  <2> QED BY <1>5 DEF U, NodesOf
<1>13. \A k \in 0 .. n : \A i \in 1 .. Len(c[k].siblings) : c[k].siblings[i] = c[n].siblings[i]
  BY <1>8
<1> QED BY <1>10, <1>11, <1>12, <1>13

(* The verifier in step with the climb: it has the hash of the place they  *)
(* are at, it has taken the hashes the climb collected, and what the climb *)
(* collects next is next.                                                  *)
Aligned(x, b, next, S, U, m) ==
  /\ m \in Nat \ {0} /\ S \in Seq(U)
  /\ AtPlace(x, m) /\ b.position = x.position
  /\ Len(b.level) = m /\ (\A i \in 1 .. m : b.level[i] \in U) /\ x.hash = b.level[x.position + 1]
  /\ b.siblings \in Seq(U) /\ x.used = Len(b.siblings)
  /\ Len(next.siblings) <= Len(S) /\ \A i \in 1 .. Len(next.siblings) : next.siblings[i] = S[i]

(* A round later both are above, and the verifier has the hash of there.   *)
Higher(x, b, y, z, m) ==
  LET i == x.position \div 2 + 1 IN
  /\ AtPlace(y, (m + 1) \div 2) /\ y.position = x.position \div 2 /\ z.position = x.position \div 2
  /\ y.used = Len(z.siblings)
  /\ y.hash = IF 2 * i <= m THEN HashNode(b.level[2 * i - 1], b.level[2 * i]) ELSE b.level[2 * i - 1]

LEMMA InStep ==
  ASSUME NEW m, NEW U, NEW S, NEW x, NEW b, NEW round, Aligned(x, b, Climb(b, round), S, U, m)
  PROVE  Higher(x, b, Check(x, S), Climb(b, round), m)
<1>0. PICK p, level, u, l, more, y, z :
        /\ p = x.position /\ level = b.level /\ u = Len(b.siblings) /\ l = b.siblings
        /\ y = Check(x, S) /\ z = Climb(b, round) /\ more = Climb(b, round).siblings
  BY Zenon
<1>00. /\ m \in Nat \ {0} /\ S \in Seq(U) /\ AtPlace(x, m)
       /\ y = Check(x, S) /\ z = Climb(b, round) /\ p \in 0 .. m - 1 /\ x.position = p /\ b.position = p
       /\ b.level = level /\ Len(level) = m /\ (\A i \in 1 .. m : level[i] \in U) /\ x.hash = level[p + 1]
       /\ u \in Nat /\ x.used = u /\ l \in Seq(U) /\ b.siblings = l /\ Len(l) = u
       /\ z.siblings = more /\ Len(more) <= Len(S) /\ (\A i \in 1 .. Len(more) : more[i] = S[i])
  BY <1>0 DEF Aligned, AtPlace
<1> DEFINE odd == p % 2 = 1
           takes == odd \/ p + 1 < m
           e == IF odd THEN level[p] ELSE level[p + 2]
<1>1. z.position = p \div 2 /\ (~takes => more = l) /\ (takes => more = Append(l, e))
  <2>1. /\ Climb(b, round).position = b.position \div 2
        /\ ~(b.position % 2 = 1 \/ b.position + 1 < m) => Climb(b, round).siblings = b.siblings
        /\ (b.position % 2 = 1 \/ b.position + 1 < m) /\ b.position % 2 = 1
             => Climb(b, round).siblings = Append(b.siblings, b.level[b.position])
        /\ (b.position % 2 = 1 \/ b.position + 1 < m) /\ ~(b.position % 2 = 1)
             => Climb(b, round).siblings = Append(b.siblings, b.level[b.position + 2])
    <3>1. Len(b.level) = m /\ b.position \in 0 .. m - 1 /\ m \in Nat \ {0}
      BY <1>00
    <3> QED BY <3>1, ClimbOnce
  <2>2. /\ z.position = p \div 2
        /\ ~takes => z.siblings = l
        /\ takes /\ odd => z.siblings = Append(l, level[p])
        /\ takes /\ ~odd => z.siblings = Append(l, level[p + 2])
    BY <1>00, <2>1, Zenon
  <2> HIDE DEF odd, takes
  <2> QED BY <1>00, <2>2 DEF e
<1>2. takes => e \in U
  <2>0. p \in 0 .. m - 1 /\ m \in Nat \ {0}
    BY <1>00
  <2>1. odd => p \in 1 .. m
    BY <2>0
  <2>2. takes /\ ~odd => p + 2 \in 1 .. m
    BY <2>0
  <2> HIDE DEF odd, takes
  <2> QED BY <1>00, <2>1, <2>2 DEF e
<1>3. (takes => u + 1 <= Len(S) /\ S[u + 1] = e /\ Len(more) = u + 1) /\ (~takes => Len(more) = u) /\ Len(S) \in Nat
  <2> HIDE DEF takes, e
  <2>1. takes => Len(more) = u + 1 /\ more[u + 1] = e
    BY <1>00, <1>1, <1>2
  <2> QED BY <1>00, <1>1, <2>1
<1>4. ~y.fails
  <2>1. x.width = m /\ ~x.fails /\ m \in Nat \ {0}
    BY <1>00 DEF AtPlace
  <2>2. CASE m > 1
    <3> DEFINE short == takes /\ u >= Len(S)
    <3>1. ~short
      <4> HIDE DEF takes
      <4> QED BY <1>00, <1>3
    <3>2. y = [hash     |-> IF ~takes \/ short THEN x.hash
                            ELSE IF odd THEN HashNode(S[x.used + 1], x.hash)
                            ELSE HashNode(x.hash, S[x.used + 1]),
               position |-> p \div 2,
               width    |-> (m + 1) \div 2,
               used     |-> IF takes /\ ~short THEN x.used + 1 ELSE x.used,
               fails    |-> short]
      BY <1>00, <2>1, <2>2 DEF Check
    <3>3. y.fails = short
      <4> HIDE DEF short, takes, odd
      <4> QED BY <3>2
    <3> QED BY <3>1, <3>3
  <2>3. CASE ~(m > 1)
    <3>1. y = x
      BY <1>00, <2>1, <2>3 DEF Check
    <3> QED BY <2>1, <3>1
  <2> QED BY <2>2, <2>3
<1>5. /\ AtPlace(y, (m + 1) \div 2)
      /\ y.position = p \div 2
      /\ ~takes => y.hash = level[p + 1] /\ y.used = u
      /\ takes /\ odd => y.hash = HashNode(S[u + 1], level[p + 1])
      /\ takes /\ ~odd => y.hash = HashNode(level[p + 1], S[u + 1])
      /\ takes => y.used = u + 1
  <2>1. LET odds == x.position % 2 = 1
            pairs == odds \/ x.position + 1 < m IN
        /\ AtPlace(Check(x, S), (m + 1) \div 2)
        /\ Check(x, S).position = x.position \div 2
        /\ ~pairs => Check(x, S).hash = x.hash /\ Check(x, S).used = x.used
        /\ pairs /\ odds => Check(x, S).hash = HashNode(S[x.used + 1], x.hash)
        /\ pairs /\ ~odds => Check(x, S).hash = HashNode(x.hash, S[x.used + 1])
        /\ pairs => Check(x, S).used = x.used + 1
    <3>1. ~Check(x, S).fails /\ m \in Nat \ {0} /\ AtPlace(x, m)
      BY <1>00, <1>4
    <3> QED BY <3>1, CheckOnce
  <2>2. x.position = p /\ x.used = u /\ x.hash = level[p + 1] /\ y = Check(x, S)
    BY <1>00
  <2> QED BY <2>1, <2>2, Zenon
<1> DEFINE i == p \div 2 + 1
<1>6. y.hash = IF 2 * i <= m THEN HashNode(level[2 * i - 1], level[2 * i]) ELSE level[2 * i - 1]
  <2>1. /\ odd => 2 * i = p + 1 /\ 2 * i - 1 = p /\ 2 * i <= m
        /\ takes /\ ~odd => 2 * i = p + 2 /\ 2 * i - 1 = p + 1 /\ 2 * i <= m
        /\ ~takes => 2 * i - 1 = p + 1 /\ ~(2 * i <= m)
        /\ odd => takes
    BY <1>00
  <2> HIDE DEF i
  <2>2. CASE odd
    <3>1. y.hash = HashNode(level[p], level[p + 1])
      <4> HIDE DEF odd, takes
      <4> QED BY <1>3, <1>5, <2>1, <2>2 DEF e
    <3> QED BY <2>1, <2>2, <3>1
  <2>3. CASE takes /\ ~odd
    <3>1. y.hash = HashNode(level[p + 1], level[p + 2])
      <4> HIDE DEF odd, takes
      <4> QED BY <1>3, <1>5, <2>3 DEF e
    <3> QED BY <2>1, <2>3, <3>1
  <2>4. CASE ~takes
    <3> HIDE DEF takes
    <3> QED BY <1>5, <2>1, <2>4
  <2> QED BY <2>2, <2>3, <2>4
<1>7. y.used = Len(more)
  <2> HIDE DEF takes, odd
  <2> QED BY <1>3, <1>5
<1>8. Climb(b, round).position = p \div 2 /\ Check(x, S).used = Len(Climb(b, round).siblings)
  BY <1>00, <1>1, <1>7, Zenon
<1> QED BY <1>00, <1>5, <1>6, <1>8, Zenon DEF Higher

(* The verifier takes the hashes in the order the climb collected them.    *)
LEMMA ClimbedIsVerified ==
  ASSUME NEW n \in Nat \ {0}, NEW base, NEW lv, NEW w, Tree(base, n, lv, w, n), LevelsFrom(base, n, lv),
         NEW index \in 0 .. n - 1, NEW c,
         ClimbsFrom([level |-> base, position |-> index, siblings |-> <<>>], n, c),
         NEW v, NEW at, AtPlace(at, n), at.hash = base[index + 1], at.position = index, at.used = 0,
         ChecksFrom(at, c[n].siblings, n, v)
  PROVE  Accepts(v[n], c[n].siblings, lv[n][1])
<1> DEFINE S == c[n].siblings
           U == NodesOf(lv, w, n)
           With(k) == /\ AtPlace(v[k], w[k]) /\ v[k].position = c[k].position
                      /\ v[k].used = Len(c[k].siblings)
                      /\ v[k].hash = lv[k][v[k].position + 1]
           Good == {k \in 0 .. n : With(k)}
<1>1. /\ \A k \in 0 .. n : c[k].level = lv[k] /\ c[k].position \in 0 .. w[k] - 1
      /\ \A k \in 0 .. n : Len(c[k].siblings) \in 0 .. Len(S)
      /\ \A k \in 0 .. n : \A i \in 1 .. Len(c[k].siblings) : c[k].siblings[i] = S[i]
      /\ \A k \in 0 .. n : c[k].siblings \in Seq(U)
  BY ClimbSeesTheTree
<1>2. 0 \in Good
  <2>1. c[0] = [level |-> base, position |-> index, siblings |-> <<>>] /\ v[0] = at /\ lv[0] = base /\ w[0] = n
    BY DEF ClimbsFrom, ChecksFrom, LevelsFrom, Tree
  <2>2. c[0].position = index /\ c[0].siblings = <<>> /\ Len(<<>>) = 0
    BY <2>1
  <2>3. With(0)
    BY <2>1, <2>2, Zenon
  <2>4. 0 \in 0 .. n
    OBVIOUS
  <2> HIDE DEF With
  <2> QED BY <2>3, <2>4
<1>3. ASSUME NEW k \in 1 .. n, k - 1 \in Good PROVE k \in Good
  <2> DEFINE m == w[k - 1]
             p == v[k - 1].position
             l == c[k - 1].siblings
             u == Len(l)
             more == c[k].siblings
             level == lv[k - 1]
  <2>1. /\ v[k] = Check(v[k - 1], S) /\ c[k] = Climb(c[k - 1], k) /\ k \in 0 .. n /\ k - 1 \in 0 .. n
        /\ m \in Nat \ {0} /\ w[k] = (m + 1) \div 2
    <3>1. k \in 0 .. n
      OBVIOUS
    <3>2. v[k] = Check(v[k - 1], S) /\ c[k] = Climb(c[k - 1], k)
      BY DEF ClimbsFrom, ChecksFrom
    <3> QED BY <3>1, <3>2, TreeWidths
  <2>2. /\ AtPlace(v[k - 1], m) /\ c[k - 1].position = p /\ v[k - 1].used = u
        /\ v[k - 1].hash = level[p + 1]
    <3>1. With(k - 1)
      BY <1>3
    <3> QED BY <3>1
  <2>3. p \in 0 .. m - 1
    BY <2>2 DEF AtPlace
  <2>4. Len(level) = m /\ \A i \in 1 .. m : level[i] \in U
    <3>1. Len(level) = m
      BY <2>1 DEF Tree
    <3>2. \A i \in 1 .. m : level[i] \in U
      BY <2>1 DEF NodesOf
    <3> HIDE DEF level, m, U
    <3> QED BY <3>1, <3>2
  <2>5. /\ S \in Seq(U) /\ l \in Seq(U) /\ u \in Nat /\ c[k - 1].level = level
        /\ Len(more) <= Len(S) /\ \A i \in 1 .. Len(more) : more[i] = S[i]
    <3>1. n \in 0 .. n
      OBVIOUS
    <3> HIDE DEF U, With
    <3>2. S \in Seq(U) /\ l \in Seq(U) /\ c[k - 1].level = level
      BY <1>1, <2>1, <3>1
    <3>3. u \in Nat
      BY <3>2
    <3>4. Len(more) \in 0 .. Len(S)
      BY <1>1, <2>1
    <3>5. \A i \in 1 .. Len(more) : more[i] = S[i]
      BY <1>1, <2>1
    <3>6. Len(more) <= Len(S)
      BY <3>4
    <3> HIDE DEF S, l, u, level, more
    <3> QED BY <3>2, <3>3, <3>5, <3>6
  <2> DEFINE i == p \div 2 + 1
  <2>6. /\ AtPlace(v[k], (m + 1) \div 2) /\ v[k].position = p \div 2 /\ c[k].position = p \div 2
        /\ v[k].used = Len(more)
        /\ v[k].hash = IF 2 * i <= m THEN HashNode(level[2 * i - 1], level[2 * i]) ELSE level[2 * i - 1]
    <3> DEFINE x == v[k - 1]
               b == c[k - 1]
    <3>1. Aligned(x, b, Climb(b, k), S, U, m)
      <4> HIDE DEF S, U, m, With, Good
      <4> QED BY <2>1, <2>2, <2>4, <2>5 DEF Aligned
    <3>2. Higher(x, b, Check(x, S), Climb(b, k), m)
      <4> HIDE DEF S, U, m, With, Good, x, b
      <4> QED BY <3>1, InStep
    <3> HIDE DEF S, U, m, With, Good
    <3> QED BY <2>1, <2>5, <3>2, Zenon DEF Higher
  <2>7. v[k].hash = lv[k][i]
    <3>1. i \in 1 .. w[k]
      <4> HIDE DEF p, m
      <4> QED BY <2>1, <2>3
    <3>2. lv[k][i] = IF 2 * i <= m THEN HashNode(level[2 * i - 1], level[2 * i]) ELSE level[2 * i - 1]
      <4> HIDE DEF i
      <4> QED BY <3>1 DEF Tree
    <3> HIDE DEF i, m, p, level
    <3> QED BY <2>6, <3>2
  <2>8. With(k)
    <3> HIDE DEF m, p
    <3> QED BY <2>1, <2>6, <2>7
  <2> HIDE DEF With
  <2> QED BY <2>1, <2>8
<1>4. With(n)
  <2>1. \A k \in 0 .. n : k \in Good
    <3> HIDE DEF Good
    <3> QED BY <1>2, <1>3, StepByStep
  <2>2. n \in 0 .. n
    OBVIOUS
  <2> HIDE DEF With
  <2> QED BY <2>1, <2>2
<1>5. w[n] = 1
  BY DEF Tree
<1>6. v[n].position + 1 = 1 /\ ~v[n].fails
  BY <1>4, <1>5 DEF AtPlace
<1> QED BY <1>4, <1>6 DEF Accepts

LEMMA TriplesTell == \A a, b, c, d, e, f : <<a, b, c>> = <<d, e, f>> => a = d /\ b = e /\ c = f
OBVIOUS

(* What an interval commits to tells it from every other. *)
LEMMA CanonicalTells ==
  ASSUME NEW a \in CommittedIntervals, NEW b \in CommittedIntervals, CanonicalInterval(a) = CanonicalInterval(b)
  PROVE  a = b
<1> DEFINE Options == {{}} \cup {{x} : x \in Medians}
           Of(m, v) == [median |-> m, votes |-> v]
           Flag(m) == IF m = {} THEN 0 ELSE 1
           Value(m) == IF m = {} THEN 0 ELSE CHOOSE x \in m : TRUE
<1>1. PICK m \in Options, v \in VoteCounts : a = Of(m, v)
  BY DEF CommittedIntervals
<1>2. PICK o \in Options, u \in VoteCounts : b = Of(o, u)
  BY DEF CommittedIntervals
<1>3. a.median = m /\ a.votes = v /\ b.median = o /\ b.votes = u
  BY <1>1, <1>2
<1>4. CanonicalInterval(a) = <<Flag(m), Value(m), v>> /\ CanonicalInterval(b) = <<Flag(o), Value(o), u>>
  BY <1>3 DEF CanonicalInterval
<1>5. Flag(m) = Flag(o) /\ Value(m) = Value(o) /\ v = u
  <2> HIDE DEF Flag, Value
  <2>1. <<Flag(m), Value(m), v>> = <<Flag(o), Value(o), u>>
    BY <1>4, Zenon
  <2> QED BY <2>1, TriplesTell, Zenon
<1>6. \A x : (CHOOSE y \in {x} : TRUE) = x
  OBVIOUS
<1>7. m = o
  BY <1>5, <1>6
<1> QED BY <1>1, <1>2, <1>5, <1>7

(* What a day with intervals commits to. *)
LEMMA CommittedIs ==
  ASSUME NEW day \in Seq(CommittedIntervals), day # <<>>
  PROVE  /\ Len(day) \in Nat \ {0} /\ DOMAIN day = 1 .. Len(day)
         /\ DOMAIN Committed(day) = 1 .. Len(day) /\ Len(Committed(day)) = Len(day) /\ Committed(day) # <<>>
         /\ \A i \in 1 .. Len(day) : day[i] \in CommittedIntervals /\ Committed(day)[i] = CanonicalInterval(day[i])
<1>1. Len(day) \in Nat \ {0} /\ DOMAIN day = 1 .. Len(day) /\ \A i \in 1 .. Len(day) : day[i] \in CommittedIntervals
  OBVIOUS
<1> DEFINE f == Committed(day)
<1>2. f = [i \in 1 .. Len(day) |-> CanonicalInterval(day[i])]
  BY <1>1 DEF Committed
<1>3. f = [i \in 1 .. Len(day) |-> f[i]] /\ \A i \in 1 .. Len(day) : f[i] = CanonicalInterval(day[i])
  BY <1>2
<1> HIDE DEF f
<1>4. DOMAIN f = 1 .. Len(day) /\ Len(f) = Len(day)
  BY <1>1, <1>3, LengthOfMap
<1>5. f # <<>>
  BY <1>1, <1>4
<1> QED BY <1>1, <1>3, <1>4, <1>5 DEF f

LEMMA OneRoot == ASSUME NEW x PROVE (CHOOSE r \in {x} : TRUE) = x
OBVIOUS

(* The tree of a day. *)
HashesOf(day) == [i \in 1 .. Len(day) |-> HashLeaf(Committed(day)[i])]

LEMMA TreeOfADay ==
  ASSUME NEW day \in Seq(CommittedIntervals), day # <<>>, NEW top \in Nat, Len(day) <= top
  PROVE  \E lv, w : /\ Tree(HashesOf(day), Len(day), lv, w, top) /\ LevelsFrom(HashesOf(day), Len(day), lv)
                    /\ MerkleRoot(Committed(day)) = {lv[top][1]}
<1> DEFINE n == Len(day)
           bytes == Committed(day)
<1>1. n \in Nat \ {0} /\ DOMAIN bytes = 1 .. n /\ bytes # <<>>
  BY CommittedIs
<1>2. n <= top
  OBVIOUS
<1> HIDE DEF n, bytes
<1>3. PICK lv, w : /\ Tree([i \in 1 .. n |-> HashLeaf(bytes[i])], n, lv, w, top)
                   /\ LevelsFrom([i \in 1 .. n |-> HashLeaf(bytes[i])], n, lv)
                   /\ MerkleRoot(bytes) = {lv[top][1]}
  BY <1>1, <1>2, RootOfATree
<1> QED BY <1>3, Zenon DEF HashesOf, n, bytes

(* Every interval can be shown. *)
LEMMA AllProve ==
  ASSUME leaves \in Seq(CommittedIntervals), leaves # <<>>
  PROVE  ProofsProve
<1> DEFINE n == Len(leaves)
           bytes == Committed(leaves)
           base == HashesOf(leaves)
           root == CHOOSE r \in MerkleRoot(bytes) : TRUE
<1>1. n \in Nat \ {0} /\ DOMAIN leaves = 1 .. n /\ DOMAIN bytes = 1 .. n /\ Len(bytes) = n /\ bytes # <<>>
  BY CommittedIs
<1>2. PICK lv, w : Tree(base, n, lv, w, n) /\ LevelsFrom(base, n, lv) /\ MerkleRoot(bytes) = {lv[n][1]}
  <2>1. n \in Nat /\ n <= n
    BY <1>1
  <2> QED BY <2>1, TreeOfADay
<1> HIDE DEF n, bytes
<1>3. root = lv[n][1] /\ base = [i \in 1 .. n |-> HashLeaf(bytes[i])]
  BY <1>2, OneRoot, Zenon DEF HashesOf, n, bytes
<1>4. ASSUME NEW i \in 1 .. n
      PROVE  VerifyMerkleProof(bytes[i], MerkleProof(bytes, i - 1), root)
  <2>1. PICK index : index = i - 1
    OBVIOUS
  <2>2. index \in 0 .. n - 1 /\ index + 1 = i
    BY <1>1, <2>1
  <2> DEFINE proof == MerkleProof(bytes, index)
  <2> HIDE DEF base
  <2>3. PICK c : /\ ClimbsFrom([level |-> base, position |-> index, siblings |-> <<>>], n, c)
                 /\ proof = [index |-> index, size |-> Len(bytes), siblings |-> c[n].siblings]
    BY <1>1, <1>3, ProofIsClimbed
  <2>4. proof.index = index /\ proof.size = n /\ proof.siblings = c[n].siblings
    BY <1>1, <2>3
  <2>5. base[index + 1] = HashLeaf(bytes[i])
    BY <1>3, <2>2
  <2> HIDE DEF proof, root, base
  <2>6. PICK v : /\ ChecksFrom(StartOfCheck(bytes[i], proof), proof.siblings, n, v)
                 /\ VerifyMerkleProof(bytes[i], proof, root)
                      <=> Accepts(v[n], proof.siblings, root)
    <3>1. proof.index \in 0 .. n - 1 /\ proof.size = n /\ n \in Nat \ {0}
      BY <1>1, <2>2, <2>4
    <3> QED BY <3>1, VerifierChecks, Zenon
  <2>7. PICK at : at = StartOfCheck(bytes[i], proof)
    OBVIOUS
  <2>8. at.hash = base[index + 1] /\ at.position = index /\ at.used = 0 /\ AtPlace(at, n)
    BY <2>2, <2>4, <2>5, <2>7 DEF StartOfCheck, AtPlace
  <2>9. ChecksFrom(at, c[n].siblings, n, v)
    BY <2>4, <2>6, <2>7
  <2>10. Accepts(v[n], c[n].siblings, lv[n][1])
    <3>1. n \in Nat \ {0}
      BY <1>1
    <3> QED BY <1>2, <2>2, <2>3, <2>8, <2>9, <3>1, ClimbedIsVerified, Zenon
  <2> QED BY <1>3, <2>1, <2>4, <2>6, <2>10 DEF proof
<1> QED BY <1>1, <1>4 DEF ProofsProve, bytes, root

(* A proof of the day's width, whatever is in it, shows what is there.     *)
LEMMA OnlyTheLeafVerifies ==
  ASSUME leaves \in Seq(CommittedIntervals), leaves # <<>>,
         NEW proof, proof.size = Len(leaves), NEW at \in 1 .. Len(leaves), proof.index = at - 1,
         NEW interval \in CommittedIntervals,
         VerifyMerkleProof(CanonicalInterval(interval), proof, CHOOSE r \in MerkleRoot(Committed(leaves)) : TRUE)
  PROVE  interval = leaves[at]
<1> DEFINE n == Len(leaves)
           bytes == Committed(leaves)
           base == HashesOf(leaves)
           root == CHOOSE r \in MerkleRoot(bytes) : TRUE
           shown == CanonicalInterval(interval)
           start == StartOfCheck(shown, proof)
<1>1. n \in Nat \ {0} /\ DOMAIN bytes = 1 .. n /\ bytes # <<>> /\ at \in 1 .. n
  BY CommittedIs
<1>2. leaves[at] \in CommittedIntervals /\ bytes[at] = CanonicalInterval(leaves[at])
  BY CommittedIs
<1>3. at - 1 \in 0 .. n - 1 /\ (at - 1) + 1 = at
  BY <1>1
<1>4. VerifyMerkleProof(shown, proof, root) /\ proof.size = n /\ proof.index = at - 1
  OBVIOUS
<1>5. PICK lv, w : Tree(base, n, lv, w, n) /\ MerkleRoot(bytes) = {lv[n][1]}
  <2>1. n \in Nat /\ n <= n
    BY <1>1
  <2>2. PICK lv, w : Tree(base, n, lv, w, n) /\ LevelsFrom(base, n, lv) /\ MerkleRoot(bytes) = {lv[n][1]}
    BY <2>1, TreeOfADay
  <2> QED BY <2>2
<1>0. base = [i \in 1 .. n |-> HashLeaf(bytes[i])]
  BY DEF HashesOf
<1> HIDE DEF n, bytes, shown, base
<1>6. root = lv[n][1]
  BY <1>5, OneRoot, Zenon
<1> HIDE DEF root
<1>7. PICK v : ChecksFrom(start, proof.siblings, n, v) /\ ~v[n].fails /\ v[n].hash = root
  BY <1>1, <1>3, <1>4, VerifierChecks DEF Accepts
<1>8. start.hash = HashLeaf(shown) /\ start.position + 1 = at /\ AtPlace(start, n)
  BY <1>3, <1>4 DEF StartOfCheck, AtPlace
<1> HIDE DEF start
<1>9. base[at] = HashLeaf(bytes[at])
  BY <1>0, <1>1
<1>10. start.hash = base[start.position + 1]
  BY <1>1, <1>5, <1>6, <1>7, <1>8, VerifiedIsTheLeaf
<1>11. HashLeaf(shown) = HashLeaf(bytes[at])
  BY <1>8, <1>9, <1>10
<1>12. CanonicalInterval(interval) = CanonicalInterval(leaves[at])
  BY <1>2, <1>11, HashesAreFree DEF shown
<1> QED BY <1>2, <1>12, CanonicalTells

LEMMA AllBind ==
  ASSUME leaves \in Seq(CommittedIntervals), leaves # <<>>
  PROVE  ProofsBind
<1> SUFFICES ASSUME NEW i \in DOMAIN leaves, NEW at \in DOMAIN leaves, NEW interval \in CommittedIntervals,
                    NEW siblings,
                    VerifyMerkleProof(CanonicalInterval(interval),
                                      [MerkleProof(Committed(leaves), i - 1) EXCEPT !.index = at - 1, !.siblings = siblings],
                                      CHOOSE r \in MerkleRoot(Committed(leaves)) : TRUE)
             PROVE  interval = leaves[at]
  BY DEF ProofsBind
<1> DEFINE proof == [MerkleProof(Committed(leaves), i - 1) EXCEPT !.index = at - 1, !.siblings = siblings]
<1>1. at \in 1 .. Len(leaves) /\ Len(Committed(leaves)) = Len(leaves)
  BY CommittedIs
<1>2. proof.size = Len(leaves) /\ proof.index = at - 1
  BY <1>1 DEF MerkleProof
<1> HIDE DEF proof
<1> QED BY <1>1, <1>2, OnlyTheLeafVerifies DEF proof

(* The same of a tree, for proofs about two. *)
Halves(n, w, top) ==
  /\ w[0] = n /\ w[top] = 1
  /\ \A k \in 0 .. top : w[k] \in Nat \ {0}
  /\ \A k \in 1 .. top : w[k] = (w[k - 1] + 1) \div 2

Parents(lv, w, top) ==
  \A k \in 1 .. top : \A i \in 1 .. w[k] :
    lv[k][i] = IF 2 * i <= w[k - 1] THEN HashNode(lv[k - 1][2 * i - 1], lv[k - 1][2 * i])
               ELSE lv[k - 1][2 * i - 1]

LEMMA ShapeOfATree ==
  ASSUME NEW n, NEW top \in Nat, NEW base, NEW lv, NEW w, Tree(base, n, lv, w, top)
  PROVE  Halves(n, w, top) /\ Parents(lv, w, top)
<1>1. Halves(n, w, top)
  <2>1. w[0] = n /\ w[top] = 1 /\ \A k \in 0 .. top : w[k] \in Nat \ {0}
    BY DEF Tree
  <2>2. \A k \in 1 .. top : w[k] = (w[k - 1] + 1) \div 2
    BY DEF Tree
  <2> QED BY <2>1, <2>2 DEF Halves
<1> QED BY <1>1 DEF Tree, Parents

(* Two trees with the same root are the same downwards as long as they are *)
(* as wide.                                                                *)
LEMMA SameDownwards ==
  ASSUME NEW top \in Nat, NEW n, NEW a, NEW A, NEW v, Tree(a, n, A, v, top),
         NEW m, NEW b, NEW B, NEW w, Tree(b, m, B, w, top),
         NEW low \in 0 .. top, \A k \in low .. top : v[k] = w[k], A[top][1] = B[top][1]
  PROVE  \A i \in 1 .. v[low] : A[low][i] = B[low][i]
<1> DEFINE Same(k) == \A i \in 1 .. v[k] : A[k][i] = B[k][i]
           Good == {d \in 0 .. top - low : Same(top - d)}
<1>1. 0 \in Good
  <2>1. v[top] = 1 /\ top - 0 = top
    BY DEF Tree
  <2>2. \A i \in 1 .. 1 : i = 1
    OBVIOUS
  <2>3. Same(top - 0)
    BY <2>1, <2>2
  <2>4. 0 \in 0 .. top - low
    OBVIOUS
  <2> HIDE DEF Same
  <2> QED BY <2>3, <2>4
<1>2. ASSUME NEW d \in 1 .. top - low, d - 1 \in Good PROVE d \in Good
  <2> DEFINE k == top - (d - 1)
             x == v[k - 1]
  <2>1. k \in 1 .. top /\ k - 1 = top - d /\ k \in low .. top /\ k - 1 \in low .. top /\ d \in 0 .. top - low /\ Same(k)
    BY <1>2
  <2> HIDE DEF k
  <2>2. v[k] = w[k] /\ x = w[k - 1] /\ x \in Nat \ {0} /\ v[k] = (x + 1) \div 2
    <3>1. Halves(n, v, top)
      BY ShapeOfATree
    <3> QED BY <2>1, <3>1 DEF Halves
  <2>3. ASSUME NEW i \in 1 .. x PROVE A[k - 1][i] = B[k - 1][i]
    <3> DEFINE j == (i + 1) \div 2
    <3>1. j \in 1 .. v[k] /\ (2 * j - 1 = i \/ 2 * j = i) /\ (2 * j = i => 2 * j <= x) /\ 2 * j - 1 <= x
      BY <2>2
    <3> HIDE DEF j, x
    <3>2. A[k][j] = IF 2 * j <= x THEN HashNode(A[k - 1][2 * j - 1], A[k - 1][2 * j]) ELSE A[k - 1][2 * j - 1]
      <4>1. Parents(A, v, top)
        BY ShapeOfATree
      <4> QED BY <2>1, <3>1, <4>1 DEF Parents, x
    <3>3. B[k][j] = IF 2 * j <= x THEN HashNode(B[k - 1][2 * j - 1], B[k - 1][2 * j]) ELSE B[k - 1][2 * j - 1]
      <4>1. w[k - 1] = x /\ j \in 1 .. w[k]
        BY <2>2, <3>1
      <4>2. Parents(B, w, top)
        BY ShapeOfATree
      <4> QED BY <2>1, <4>1, <4>2 DEF Parents
    <3>4. A[k][j] = B[k][j]
      BY <2>1, <3>1
    <3>5. CASE 2 * j <= x
      <4>1. HashNode(A[k - 1][2 * j - 1], A[k - 1][2 * j]) = HashNode(B[k - 1][2 * j - 1], B[k - 1][2 * j])
        BY <3>2, <3>3, <3>4, <3>5
      <4>2. A[k - 1][2 * j - 1] = B[k - 1][2 * j - 1] /\ A[k - 1][2 * j] = B[k - 1][2 * j]
        BY <4>1, HashesAreFree
      <4> QED BY <3>1, <4>2
    <3>6. CASE ~(2 * j <= x)
      BY <3>1, <3>2, <3>3, <3>4, <3>6
    <3> QED BY <3>5, <3>6
  <2>4. Same(k - 1)
    BY <2>3
  <2> HIDE DEF Same
  <2> QED BY <2>1, <2>4
<1>3. \A d \in 0 .. top - low : d \in Good
  <2>1. top - low \in Nat
    OBVIOUS
  <2> HIDE DEF Good
  <2> QED BY <1>1, <1>2, <2>1, StepByStep
<1>4. top - low \in 0 .. top - low /\ top - (top - low) = low
  OBVIOUS
<1>5. Same(low)
  <2> HIDE DEF Same
  <2> QED BY <1>3, <1>4
<1> QED BY <1>5

(* Down the left of a hash: nodes, as many as d, and then a leaf.          *)
IsSpine(hash, s, d) ==
  /\ s[0] = hash
  /\ \A i \in 1 .. d : \E right : s[i - 1] = HashNode(s[i], right)
  /\ \E x : s[d] = HashLeaf(x)

(* There is one way down. *)
LEMMA OneWayDown ==
  ASSUME NEW hash, NEW s, NEW d \in Nat, IsSpine(hash, s, d), NEW t, NEW e \in Nat, IsSpine(hash, t, e), d < e
  PROVE  FALSE
<1> DEFINE Good == {i \in 0 .. d : s[i] = t[i]}
<1>1. 0 \in Good
  BY DEF IsSpine
<1>2. ASSUME NEW i \in 1 .. d, i - 1 \in Good PROVE i \in Good
  <2>1. i \in 1 .. e /\ i \in 0 .. d /\ s[i - 1] = t[i - 1]
    BY <1>2
  <2>2. PICK r : s[i - 1] = HashNode(s[i], r)
    BY DEF IsSpine
  <2>3. PICK q : t[i - 1] = HashNode(t[i], q)
    BY <2>1 DEF IsSpine
  <2> QED BY <2>1, <2>2, <2>3, HashesAreFree
<1>3. \A i \in 0 .. d : i \in Good
  <2> HIDE DEF Good
  <2> QED BY <1>1, <1>2, StepByStep
<1>4. s[d] = t[d] /\ d + 1 \in 1 .. e /\ (d + 1) - 1 = d
  BY <1>3
<1>5. PICK x : s[d] = HashLeaf(x)
  BY DEF IsSpine
<1>6. PICK q : t[d] = HashNode(t[d + 1], q)
  BY <1>4 DEF IsSpine
<1>7. HashLeaf(x) = HashNode(t[d + 1], q)
  BY <1>4, <1>5, <1>6
<1> QED BY <1>7, HashesAreFree

(* A node is one further up. *)
LEMMA OneFurtherUp ==
  ASSUME NEW hash, NEW s, NEW d \in Nat, IsSpine(hash, s, d), NEW right
  PROVE  \E t : IsSpine(HashNode(hash, right), t, d + 1)
<1> DEFINE t == [i \in 0 .. d + 1 |-> IF i = 0 THEN HashNode(hash, right) ELSE s[i - 1]]
<1>1. t[0] = HashNode(hash, right) /\ \A i \in 1 .. d + 1 : t[i] = s[i - 1]
  OBVIOUS
<1> HIDE DEF t
<1>2. ASSUME NEW i \in 1 .. d + 1 PROVE \E r : t[i - 1] = HashNode(t[i], r)
  <2>1. CASE i = 1
    <3>1. t[i - 1] = HashNode(hash, right) /\ t[i] = s[0] /\ s[0] = hash
      BY <1>1, <2>1 DEF IsSpine
    <3> QED BY <3>1
  <2>2. CASE i # 1
    <3>1. i - 1 \in 1 .. d /\ i - 1 \in 1 .. d + 1
      BY <2>2
    <3>2. PICK r : s[(i - 1) - 1] = HashNode(s[i - 1], r)
      BY <3>1 DEF IsSpine
    <3>3. t[i - 1] = s[(i - 1) - 1] /\ t[i] = s[i - 1]
      BY <1>1, <3>1
    <3> QED BY <3>2, <3>3
  <2> QED BY <2>1, <2>2
<1>3. \E x : t[d + 1] = HashLeaf(x)
  <2>1. t[d + 1] = s[d]
    BY <1>1
  <2> QED BY <2>1 DEF IsSpine
<1> QED BY <1>1, <1>2, <1>3 DEF IsSpine

(* A node of level k is k nodes above a leaf; the last of a level, that    *)
(* may have come up as it was, k at most.                                  *)
Deep(lv, w, top) ==
  \A k \in 0 .. top : \A i \in 1 .. w[k] :
    \E d \in 0 .. k : \E s : IsSpine(lv[k][i], s, d) /\ (i < w[k] => d = k)

LEMMA DepthsOfLevels ==
  ASSUME NEW n, NEW top \in Nat, NEW base, NEW lv, NEW w, Tree(base, n, lv, w, top),
         \A i \in 1 .. n : \E x : base[i] = HashLeaf(x)
  PROVE  Deep(lv, w, top)
<1> DEFINE Deeper(k, i) == \E d \in 0 .. k : \E s : IsSpine(lv[k][i], s, d) /\ (i < w[k] => d = k)
           Good == {k \in 0 .. top : \A i \in 1 .. w[k] : Deeper(k, i)}
<1>1. 0 \in Good
  <2>1. ASSUME NEW i \in 1 .. w[0] PROVE Deeper(0, i)
    <3>1. PICK x : lv[0][i] = HashLeaf(x)
      BY DEF Tree
    <3> DEFINE s == [j \in {0} |-> HashLeaf(x)]
    <3>2. IsSpine(lv[0][i], s, 0)
      BY <3>1 DEF IsSpine
    <3> HIDE DEF s
    <3> QED BY <3>2
  <2>2. 0 \in 0 .. top
    OBVIOUS
  <2> HIDE DEF Deeper
  <2> QED BY <2>1, <2>2
<1>2. ASSUME NEW k \in 1 .. top, k - 1 \in Good PROVE k \in Good
  <2> DEFINE x == w[k - 1]
  <2>1. x \in Nat \ {0} /\ w[k] = (x + 1) \div 2 /\ k \in 0 .. top
    <3>1. k \in 0 .. top
      OBVIOUS
    <3> QED BY <3>1, TreeWidths
  <2>2. \A i \in 1 .. x : Deeper(k - 1, i)
    <3> HIDE DEF Deeper
    <3> QED BY <1>2
  <2>3. ASSUME NEW i \in 1 .. w[k] PROVE Deeper(k, i)
    <3>1. lv[k][i] = IF 2 * i <= x THEN HashNode(lv[k - 1][2 * i - 1], lv[k - 1][2 * i]) ELSE lv[k - 1][2 * i - 1]
      BY DEF Tree
    <3> HIDE DEF x
    <3>2. 2 * i - 1 \in 1 .. x /\ (2 * i <= x => 2 * i - 1 < x) /\ (i < w[k] => 2 * i <= x)
      BY <2>1
    <3>3. PICK d \in 0 .. k - 1 : \E s : IsSpine(lv[k - 1][2 * i - 1], s, d) /\ (2 * i - 1 < w[k - 1] => d = k - 1)
      BY <2>2, <3>2
    <3>4. PICK s : IsSpine(lv[k - 1][2 * i - 1], s, d) /\ (2 * i - 1 < w[k - 1] => d = k - 1)
      BY <3>3
    <3>5. CASE 2 * i <= x
      <4>1. d = k - 1
        BY <3>2, <3>4, <3>5 DEF x
      <4>2. PICK t : IsSpine(HashNode(lv[k - 1][2 * i - 1], lv[k - 1][2 * i]), t, d + 1)
        BY <3>3, <3>4, OneFurtherUp
      <4>3. d + 1 = k /\ k \in 0 .. k
        BY <4>1
      <4> QED BY <3>1, <3>5, <4>2, <4>3
    <3>6. CASE ~(2 * i <= x)
      <4>1. d \in 0 .. k /\ ~(i < w[k])
        BY <3>2, <3>6
      <4> QED BY <3>1, <3>4, <3>6, <4>1
    <3> QED BY <3>5, <3>6
  <2> HIDE DEF Deeper
  <2> QED BY <2>1, <2>3
<1>3. \A k \in 0 .. top : k \in Good
  <2> HIDE DEF Good
  <2> QED BY <1>1, <1>2, StepByStep
<1> QED BY <1>3 DEF Deep

(* One more leaf makes some levels one wider, from the lowest up to one    *)
(* whose width was odd: the level above it and the rest are as wide.       *)
LEMMA OneMoreLeafWidens ==
  ASSUME NEW top \in Nat, NEW n \in Nat, NEW a, NEW A, NEW v, Tree(a, n, A, v, top),
         NEW b, NEW B, NEW w, Tree(b, n + 1, B, w, top)
  PROVE  \E k \in 1 .. top : w[k - 1] = v[k - 1] + 1 /\ \A j \in k .. top : v[j] = w[j]
<1> DEFINE Wider(k) == w[k] = v[k] + 1
           Level(k) == \E c \in 1 .. k : Wider(c - 1) /\ \A j \in c .. k : v[j] = w[j]
           Good == {k \in 0 .. top : Wider(k) \/ Level(k)}
<1>0. Halves(n, v, top) /\ Halves(n + 1, w, top)
  BY ShapeOfATree
<1>1. 0 \in Good
  BY <1>0 DEF Halves
<1>2. ASSUME NEW k \in 1 .. top, k - 1 \in Good PROVE k \in Good
  <2>1. /\ v[k] = (v[k - 1] + 1) \div 2 /\ v[k - 1] \in Nat \ {0}
        /\ w[k] = (w[k - 1] + 1) \div 2 /\ w[k - 1] \in Nat \ {0} /\ k \in 0 .. top
    <3>1. k \in 0 .. top
      OBVIOUS
    <3> QED BY <1>0, <3>1 DEF Halves
  <2>2. CASE Wider(k - 1)
    <3>1. CASE w[k] = v[k]
      <4>1. Level(k)
        BY <2>2, <3>1
      <4> QED BY <2>1, <4>1
    <3>2. CASE w[k] # v[k]
      <4>1. Wider(k)
        BY <2>1, <2>2, <3>2
      <4> QED BY <2>1, <4>1
    <3> QED BY <3>1, <3>2
  <2>3. CASE Level(k - 1)
    <3>1. PICK c \in 1 .. k - 1 : Wider(c - 1) /\ \A j \in c .. k - 1 : v[j] = w[j]
      BY <2>3
    <3>2. v[k - 1] = w[k - 1]
      BY <3>1
    <3>3. v[k] = w[k]
      BY <2>1, <3>2
    <3>4. c \in 1 .. k /\ \A j \in c .. k : j \in c .. k - 1 \/ j = k
      OBVIOUS
    <3>5. Level(k)
      BY <3>1, <3>3, <3>4
    <3> QED BY <2>1, <3>5
  <2> QED BY <1>2, <2>2, <2>3
<1>3. \A k \in 0 .. top : k \in Good
  <2> HIDE DEF Good
  <2> QED BY <1>1, <1>2, StepByStep
<1>4. v[top] = 1 /\ w[top] = 1 /\ top \in 0 .. top
  BY <1>0 DEF Halves
<1>5. Level(top)
  BY <1>3, <1>4
<1> QED BY <1>5

(* A tree with one leaf more has another root. *)
LEMMA OneMoreLeafTells ==
  ASSUME NEW top \in Nat, NEW n \in Nat, NEW a, NEW A, NEW v, Tree(a, n, A, v, top),
         NEW b, NEW B, NEW w, Tree(b, n + 1, B, w, top),
         \A i \in 1 .. n : \E x : a[i] = HashLeaf(x), \A i \in 1 .. n + 1 : \E x : b[i] = HashLeaf(x)
  PROVE  A[top][1] # B[top][1]
<1> SUFFICES ASSUME A[top][1] = B[top][1] PROVE FALSE
  OBVIOUS
<1>0. /\ Halves(n, v, top) /\ Parents(A, v, top) /\ Deep(A, v, top)
      /\ Halves(n + 1, w, top) /\ Parents(B, w, top) /\ Deep(B, w, top)
  <2>1. n + 1 \in Nat
    OBVIOUS
  <2> QED BY <2>1, ShapeOfATree, DepthsOfLevels
<1>1. PICK k \in 1 .. top : w[k - 1] = v[k - 1] + 1 /\ \A j \in k .. top : v[j] = w[j]
  BY OneMoreLeafWidens
<1> DEFINE x == v[k - 1]
           y == v[k]
<1>2. k \in 0 .. top /\ k - 1 \in 0 .. top /\ k \in k .. top
  OBVIOUS
<1>3. /\ x \in Nat \ {0} /\ y = (x + 1) \div 2
      /\ y = w[k] /\ w[k - 1] = x + 1 /\ w[k] = (w[k - 1] + 1) \div 2
  <2>1. x \in Nat \ {0} /\ y = (x + 1) \div 2 /\ w[k] = (w[k - 1] + 1) \div 2
    BY <1>0 DEF Halves
  <2> QED BY <1>1, <1>2, <2>1
<1> HIDE DEF x, y
<1>4. y \in 1 .. y /\ 2 * y = x + 1 /\ 2 * y - 1 = x /\ ~(2 * y <= x)
  BY <1>3
<1>5. A[k][y] = B[k][y]
  <2>1. \A i \in 1 .. v[k] : A[k][i] = B[k][i]
    BY <1>1, <1>2, SameDownwards
  <2> QED BY <1>4, <2>1 DEF y
<1>6. A[k][y] = A[k - 1][x]
  <2>1. A[k][y] = IF 2 * y <= v[k - 1] THEN HashNode(A[k - 1][2 * y - 1], A[k - 1][2 * y]) ELSE A[k - 1][2 * y - 1]
    BY <1>0, <1>4 DEF Parents, y
  <2> QED BY <1>4, <2>1 DEF x
<1>7. B[k][y] = HashNode(B[k - 1][x], B[k - 1][x + 1])
  <2>1. B[k][y] = IF 2 * y <= w[k - 1] THEN HashNode(B[k - 1][2 * y - 1], B[k - 1][2 * y]) ELSE B[k - 1][2 * y - 1]
    BY <1>0, <1>3, <1>4 DEF Parents
  <2> QED BY <1>3, <1>4, <2>1
<1>8. PICK d \in 0 .. k - 1 : \E s : IsSpine(A[k - 1][x], s, d)
  <2>1. x \in 1 .. v[k - 1]
    BY <1>3 DEF x
  <2> QED BY <1>0, <1>2, <2>1 DEF Deep
<1>9. PICK e \in 0 .. k - 1 : \E t : IsSpine(B[k - 1][x], t, e) /\ (x < w[k - 1] => e = k - 1)
  <2>1. x \in 1 .. w[k - 1]
    BY <1>3
  <2> QED BY <1>0, <1>2, <2>1 DEF Deep
<1>10. PICK s : IsSpine(A[k - 1][x], s, d)
  BY <1>8
<1>11. PICK t : IsSpine(B[k - 1][x], t, e)
  BY <1>9
<1>12. e = k - 1 /\ e \in Nat /\ d \in Nat /\ d < e + 1 /\ e + 1 \in Nat
  BY <1>3, <1>9
<1>13. PICK u : IsSpine(B[k][y], u, e + 1)
  BY <1>7, <1>11, <1>12, OneFurtherUp
<1>14. IsSpine(B[k][y], s, d)
  BY <1>5, <1>6, <1>10
<1> QED BY <1>12, <1>13, <1>14, OneWayDown

(* The hash of an interval is that of no other. *)
LEMMA LeavesOfADay ==
  ASSUME NEW day \in Seq(CommittedIntervals), day # <<>>
  PROVE  /\ \A i \in 1 .. Len(day) : HashesOf(day)[i] = HashLeaf(CanonicalInterval(day[i]))
         /\ \A i \in 1 .. Len(day) : \E x : HashesOf(day)[i] = HashLeaf(x)
BY CommittedIs DEF HashesOf

(* Days that differ have roots that differ. *)
LEMMA AllDiffer ==
  ASSUME leaves \in Seq(CommittedIntervals), leaves # <<>>
  PROVE  RootsDiffer
<1> DEFINE n == Len(leaves)
<1>1. n \in Nat \ {0} /\ DOMAIN leaves = 1 .. n
  OBVIOUS
<1> SUFFICES ASSUME NEW interval \in CommittedIntervals
             PROVE  /\ MerkleRoot(Committed(Append(leaves, interval))) # MerkleRoot(Committed(leaves))
                    /\ \A i \in DOMAIN leaves :
                         interval # leaves[i] =>
                           MerkleRoot(Committed([leaves EXCEPT ![i] = interval])) # MerkleRoot(Committed(leaves))
  BY DEF RootsDiffer
<1> DEFINE top == n + 1
<1>2. PICK A, v : Tree(HashesOf(leaves), n, A, v, top) /\ MerkleRoot(Committed(leaves)) = {A[top][1]}
  <2>1. top \in Nat /\ Len(leaves) <= top
    BY <1>1
  <2> HIDE DEF top
  <2> QED BY <2>1, TreeOfADay
<1>3. MerkleRoot(Committed(Append(leaves, interval))) # MerkleRoot(Committed(leaves))
  <2> DEFINE more == Append(leaves, interval)
  <2>1. more \in Seq(CommittedIntervals) /\ more # <<>> /\ Len(more) = n + 1
    OBVIOUS
  <2> HIDE DEF more
  <2>2. PICK B, w : Tree(HashesOf(more), Len(more), B, w, top) /\ MerkleRoot(Committed(more)) = {B[top][1]}
    <3>1. top \in Nat /\ Len(more) <= top
      BY <1>1, <2>1
    <3> HIDE DEF top
    <3> QED BY <2>1, <3>1, TreeOfADay
  <2>3. Tree(HashesOf(more), n + 1, B, w, top) /\ top \in Nat
    BY <1>1, <2>1, <2>2
  <2>4. /\ \A i \in 1 .. n : \E x : HashesOf(leaves)[i] = HashLeaf(x)
        /\ \A i \in 1 .. n + 1 : \E x : HashesOf(more)[i] = HashLeaf(x)
    BY <2>1, LeavesOfADay
  <2> HIDE DEF top, n
  <2>5. A[top][1] # B[top][1]
    BY <1>1, <1>2, <2>3, <2>4, OneMoreLeafTells
  <2>6. MerkleRoot(Committed(more)) # MerkleRoot(Committed(leaves))
    BY <1>2, <2>2, <2>5
  <2> QED BY <2>6 DEF more
<1>4. ASSUME NEW i \in DOMAIN leaves, interval # leaves[i]
      PROVE  MerkleRoot(Committed([leaves EXCEPT ![i] = interval])) # MerkleRoot(Committed(leaves))
  <2> DEFINE other == [leaves EXCEPT ![i] = interval]
  <2>1. other \in Seq(CommittedIntervals) /\ Len(other) = n /\ other[i] = interval
    OBVIOUS
  <2>2. other # <<>>
    BY <1>1, <2>1
  <2> HIDE DEF other
  <2>3. PICK B, w : Tree(HashesOf(other), n, B, w, top) /\ MerkleRoot(Committed(other)) = {B[top][1]}
    <3>1. top \in Nat /\ Len(other) <= top
      BY <1>1, <2>1
    <3> HIDE DEF top
    <3>2. PICK B, w : Tree(HashesOf(other), Len(other), B, w, top) /\ MerkleRoot(Committed(other)) = {B[top][1]}
      BY <2>1, <2>2, <3>1, TreeOfADay
    <3> QED BY <2>1, <3>2
  <2> SUFFICES MerkleRoot(Committed(other)) # MerkleRoot(Committed(leaves))
    BY DEF other
  <2>4. SUFFICES ASSUME A[top][1] = B[top][1] PROVE FALSE
    BY <1>2, <2>3
  <2>5. top \in Nat /\ i \in 1 .. n /\ 0 \in 0 .. top
    BY <1>1
  <2> HIDE DEF top, n
  <2>6. Halves(n, v, top) /\ Halves(n, w, top)
    BY <1>2, <2>3, <2>5, ShapeOfATree
  <2>7. \A k \in 0 .. top : v[k] = w[k]
    <3> DEFINE Good == {k \in 0 .. top : v[k] = w[k]}
    <3>1. 0 \in Good
      BY <2>5, <2>6 DEF Halves
    <3>2. ASSUME NEW k \in 1 .. top, k - 1 \in Good PROVE k \in Good
      <4>1. v[k] = (v[k - 1] + 1) \div 2
        BY <2>6 DEF Halves
      <4>2. w[k] = (w[k - 1] + 1) \div 2
        BY <2>6 DEF Halves
      <4>3. k \in 0 .. top
        BY <2>5
      <4> QED BY <3>2, <4>1, <4>2, <4>3
    <3>3. \A k \in 0 .. top : k \in Good
      <4> HIDE DEF Good
      <4> QED BY <2>5, <3>1, <3>2, StepByStep
    <3> QED BY <3>3
  <2>8. \A j \in 1 .. v[0] : A[0][j] = B[0][j]
    BY <1>2, <2>3, <2>4, <2>5, <2>7, SameDownwards
  <2>9. A[0][i] = HashesOf(leaves)[i] /\ B[0][i] = HashesOf(other)[i]
    BY <1>2, <2>3, <2>5 DEF Tree
  <2>10. HashLeaf(CanonicalInterval(leaves[i])) = HashLeaf(CanonicalInterval(interval))
    <3>1. HashesOf(leaves)[i] = HashLeaf(CanonicalInterval(leaves[i]))
      BY <2>5, LeavesOfADay DEF n
    <3>2. HashesOf(other)[i] = HashLeaf(CanonicalInterval(interval))
      BY <2>1, <2>2, <2>5, LeavesOfADay
    <3>3. v[0] = n
      BY <2>6 DEF Halves
    <3> QED BY <2>5, <2>8, <2>9, <3>1, <3>2, <3>3
  <2>11. leaves[i] \in CommittedIntervals
    OBVIOUS
  <2> QED BY <1>4, <2>10, <2>11, HashesAreFree, CanonicalTells
<1> QED BY <1>3, <1>4

(* The root on chain stands for the intervals the worker measured: every   *)
(* one of them can be shown to be in it, nothing else can, and no day that *)
(* differs by an interval or has one more has the same root.  For days of  *)
(* any length and any medians and votes, with hashes that collide for      *)
(* nothing.                                                                *)
THEOREM RootsSpeak == MerkleSpec => []RootSpeaksForTheDay
<1> DEFINE Days == leaves \in Seq(CommittedIntervals)
<1>1. MerkleInit => Days
  BY DEF MerkleInit
<1>2. Days /\ [MerkleNext]_leaves => Days'
  BY DEF MerkleNext, AddLeaf
<1>3. Days => RootSpeaksForTheDay
  BY AllProve, AllBind, AllDiffer DEF RootSpeaksForTheDay
<1> QED BY <1>1, <1>2, <1>3, PTL DEF MerkleSpec

-----------------------------------------------------------------------------
(***************************************************************************)
(* The price of a lie.                                                     *)
(***************************************************************************)
PriceRows == [operator : Nat, stake : PriceStakes, active : BOOLEAN]

PriceInv ==
  /\ rows \in Seq(PriceRows) /\ givenUp \in Nat
  /\ pool \in [minStake : PriceMinStakes, minVotes : PriceMinVotes,
               capital : PriceCapitals, exposureBps : PriceExposureBps]
  /\ votes \in Seq(VoteValues)
  /\ \A i, j \in DOMAIN votes : i <= j => votes[i] <= votes[j]

(* The operators of a cell are finitely many. *)
LEMMA OperatorsOfRows ==
  ASSUME PriceInv
  PROVE  IsFiniteSet(Operators) /\ Operators \subseteq Nat
<1>1. DOMAIN rows = 1 .. Len(rows) /\ Len(rows) \in Nat /\ \A i \in DOMAIN rows : rows[i] \in PriceRows
  BY DEF PriceInv
<1>2. IsFiniteSet(DOMAIN rows)
  BY <1>1, FS_Interval
<1> DEFINE name == [i \in DOMAIN rows |-> rows[i].operator]
<1>3. IsFiniteSet({name[i] : i \in DOMAIN rows})
  <2> HIDE DEF name
  <2> QED BY <1>2, SizeOfImage
<1>4. {name[i] : i \in DOMAIN rows} = Operators
  BY DEF Operators
<1> QED BY <1>1, <1>3, <1>4 DEF Operators, PriceRows

LEMMA PriceStep == ASSUME PriceInv, [CollusionNext]_priceVars PROVE PriceInv'
<1>1. ASSUME NEW stake \in PriceStakes, NEW active \in BOOLEAN, MirrorRow(stake, active) PROVE PriceInv'
  <2>1. PICK o \in Operators \cup {Cardinality(Operators) + 1} :
          rows' = Append(rows, [operator |-> o, stake |-> stake, active |-> active])
    BY <1>1 DEF MirrorRow
  <2>2. o \in Nat
    BY <2>1, OperatorsOfRows, FS_CardinalityType
  <2>3. [operator |-> o, stake |-> stake, active |-> active] \in PriceRows
    BY <2>2 DEF PriceRows
  <2>4. rows' \in Seq(PriceRows)
    BY <2>1, <2>3 DEF PriceInv
  <2> QED BY <1>1, <2>4 DEF MirrorRow, PriceInv
<1>2. CASE MoveRowAway
  <2>1. rows' = Front(rows) /\ rows # <<>> /\ rows \in Seq(PriceRows)
    BY <1>2 DEF MoveRowAway, PriceInv
  <2>2. rows' \in Seq(PriceRows)
    <3>1. Len(rows) \in Nat \ {0} /\ DOMAIN rows = 1 .. Len(rows) /\ rows' = SubSeq(rows, 1, Len(rows) - 1)
      BY <2>1 DEF Front
    <3>2. \A i \in 1 .. Len(rows) - 1 : rows[i] \in PriceRows
      BY <2>1, <3>1
    <3> QED BY <3>1, <3>2
  <2> QED BY <1>2, <2>2 DEF MoveRowAway, PriceInv
<1>3. ASSUME NEW value \in VoteValues, HonestVote(value) PROVE PriceInv'
  <2>1. /\ votes' = Append(votes, value) /\ UNCHANGED <<rows, givenUp, pool>>
        /\ votes # <<>> => votes[Len(votes)] <= value
    BY <1>3 DEF HonestVote, Last
  <2>2. votes \in Seq(VoteValues) /\ Len(votes) \in Nat /\ DOMAIN votes = 1 .. Len(votes)
    BY DEF PriceInv
  <2>3. \A v \in VoteValues : v \in Int
    BY CollusionAssumption
  <2>4. /\ votes' \in Seq(VoteValues) /\ DOMAIN votes' = 1 .. Len(votes) + 1
        /\ \A i \in 1 .. Len(votes) + 1 : votes'[i] = IF i = Len(votes) + 1 THEN value ELSE votes[i]
    BY <2>1, <2>2
  <2>5. ASSUME NEW i \in DOMAIN votes', NEW j \in DOMAIN votes', i <= j PROVE votes'[i] <= votes'[j]
    <3>1. CASE j \in DOMAIN votes
      <4>1. i \in DOMAIN votes /\ votes'[i] = votes[i] /\ votes'[j] = votes[j]
        BY <2>2, <2>4, <2>5, <3>1
      <4> QED BY <2>5, <3>1, <4>1 DEF PriceInv
    <3>2. CASE j \notin DOMAIN votes /\ i \in DOMAIN votes
      <4>1. j = Len(votes) + 1 /\ votes'[j] = value /\ votes'[i] = votes[i]
        BY <2>2, <2>4, <3>2
      <4>2. Len(votes) \in DOMAIN votes /\ i <= Len(votes) /\ votes # <<>>
        BY <2>2, <3>2
      <4>3. votes[i] <= votes[Len(votes)]
        BY <3>2, <4>2 DEF PriceInv
      <4>4. votes[i] \in Int /\ votes[Len(votes)] \in Int /\ value \in Int
        BY <2>2, <2>3, <3>2, <4>2
      <4> QED BY <2>1, <4>1, <4>2, <4>3, <4>4
    <3>3. CASE i \notin DOMAIN votes
      <4>1. i = Len(votes) + 1 /\ j = Len(votes) + 1
        BY <2>2, <2>4, <2>5, <3>3
      <4> QED BY <2>3, <2>4, <4>1
    <3> QED BY <3>1, <3>2, <3>3
  <2> QED BY <2>1, <2>4, <2>5 DEF PriceInv
<1>4. CASE UNCHANGED priceVars
  BY <1>4 DEF PriceInv, priceVars
<1> QED BY <1>1, <1>2, <1>3, <1>4 DEF CollusionNext

(* Who votes, with what, and the numbers it is compared with. *)
LEMMA VotersOfRows ==
  ASSUME PriceInv
  PROVE  /\ IsFiniteSet(Voters) /\ Voters \subseteq Nat /\ Cardinality(Voters) \in Nat
         /\ pool.minStake \in Nat \ {0} /\ pool.minVotes \in Nat /\ FreeSlots \in Nat
         /\ pool.capital \in Nat /\ pool.exposureBps \in Nat
         /\ \A o \in Voters : StakeOf[o] \in Nat /\ pool.minStake <= StakeOf[o]
<1>1. /\ DOMAIN rows = 1 .. Len(rows) /\ Len(rows) \in Nat
      /\ \A i \in DOMAIN rows : rows[i].operator \in Nat /\ rows[i].stake \in Nat
  <2>1. DOMAIN rows = 1 .. Len(rows) /\ Len(rows) \in Nat /\ \A i \in DOMAIN rows : rows[i] \in PriceRows
    BY DEF PriceInv
  <2>2. PriceStakes \subseteq Nat
    BY CollusionAssumption
  <2> QED BY <2>1, <2>2 DEF PriceRows
<1>2. /\ pool.minStake \in Nat \ {0} /\ pool.minVotes \in Nat
      /\ pool.capital \in Nat /\ pool.exposureBps \in Nat
  BY CollusionAssumption DEF PriceInv
<1>3. IsFiniteSet(Voters) /\ Voters \subseteq Nat
  <2>1. Voters \subseteq Operators
    BY DEF Voters, Voting, Operators
  <2> QED BY <2>1, OperatorsOfRows, FS_Subset
<1>4. FreeSlots \in Nat
  <2>1. PriceSlots - (Len(rows) + givenUp) \in Int
    BY <1>1, CollusionAssumption DEF PriceInv
  <2> DEFINE S == {0, PriceSlots - (Len(rows) + givenUp)}
  <2>2. \E x \in S : \A y \in S : x >= y
    BY <2>1
  <2>3. Max(S) \in S /\ Max(S) >= 0
    BY <2>2 DEF Max
  <2> QED BY <2>1, <2>3 DEF FreeSlots
<1>5. ASSUME NEW o \in Voters PROVE StakeOf[o] \in Nat /\ pool.minStake <= StakeOf[o]
  <2> DEFINE f == [i \in DOMAIN rows |-> rows[i].stake]
             T == {i \in Voting : rows[i].operator = o}
  <2>1. StakeOf[o] = SumFunctionOnSet(f, T)
    BY DEF StakeOf
  <2>2. PICK i \in T : TRUE
    BY DEF Voters
  <2>3. T \subseteq DOMAIN rows /\ \A j \in T : f[j] \in Nat /\ f[j] >= pool.minStake
    BY <1>1 DEF Voting
  <2>4. IsFiniteSet(T)
    <3>1. IsFiniteSet(DOMAIN rows)
      BY <1>1, FS_Interval
    <3> HIDE DEF T
    <3> QED BY <2>3, <3>1, FS_Subset
  <2> HIDE DEF f, T
  <2>5. SumFunctionOnSet(f, T) = f[i] + SumFunctionOnSet(f, T \ {i}) /\ SumFunctionOnSet(f, T \ {i}) \in Nat
    BY <2>2, <2>3, <2>4, SumWithout
  <2> QED BY <1>2, <2>1, <2>2, <2>3, <2>5
<1> QED BY <1>2, <1>3, <1>4, <1>5, FS_CardinalityType

(* The voters in the order of their stakes. *)
InOrder(at) ==
  LET n == Cardinality(Voters)  stakes == VoteStakesByCell IN
  /\ at \in [1 .. n -> Voters]
  /\ \A o \in Voters : \E k \in 1 .. n : at[k] = o
  /\ \A i, j \in 1 .. n : at[i] = at[j] => i = j
  /\ stakes = [k \in 1 .. n |-> stakes[k]]
  /\ \A k \in 1 .. n : stakes[k] = StakeOf[at[k]]
  /\ \A i, j \in 1 .. n : i <= j => stakes[i] <= stakes[j]

LEMMA StakesAreInOrder ==
  ASSUME PriceInv
  PROVE  \E at : InOrder(at)
<1> DEFINE n == Cardinality(Voters)
           cheaper(o) == {p \in Voters : StakeOf[p] < StakeOf[o] \/ (StakeOf[p] = StakeOf[o] /\ p < o)}
           below == [o \in Voters |-> cheaper(o)]
<1>1. n \in Nat /\ IsFiniteSet(Voters) /\ \A o \in Voters : o \in Int /\ StakeOf[o] \in Int
  BY VotersOfRows
<1>2. ComparesAny(below, Voters)
  BY <1>1 DEF ComparesAny
<1>3. PICK at : Enumerates(at, below, Voters)
  <2> HIDE DEF below
  <2> QED BY <1>1, <1>2, RanksOfAnOrder
<1>4. at \in [1 .. n -> Voters] /\ \A o \in Voters : \E k \in 1 .. n : at[k] = o
  BY <1>3 DEF Enumerates
<1>5. \A i, j \in 1 .. n : i < j => StakeOf[at[i]] <= StakeOf[at[j]] /\ at[i] # at[j]
  <2> SUFFICES ASSUME NEW i \in 1 .. n, NEW j \in 1 .. n, i < j
               PROVE  StakeOf[at[i]] <= StakeOf[at[j]] /\ at[i] # at[j]
    OBVIOUS
  <2>1. at[i] \in below[at[j]] /\ at[j] \in Voters /\ at[i] \in Voters
    BY <1>3, <1>4 DEF Enumerates
  <2> QED BY <1>1, <2>1
<1>6. ASSUME NEW k \in 1 .. n PROVE VoteStakesByCell[k] = StakeOf[at[k]]
  <2>1. VoteStakesByCell[k] = StakeOf[CHOOSE o \in Voters : Cardinality(cheaper(o)) = k - 1]
    BY DEF VoteStakesByCell
  <2>2. \A o \in Voters : Cardinality(below[o]) = k - 1 <=> o = at[k]
    BY <1>3 DEF Enumerates
  <2>3. \A o \in Voters : below[o] = cheaper(o)
    OBVIOUS
  <2> HIDE DEF cheaper, below
  <2>4. (CHOOSE o \in Voters : Cardinality(cheaper(o)) = k - 1) = at[k]
    BY <1>4, <2>2, <2>3
  <2> QED BY <2>1, <2>4
<1>7. VoteStakesByCell = [k \in 1 .. n |-> VoteStakesByCell[k]]
  BY DEF VoteStakesByCell
<1>8. \A i, j \in 1 .. n : i <= j => VoteStakesByCell[i] <= VoteStakesByCell[j]
  <2> SUFFICES ASSUME NEW i \in 1 .. n, NEW j \in 1 .. n, i <= j
               PROVE  StakeOf[at[i]] <= StakeOf[at[j]]
    BY <1>6
  <2>1. i \in Int /\ j \in Int /\ StakeOf[at[i]] \in Int
    BY <1>1, <1>4
  <2> QED BY <1>5, <2>1
<1>9. \A i, j \in 1 .. n : at[i] = at[j] => i = j
  <2>1. \A i, j \in 1 .. n : i \in Int /\ j \in Int
    BY <1>1
  <2> QED BY <1>5, <2>1
<1> HIDE DEF n
<1> QED BY <1>4, <1>6, <1>7, <1>8, <1>9 DEF InOrder, n

(* The first stakes are the least any as many voters have. *)
LEMMA FirstAreCheapest ==
  ASSUME NEW n \in Nat, NEW st, \A k \in 1 .. n : st[k] \in Nat,
         \A i, j \in 1 .. n : i <= j => st[i] <= st[j],
         NEW P \in SUBSET (1 .. n), NEW b \in Nat, Cardinality(P) = b
  PROVE  SumFunctionOnSet(st, 1 .. b) <= SumFunctionOnSet(st, P)
<1>1. /\ IsFiniteSet(1 .. n) /\ Cardinality(1 .. n) = n
      /\ IsFiniteSet(1 .. b) /\ Cardinality(1 .. b) = b
  BY FS_Interval, SMTT(30)
<1>2. IsFiniteSet(P) /\ b <= n
  BY <1>1, FS_Subset
<1> DEFINE B == 1 .. b
           C == P \cap B
           mine == P \ C
           first == B \ C
<1>3. /\ IsFiniteSet(C) /\ IsFiniteSet(mine) /\ IsFiniteSet(first) /\ C \in SUBSET P /\ C \in SUBSET B
      /\ mine \subseteq 1 .. n /\ first \subseteq 1 .. n
  <2>1. C \in SUBSET P /\ C \in SUBSET B /\ mine \subseteq P /\ first \subseteq B /\ mine \subseteq 1 .. n
    OBVIOUS
  <2>2. B \subseteq 1 .. n
    BY <1>2
  <2> HIDE DEF B, C, mine, first
  <2> QED BY <1>1, <1>2, <2>1, <2>2, FS_Subset DEF B
<1>4. Cardinality(mine) = Cardinality(first) /\ Cardinality(mine) \in Nat
  <2>1. Cardinality(mine) = Cardinality(P) - Cardinality(P \cap C)
    BY <1>2, <1>3, FS_Difference
  <2>2. Cardinality(first) = Cardinality(B) - Cardinality(B \cap C)
    BY <1>1, <1>3, FS_Difference
  <2>3. P \cap C = C /\ B \cap C = C
    OBVIOUS
  <2>4. Cardinality(C) \in Nat /\ Cardinality(mine) \in Nat
    BY <1>3, FS_CardinalityType
  <2> HIDE DEF C, mine, first, B
  <2> QED BY <1>1, <2>1, <2>2, <2>3, <2>4 DEF B
<1>5. SumFunctionOnSet(st, first) <= SumFunctionOnSet(st, mine)
  <2>1. CASE first = {}
    <3>1. Cardinality(mine) = 0
      BY <1>4, <2>1, FS_EmptySet
    <3>2. mine = {}
      BY <1>3, <3>1, FS_EmptySet
    <3>3. SumFunctionOnSet(st, {}) = 0
      BY SumOfNone
    <3> HIDE DEF first, mine
    <3> QED BY <2>1, <3>2, <3>3
  <2>2. CASE first # {}
    <3>1. b \in 1 .. n
      BY <1>2, <2>2
    <3> DEFINE k == st[b]
               flat == [x \in 1 .. n |-> k]
    <3>2. k \in Nat
      BY <3>1
    <3>3. \A x \in first : st[x] \in Nat /\ flat[x] = k /\ st[x] <= k
      BY <1>3, <3>1
    <3>4. \A x \in mine : st[x] \in Nat /\ flat[x] = k /\ k <= st[x]
      BY <1>3, <3>1
    <3> HIDE DEF k, flat, mine, first
    <3>5. SumFunctionOnSet(st, first) <= SumFunctionOnSet(flat, first)
      BY <1>3, <3>2, <3>3, SumOfLess
    <3>6. SumFunctionOnSet(flat, mine) <= SumFunctionOnSet(st, mine)
      BY <1>3, <3>2, <3>4, SumOfLess
    <3>7. SumFunctionOnSet(flat, first) = Cardinality(first) * k
      BY <1>3, <3>2, <3>3, SumOfConstant
    <3>8. SumFunctionOnSet(flat, mine) = Cardinality(mine) * k
      BY <1>3, <3>2, <3>4, SumOfConstant
    <3>9. /\ SumFunctionOnSet(flat, first) = SumFunctionOnSet(flat, mine)
          /\ SumFunctionOnSet(flat, mine) \in Nat
      <4>1. SumFunctionOnSet(flat, mine) \in Nat
        BY <1>3, <3>2, <3>4, SumType
      <4> QED BY <1>4, <3>7, <3>8, <4>1
    <3>10. SumFunctionOnSet(st, first) \in Nat /\ SumFunctionOnSet(st, mine) \in Nat
      BY <1>3, <3>3, <3>4, SumType
    <3> QED BY <3>5, <3>6, <3>9, <3>10
  <2> QED BY <2>1, <2>2
<1>6. SumFunctionOnSet(st, P) = SumFunctionOnSet(st, C) + SumFunctionOnSet(st, mine)
  <2>1. \A x \in P : st[x] \in Nat
    OBVIOUS
  <2> HIDE DEF C
  <2> QED BY <1>2, <1>3, <2>1, SumOfParts
<1>7. SumFunctionOnSet(st, B) = SumFunctionOnSet(st, C) + SumFunctionOnSet(st, first)
  <2>1. \A x \in B : st[x] \in Nat
    BY <1>2
  <2>2. IsFiniteSet(B)
    BY <1>1
  <2> HIDE DEF B, C
  <2> QED BY <1>3, <2>1, <2>2, SumOfParts
<1>8. /\ SumFunctionOnSet(st, C) \in Nat /\ SumFunctionOnSet(st, mine) \in Nat
      /\ SumFunctionOnSet(st, first) \in Nat
  <2>1. \A x \in C : st[x] \in Nat
    OBVIOUS
  <2>2. (\A x \in mine : st[x] \in Nat) /\ (\A x \in first : st[x] \in Nat)
    BY <1>3
  <2> HIDE DEF C, mine, first
  <2> QED BY <1>3, <2>1, <2>2, SumType
<1> HIDE DEF mine, first, C
<1> QED BY <1>5, <1>6, <1>7, <1>8

(* What b voters cost at least, and what costs just that. *)
LEMMA CheapestVoters ==
  ASSUME PriceInv, NEW at, InOrder(at)
  PROVE  /\ \A B \in SUBSET Voters :
              /\ Cardinality(B) \in 0 .. Cardinality(Voters)
              /\ SumFunctionOnSet(StakeOf, B) \in Nat
              /\ Cardinality(B) * pool.minStake <= SumFunctionOnSet(StakeOf, B)
              /\ SumFunctionOnSet(VoteStakesByCell, 1 .. Cardinality(B)) <= SumFunctionOnSet(StakeOf, B)
         /\ \A b \in 0 .. Cardinality(Voters) :
              /\ SumFunctionOnSet(VoteStakesByCell, 1 .. b) \in Nat
              /\ \E B \in SUBSET Voters :
                   /\ Cardinality(B) = b
                   /\ SumFunctionOnSet(VoteStakesByCell, 1 .. b) = SumFunctionOnSet(StakeOf, B)
<1> DEFINE n == Cardinality(Voters)
           st == VoteStakesByCell
<1>1. /\ n \in Nat /\ IsFiniteSet(Voters) /\ pool.minStake \in Nat
      /\ \A o \in Voters : StakeOf[o] \in Nat /\ pool.minStake <= StakeOf[o]
  BY VotersOfRows
<1>2. /\ at \in [1 .. n -> Voters]
      /\ \A o \in Voters : \E k \in 1 .. n : at[k] = o
      /\ \A i, j \in 1 .. n : at[i] = at[j] => i = j
      /\ \A k \in 1 .. n : st[k] = StakeOf[at[k]] /\ st[k] \in Nat
      /\ \A i, j \in 1 .. n : i <= j => st[i] <= st[j]
  BY <1>1 DEF InOrder
<1>3. IsFiniteSet(1 .. n)
  BY <1>1, FS_Interval
<1> HIDE DEF n, st
<1>4. ASSUME NEW P \in SUBSET (1 .. n)
      PROVE  /\ IsFiniteSet(P) /\ Cardinality({at[k] : k \in P}) = Cardinality(P)
             /\ SumFunctionOnSet(StakeOf, {at[k] : k \in P}) = SumFunctionOnSet(st, P)
             /\ SumFunctionOnSet(st, P) \in Nat
  <2>1. IsFiniteSet(P)
    BY <1>3, FS_Subset
  <2>2. \A x \in P : st[x] \in Nat /\ StakeOf[at[x]] = st[x]
    BY <1>2
  <2>3. \A x, y \in P : at[x] = at[y] => x = y
    BY <1>2
  <2> DEFINE T == P
  <2>4. /\ IsFiniteSet(T) /\ \A x \in T : st[x] \in Nat /\ StakeOf[at[x]] = st[x]
        /\ \A x, y \in T : at[x] = at[y] => x = y
    BY <2>1, <2>2, <2>3
  <2> HIDE DEF T
  <2>5. SumFunctionOnSet(StakeOf, {at[k] : k \in T}) = SumFunctionOnSet(st, T)
    BY <2>4, SumRenamed
  <2>6. SumFunctionOnSet(StakeOf, {at[k] : k \in P}) = SumFunctionOnSet(st, P)
    BY <2>5 DEF T
  <2>7. Cardinality({at[k] : k \in P}) = Cardinality(P)
    BY <2>1, <2>3, SizeOfImage
  <2> QED BY <2>1, <2>2, <2>6, <2>7, SumType
<1>5. ASSUME NEW B \in SUBSET Voters
      PROVE  /\ Cardinality(B) \in 0 .. n
             /\ SumFunctionOnSet(StakeOf, B) \in Nat
             /\ Cardinality(B) * pool.minStake <= SumFunctionOnSet(StakeOf, B)
             /\ SumFunctionOnSet(st, 1 .. Cardinality(B)) <= SumFunctionOnSet(StakeOf, B)
  <2> DEFINE P == {k \in 1 .. n : at[k] \in B}
             flat == [o \in Voters |-> pool.minStake]
  <2>1. B = {at[k] : k \in P}
    BY <1>2
  <2>2. IsFiniteSet(B) /\ Cardinality(B) <= n
    BY <1>1, FS_Subset DEF n
  <2>3. Cardinality(B) \in Nat /\ Cardinality(B) \in 0 .. n
    <3>1. Cardinality(B) \in Nat
      BY <2>2, FS_CardinalityType
    <3> QED BY <1>1, <2>2, <3>1
  <2>4. P \in SUBSET (1 .. n)
    OBVIOUS
  <2>5. \A o \in B : StakeOf[o] \in Nat /\ flat[o] = pool.minStake /\ flat[o] \in Nat /\ flat[o] <= StakeOf[o]
    BY <1>1
  <2> HIDE DEF P, flat
  <2>6. Cardinality(P) = Cardinality(B) /\ SumFunctionOnSet(StakeOf, B) = SumFunctionOnSet(st, P)
    BY <1>4, <2>1, <2>4
  <2>7. SumFunctionOnSet(st, 1 .. Cardinality(B)) <= SumFunctionOnSet(st, P)
    BY <1>1, <1>2, <2>3, <2>4, <2>6, FirstAreCheapest
  <2>8. SumFunctionOnSet(StakeOf, B) \in Nat
    BY <2>2, <2>5, SumType
  <2>9. SumFunctionOnSet(flat, B) <= SumFunctionOnSet(StakeOf, B)
    BY <2>2, <2>5, SumOfLess
  <2>10. SumFunctionOnSet(flat, B) = Cardinality(B) * pool.minStake
    BY <1>1, <2>2, <2>5, SumOfConstant
  <2> QED BY <2>3, <2>6, <2>7, <2>8, <2>9, <2>10
<1>6. ASSUME NEW b \in 0 .. n
      PROVE  /\ SumFunctionOnSet(st, 1 .. b) \in Nat
             /\ \E B \in SUBSET Voters :
                  Cardinality(B) = b /\ SumFunctionOnSet(st, 1 .. b) = SumFunctionOnSet(StakeOf, B)
  <2>1. 1 .. b \in SUBSET (1 .. n) /\ b \in Nat
    BY <1>1
  <2>2. Cardinality(1 .. b) = b
    BY <2>1, FS_Interval
  <2> DEFINE B == {at[k] : k \in 1 .. b}
  <2>3. B \in SUBSET Voters
    BY <1>2, <2>1
  <2>4. Cardinality(B) = b /\ SumFunctionOnSet(StakeOf, B) = SumFunctionOnSet(st, 1 .. b) /\ SumFunctionOnSet(st, 1 .. b) \in Nat
    BY <1>4, <2>1, <2>2
  <2> HIDE DEF B
  <2> QED BY <2>3, <2>4
<1> QED BY <1>5, <1>6 DEF n, st

(* Of finitely many amounts one is the least. *)
LEMMA LeastAmount ==
  ASSUME NEW S, IsFiniteSet(S), S # {}, NEW f, \A x \in S : f[x] \in Int
  PROVE  \E x \in S : \A y \in S : f[x] <= f[y]
<1> DEFINE g == [x \in S |-> [value |-> -f[x]]]
           T == {g[x] : x \in S}
<1>1. IsFiniteSet(T)
  <2> HIDE DEF g
  <2> QED BY SizeOfImage
<1>2. Valued(T) /\ T # {}
  <2>1. ASSUME NEW t \in T PROVE t.value \in Int
    <3>1. PICK x \in S : t = [value |-> -f[x]]
      OBVIOUS
    <3> QED BY <3>1
  <2>2. T # {}
    OBVIOUS
  <2> HIDE DEF T
  <2> QED BY <1>1, <2>1, <2>2 DEF Valued
<1>3. PICK t \in T : \A u \in T : u.value <= t.value
  <2> HIDE DEF T
  <2> QED BY <1>2, GreatestValue
<1>4. PICK x \in S : t = g[x]
  BY <1>3
<1>5. ASSUME NEW y \in S PROVE f[x] <= f[y]
  <2>1. g[y].value = -f[y] /\ g[x].value = -f[x] /\ g[y] \in T
    OBVIOUS
  <2>2. -f[y] <= -f[x] /\ f[x] \in Int /\ f[y] \in Int
    BY <1>3, <1>4, <2>1
  <2> QED BY <2>2
<1> QED BY <1>5

(* The least is what Min is, and the greatest what Max is. *)
LEMMA MinIs == ASSUME NEW S, S \subseteq Int, NEW x \in S, \A y \in S : x <= y PROVE Min(S) = x
<1>1. \A z \in S : (\A y \in S : z <= y) => z = x
  <2> SUFFICES ASSUME NEW z \in S, \A y \in S : z <= y PROVE z = x
    OBVIOUS
  <2>1. z <= x /\ x <= z /\ z \in Int /\ x \in Int
    OBVIOUS
  <2> QED BY <2>1
<1> QED BY <1>1 DEF Min

LEMMA MaxOfThree ==
  ASSUME NEW a \in Int, NEW b \in Int, NEW c \in Int
  PROVE  /\ Max({a, b, c}) \in {a, b, c}
         /\ a <= Max({a, b, c}) /\ b <= Max({a, b, c}) /\ c <= Max({a, b, c})
<1>1. \E x \in {a, b, c} : \A y \in {a, b, c} : x >= y
  <2>1. (a >= b \/ b >= a) /\ (a >= c \/ c >= a) /\ (b >= c \/ c >= b) /\ a >= a /\ b >= b /\ c >= c
    OBVIOUS
  <2>2. CASE a >= b /\ a >= c
    BY <2>1, <2>2
  <2>3. CASE b >= a /\ b >= c
    BY <2>1, <2>3
  <2>4. CASE c >= a /\ c >= b
    BY <2>1, <2>4
  <2> QED BY <2>1, <2>2, <2>3, <2>4
<1>2. Max({a, b, c}) \in {a, b, c} /\ \A y \in {a, b, c} : Max({a, b, c}) >= y
  BY <1>1 DEF Max
<1> QED BY <1>2

LEMMA MaxOfTwo ==
  ASSUME NEW a \in Int, NEW b \in Int
  PROVE  /\ Max({a, b}) \in {a, b} /\ a <= Max({a, b}) /\ b <= Max({a, b})
         /\ Min({a, b}) \in {a, b} /\ Min({a, b}) <= a /\ Min({a, b}) <= b
<1>1. (\E x \in {a, b} : \A y \in {a, b} : x >= y) /\ (\E x \in {a, b} : \A y \in {a, b} : x <= y)
  OBVIOUS
<1>2. /\ Max({a, b}) \in {a, b} /\ \A y \in {a, b} : Max({a, b}) >= y
      /\ Min({a, b}) \in {a, b} /\ \A y \in {a, b} : Min({a, b}) <= y
  BY <1>1 DEF Max, Min
<1> QED BY <1>2

(* How many to add is exactly how many are needed. *)
LEMMA AddedIsEnough ==
  ASSUME NEW b \in Nat, NEW n \in Nat, pool.minVotes \in Nat
  PROVE  /\ Added(b, n) \in Nat
         /\ \A a \in Nat : Added(b, n) <= a <=> (b + a >= 1 /\ 2 * b + a >= n /\ n + a >= pool.minVotes)
<1> DEFINE x == IF b = 0 THEN 1 ELSE 0
           y == n - 2 * b
           z == pool.minVotes - n
           m == Added(b, n)
<1>1. x \in Nat /\ x \in Int /\ y \in Int /\ z \in Int
  OBVIOUS
<1>2. m = Max({x, y, z})
  BY DEF Added
<1>3. m \in {x, y, z} /\ x <= m /\ y <= m /\ z <= m
  <2> HIDE DEF x, y, z, m
  <2>1. /\ Max({x, y, z}) \in {x, y, z}
        /\ x <= Max({x, y, z}) /\ y <= Max({x, y, z}) /\ z <= Max({x, y, z})
    BY <1>1, MaxOfThree, Zenon
  <2> QED BY <1>2, <2>1
<1> HIDE DEF m
<1>4. m \in Nat
  BY <1>1, <1>3
<1>5. ASSUME NEW a \in Nat PROVE m <= a <=> (x <= a /\ y <= a /\ z <= a)
  <2> HIDE DEF x, y, z
  <2> QED BY <1>1, <1>3, <1>4
<1>6. ASSUME NEW a \in Nat PROVE x <= a /\ y <= a /\ z <= a <=> (b + a >= 1 /\ 2 * b + a >= n /\ n + a >= pool.minVotes)
  OBVIOUS
<1> HIDE DEF x, y, z
<1> QED BY <1>4, <1>5, <1>6 DEF m

LEMMA MoreCostsMore ==
  /\ \A k, m \in Nat : k * m \in Nat
  /\ \A j, k, m \in Nat : j <= k => j * m <= k * m
  /\ \A j, k, m \in Nat : (j + k) * m = j * m + k * m
BY SMTT(30)

(* The paths that are tried, and what each costs. *)
PathCost(b) ==
  SumFunctionOnSet(VoteStakesByCell, 1 .. b) + Added(b, Cardinality(Voters)) * pool.minStake

OpenPaths == {b \in 0 .. Cardinality(Voters) : Added(b, Cardinality(Voters)) <= FreeSlots}

(* No takeover is cheaper than the path that buys as many, and every path  *)
(* is a takeover.                                                          *)
LEMMA PathsAreTakeovers ==
  ASSUME PriceInv
  PROVE  /\ \A w \in Takeovers :
              /\ TakeoverCost(w) \in Nat
              /\ \E b \in OpenPaths : PathCost(b) <= TakeoverCost(w)
         /\ \A b \in OpenPaths : PathCost(b) \in Nat /\ \E w \in Takeovers : TakeoverCost(w) = PathCost(b)
<1> DEFINE n == Cardinality(Voters)
           ms == pool.minStake
<1>1. n \in Nat /\ ms \in Nat /\ pool.minVotes \in Nat /\ FreeSlots \in Nat
  BY VotersOfRows
<1>2. PICK at : InOrder(at)
  BY StakesAreInOrder
<1>3. ASSUME NEW w \in Takeovers
      PROVE  TakeoverCost(w) \in Nat /\ \E b \in OpenPaths : PathCost(b) <= TakeoverCost(w)
  <2> DEFINE b == Cardinality(w.bought)
             a == w.added
             first == SumFunctionOnSet(VoteStakesByCell, 1 .. b)
             bought == SumFunctionOnSet(StakeOf, w.bought)
  <2>1. /\ w.bought \in SUBSET Voters /\ a \in 0 .. FreeSlots
        /\ b + a >= 1 /\ 2 * (b + a) >= n + a /\ n + a >= pool.minVotes
    BY DEF Takeovers
  <2>2. b \in 0 .. n /\ bought \in Nat /\ first <= bought
    BY <1>2, <2>1, CheapestVoters
  <2>3. first \in Nat
    BY <1>2, <2>2, CheapestVoters
  <2>4. TakeoverCost(w) = bought + a * ms
    BY DEF TakeoverCost
  <2>5. PathCost(b) = first + Added(b, n) * ms
    BY DEF PathCost
  <2> HIDE DEF b, first, bought, n, ms, a
  <2>6. b \in Nat /\ a \in Nat /\ a <= FreeSlots
    BY <1>1, <2>1, <2>2
  <2>7. Added(b, n) \in Nat /\ Added(b, n) <= a
    <3>1. 2 * b + a >= n
      BY <1>1, <2>1, <2>6
    <3> QED BY <1>1, <2>1, <2>6, <3>1, AddedIsEnough
  <2>8. b \in OpenPaths
    <3>1. Added(b, n) <= FreeSlots
      BY <1>1, <2>6, <2>7
    <3> QED BY <2>2, <3>1 DEF OpenPaths, n
  <2>9. Added(b, n) * ms \in Nat /\ a * ms \in Nat /\ Added(b, n) * ms <= a * ms
    BY <1>1, <2>6, <2>7, MoreCostsMore
  <2>10. PathCost(b) <= TakeoverCost(w) /\ TakeoverCost(w) \in Nat
    BY <2>2, <2>3, <2>4, <2>5, <2>9
  <2> QED BY <2>8, <2>10
<1>4. ASSUME NEW b \in OpenPaths
      PROVE  PathCost(b) \in Nat /\ \E w \in Takeovers : TakeoverCost(w) = PathCost(b)
  <2> DEFINE first == SumFunctionOnSet(VoteStakesByCell, 1 .. b)
             a == Added(b, n)
  <2>1. b \in 0 .. n /\ b \in Nat /\ a <= FreeSlots
    BY <1>1 DEF OpenPaths
  <2>2. PICK B \in SUBSET Voters : Cardinality(B) = b /\ first = SumFunctionOnSet(StakeOf, B)
    BY <1>2, <2>1, CheapestVoters
  <2>3. first \in Nat
    BY <1>2, <2>1, CheapestVoters
  <2>4. PathCost(b) = first + a * ms
    BY DEF PathCost
  <2> HIDE DEF first, n, ms
  <2>5. a \in Nat /\ b + a >= 1 /\ 2 * b + a >= n /\ n + a >= pool.minVotes
    <3>1. a \in Nat /\ a <= a
      BY <1>1, <2>1, AddedIsEnough
    <3> QED BY <1>1, <2>1, <3>1, AddedIsEnough
  <2> HIDE DEF a
  <2>6. a * ms \in Nat
    BY <1>1, <2>5, MoreCostsMore
  <2> DEFINE w == [bought |-> B, added |-> a]
  <2>7. w \in Takeovers
    <3>1. a \in 0 .. FreeSlots /\ 2 * (b + a) >= n + a
      BY <1>1, <2>1, <2>5
    <3>2. w \in [bought : SUBSET Voters, added : 0 .. FreeSlots] /\ w.bought = B /\ w.added = a
      BY <3>1
    <3> HIDE DEF w
    <3> QED BY <2>2, <2>5, <3>1, <3>2 DEF Takeovers, n
  <2>8. TakeoverCost(w) = PathCost(b)
    BY <2>2, <2>4 DEF TakeoverCost, ms
  <2> HIDE DEF w
  <2> QED BY <2>3, <2>4, <2>6, <2>7, <2>8
<1> QED BY <1>3, <1>4

PathOf(b) == [bought |-> b, added |-> Added(b, Cardinality(Voters)), cost |-> PathCost(b)]

Wins(p) == \A b \in OpenPaths : p.cost < PathCost(b) \/ (p.cost = PathCost(b) /\ p.bought <= b)

LEMMA PricesArePaths == ASSUME PriceInv PROVE CollusionCost = {p \in {PathOf(b) : b \in OpenPaths} : Wins(p)}
<1> DEFINE n == Cardinality(Voters)
           paths == {PathOf(b) : b \in OpenPaths}
           Beats(p) == \A q \in paths : p.cost < q.cost \/ (p.cost = q.cost /\ p.bought <= q.bought)
<1>1. Len(VoteStakesByCell) = n
  <2>1. PICK at : InOrder(at)
    BY StakesAreInOrder
  <2>2. n \in Nat /\ VoteStakesByCell = [k \in 1 .. n |-> VoteStakesByCell[k]]
    BY <2>1, VotersOfRows DEF InOrder
  <2> HIDE DEF n
  <2> QED BY <2>2, LengthOfMap
<1>2. CollusionCost = {p \in paths : Beats(p)}
  BY <1>1 DEF CollusionCost, PathCost, OpenPaths, PathOf
<1>3. \A b : PathOf(b).bought = b /\ PathOf(b).cost = PathCost(b)
  BY DEF PathOf
<1>4. ASSUME NEW p PROVE Beats(p) <=> Wins(p)
  BY <1>3 DEF Wins
<1> HIDE DEF Beats
<1> QED BY <1>2, <1>4

(* The price published is the least there is. *)
LEMMA PriceIsTheLeast == ASSUME PriceInv PROVE PriceIsTheCheapest
<1> DEFINE n == Cardinality(Voters)
           Costs == {TakeoverCost(w) : w \in Takeovers}
<1>1. n \in Nat /\ FreeSlots \in Nat /\ \A b \in OpenPaths : PathCost(b) \in Nat /\ b \in Nat /\ Added(b, n) <= FreeSlots
  BY VotersOfRows, PathsAreTakeovers DEF OpenPaths
<1>2. /\ CollusionCost = {p \in {PathOf(b) : b \in OpenPaths} : Wins(p)}
      /\ \A b : PathOf(b).bought = b /\ PathOf(b).cost = PathCost(b) /\ PathOf(b).added = Added(b, n)
  BY PricesArePaths DEF PathOf
<1>3. \A p \in CollusionCost : p.added <= FreeSlots
  <2> SUFFICES ASSUME NEW p \in CollusionCost PROVE p.added <= FreeSlots
    OBVIOUS
  <2>1. PICK b \in OpenPaths : p = PathOf(b)
    BY <1>2
  <2>2. p.added = Added(b, n)
    BY <1>2, <2>1
  <2> QED BY <1>1, <2>2
<1>4. CASE OpenPaths = {}
  <2>1. Takeovers = {}
    BY <1>4, PathsAreTakeovers
  <2>2. CollusionCost = {}
    BY <1>2, <1>4
  <2> QED BY <1>3, <2>1, <2>2 DEF PriceIsTheCheapest
<1>5. CASE OpenPaths # {}
  <2> DEFINE price == [b \in OpenPaths |-> PathCost(b)]
  <2>1. IsFiniteSet(OpenPaths)
    <3>1. IsFiniteSet(0 .. n) /\ OpenPaths \subseteq 0 .. n
      <4>1. OpenPaths \subseteq 0 .. n
        BY DEF OpenPaths
      <4> HIDE DEF n
      <4> QED BY <1>1, <4>1, FS_Interval
    <3> QED BY <3>1, FS_Subset
  <2>2. PICK c \in OpenPaths : \A b \in OpenPaths : PathCost(c) <= PathCost(b)
    <3>1. \A b \in OpenPaths : price[b] \in Int
      BY <1>1
    <3>2. \E c \in OpenPaths : \A b \in OpenPaths : price[c] <= price[b]
      <4> HIDE DEF price
      <4> QED BY <1>5, <2>1, <3>1, LeastAmount
    <3> QED BY <3>2
  <2> DEFINE Ties == {b \in OpenPaths : PathCost(b) = PathCost(c)}
             self == [b \in Ties |-> b]
  <2>3. PICK d \in Ties : \A b \in Ties : d <= b
    <3>1. IsFiniteSet(Ties) /\ Ties # {}
      BY <2>1, FS_Subset
    <3>2. \A b \in Ties : self[b] \in Int
      BY <1>1
    <3>3. \E d \in Ties : \A b \in Ties : self[d] <= self[b]
      <4> HIDE DEF self, Ties
      <4> QED BY <3>1, <3>2, LeastAmount
    <3> QED BY <3>3
  <2> DEFINE m == PathCost(d)
  <2>4. d \in OpenPaths /\ m = PathCost(c) /\ \A b \in OpenPaths : m <= PathCost(b) /\ (PathCost(b) = m => d <= b)
    BY <2>2, <2>3
  <2>5. PathOf(d) \in CollusionCost
    <3>1. ASSUME NEW b \in OpenPaths PROVE m < PathCost(b) \/ (m = PathCost(b) /\ d <= b)
      <4>1. m \in Nat /\ PathCost(b) \in Nat /\ m <= PathCost(b)
        BY <1>1, <2>4
      <4> QED BY <2>4, <4>1
    <3>2. Wins(PathOf(d))
      BY <1>2, <3>1 DEF Wins
    <3> QED BY <1>2, <2>4, <3>2
  <2>6. ASSUME NEW p \in CollusionCost PROVE p.cost = m
    <3>1. PICK b \in OpenPaths : p = PathOf(b)
      BY <1>2
    <3>2. p.cost = PathCost(b) /\ (p.cost < m \/ p.cost = m)
      BY <1>2, <2>4, <3>1 DEF Wins
    <3>3. m <= PathCost(b) /\ m \in Nat /\ PathCost(b) \in Nat
      BY <1>1, <2>4
    <3> QED BY <3>2, <3>3
  <2>7. {p.cost : p \in CollusionCost} = {m}
    <3>1. PathOf(d).cost = m
      BY <1>2
    <3> HIDE DEF m
    <3> QED BY <2>5, <2>6, <3>1
  <2>8. Takeovers # {} /\ Min(Costs) = m
    <3>1. PICK w \in Takeovers : TakeoverCost(w) = m
      BY <2>4, PathsAreTakeovers
    <3>2. Costs \subseteq Int /\ m \in Costs
      BY <3>1, PathsAreTakeovers
    <3>3. ASSUME NEW x \in Costs PROVE m <= x
      <4>1. PICK u \in Takeovers : x = TakeoverCost(u)
        OBVIOUS
      <4>2. PICK b \in OpenPaths : PathCost(b) <= x
        BY <4>1, PathsAreTakeovers
      <4>3. m <= PathCost(b) /\ m \in Nat /\ PathCost(b) \in Nat /\ x \in Int
        BY <1>1, <2>4, <3>2
      <4> QED BY <4>2, <4>3
    <3> HIDE DEF Costs, m
    <3> QED BY <3>1, <3>2, <3>3, MinIs
  <2> QED BY <1>3, <2>7, <2>8 DEF PriceIsTheCheapest
<1> QED BY <1>4, <1>5

(* No takeover costs less than the floor. *)
LEMMA FloorIsBelow ==
  ASSUME PriceInv
  PROVE  CollusionFloor \in Nat /\ \A w \in Takeovers : CollusionFloor <= TakeoverCost(w)
<1> DEFINE ms == pool.minStake
           half == (pool.minVotes + 1) \div 2
           least == Max({1, half})
<1>1. ms \in Nat /\ pool.minVotes \in Nat /\ Cardinality(Voters) \in Nat
  BY VotersOfRows
<1>2. half \in Nat /\ half \in Int /\ 2 * half <= pool.minVotes + 1
  BY <1>1
<1>3. least \in {1, half}
  <2> HIDE DEF half
  <2>1. 1 \in Int
    OBVIOUS
  <2> QED BY <1>2, <2>1, MaxOfTwo, Zenon
<1>4. least \in Nat
  BY <1>2, <1>3
<1>5. CollusionFloor = least * ms
  BY DEF CollusionFloor
<1> HIDE DEF ms
<1>6. CollusionFloor \in Nat
  <2> HIDE DEF least
  <2> QED BY <1>1, <1>4, <1>5, MoreCostsMore
<1>7. PICK at : InOrder(at)
  BY StakesAreInOrder
<1>8. ASSUME NEW w \in Takeovers PROVE CollusionFloor <= TakeoverCost(w)
  <2> DEFINE b == Cardinality(w.bought)
             a == w.added
             bought == SumFunctionOnSet(StakeOf, w.bought)
  <2>1. /\ w.bought \in SUBSET Voters /\ a \in 0 .. FreeSlots
        /\ b + a >= 1 /\ 2 * (b + a) >= Cardinality(Voters) + a /\ Cardinality(Voters) + a >= pool.minVotes
    BY DEF Takeovers
  <2>2. b \in 0 .. Cardinality(Voters) /\ bought \in Nat /\ b * ms <= bought
    BY <1>7, <2>1, CheapestVoters DEF ms
  <2>3. a \in Nat
    BY <2>1, VotersOfRows
  <2>4. TakeoverCost(w) = bought + a * ms
    BY DEF TakeoverCost, ms
  <2> HIDE DEF a, b, bought
  <2>5. b \in Nat /\ b + a \in Nat /\ 2 * (b + a) >= pool.minVotes
    BY <1>1, <2>1, <2>2, <2>3
  <2>6. least <= b + a
    <3>1. half <= b + a
      BY <1>1, <1>2, <2>1, <2>5
    <3> HIDE DEF half, least
    <3> QED BY <1>3, <2>1, <3>1
  <2> HIDE DEF least
  <2>7. least * ms <= (b + a) * ms /\ (b + a) * ms = b * ms + a * ms
    BY <1>1, <1>4, <2>3, <2>5, <2>6, MoreCostsMore
  <2>8. least * ms \in Nat /\ b * ms \in Nat /\ a * ms \in Nat
    BY <1>1, <1>4, <2>3, <2>5, MoreCostsMore
  <2> QED BY <1>5, <2>2, <2>4, <2>7, <2>8
<1> QED BY <1>6, <1>8

LEMMA FloorSpeaks == ASSUME PriceInv PROVE FloorSpeaksForEveryCell
<1>1. CollusionFloor \in Nat /\ \A w \in Takeovers : CollusionFloor <= TakeoverCost(w) /\ TakeoverCost(w) \in Nat
  BY FloorIsBelow, PathsAreTakeovers
<1>2. CapitalExposureLimit \in Nat
  <2>1. pool.capital * pool.exposureBps \in Nat
    BY VotersOfRows, MoreCostsMore
  <2> QED BY <2>1 DEF CapitalExposureLimit, Bps
<1>3. CollusionHolds(CollusionFloor, CapitalExposureLimit) => RowHolds
  <2> SUFFICES ASSUME CollusionFloor >= 2 * CapitalExposureLimit, NEW p \in CollusionCost
               PROVE  p.cost >= 2 * CapitalExposureLimit
    BY DEF CollusionHolds, RowHolds
  <2>1. p.cost \in {TakeoverCost(w) : w \in Takeovers}
    <3>1. PICK b \in OpenPaths : p = PathOf(b)
      BY PricesArePaths
    <3>2. p.cost = PathCost(b)
      BY <3>1 DEF PathOf
    <3> QED BY <3>2, PathsAreTakeovers
  <2> QED BY <1>1, <1>2, <2>1
<1>4. ASSUME NEW w \in Takeovers PROVE CollusionHolds(TakeoverCost(w), PoolExposureLimit)
  <2> DEFINE share == CollusionFloor \div 2
  <2>1. share \in Nat /\ 2 * share <= CollusionFloor
    BY <1>1
  <2>2. PoolExposureLimit \in {CapitalExposureLimit, share} /\ PoolExposureLimit <= share
    <3>1. CollusionExposureLimit = share
      BY DEF CollusionExposureLimit
    <3>2. share \in Int /\ CapitalExposureLimit \in Int
      BY <1>2, <2>1
    <3>3. PoolExposureLimit = Min({CapitalExposureLimit, share})
      BY <3>1 DEF PoolExposureLimit
    <3>4. /\ Min({CapitalExposureLimit, share}) \in {CapitalExposureLimit, share}
          /\ Min({CapitalExposureLimit, share}) <= share
      <4> HIDE DEF share
      <4> QED BY <3>2, MaxOfTwo, Zenon
    <3> QED BY <3>3, <3>4
  <2> HIDE DEF share
  <2> QED BY <1>1, <1>2, <2>1, <2>2 DEF CollusionHolds
<1> QED BY <1>3, <1>4 DEF FloorSpeaksForEveryCell

-----------------------------------------------------------------------------
(***************************************************************************)
(* What less than half can do.                                             *)
(***************************************************************************)
(* The values of a sequence, each at its place; how many are not above v.  *)
Family(values) == {[at |-> i, value |-> values[i]] : i \in DOMAIN values}

IsFamily(x, n) == DOMAIN x = 1 .. n /\ \A i \in 1 .. n : x[i] \in Int

NotAbove(x, v) == {i \in DOMAIN x : x[i] <= v}

LEMMA FamilyCounts ==
  ASSUME NEW n \in Nat, NEW x, IsFamily(x, n)
  PROVE  /\ Valued(Family(x)) /\ Cardinality(Family(x)) = n
         /\ \A v \in Int : Cardinality(UpTo(Family(x), v)) = Cardinality(NotAbove(x, v))
<1> DEFINE g == [i \in 1 .. n |-> [at |-> i, value |-> x[i]]]
<1>1. IsFiniteSet(1 .. n) /\ Cardinality(1 .. n) = n
  BY FS_Interval
<1>2. \A i \in 1 .. n : g[i].value = x[i] /\ g[i].at = i
  OBVIOUS
<1>3. \A i, j \in 1 .. n : g[i] = g[j] => i = j
  <2> HIDE DEF g
  <2> QED BY <1>2
<1>4. Family(x) = {g[i] : i \in 1 .. n}
  BY DEF Family, IsFamily
<1>5. ASSUME NEW v \in Int PROVE UpTo(Family(x), v) = {g[i] : i \in NotAbove(x, v)}
  <2>1. NotAbove(x, v) = {i \in 1 .. n : x[i] <= v}
    BY DEF NotAbove, IsFamily
  <2> HIDE DEF g
  <2> QED BY <1>2, <1>4, <2>1 DEF UpTo
<1> HIDE DEF g
<1>6. IsFiniteSet(Family(x)) /\ Cardinality(Family(x)) = n
  BY <1>1, <1>3, <1>4, SizeOfImage
<1>7. Valued(Family(x))
  BY <1>2, <1>4, <1>6 DEF Valued, IsFamily
<1>8. ASSUME NEW v \in Int PROVE Cardinality(UpTo(Family(x), v)) = Cardinality(NotAbove(x, v))
  <2> DEFINE T == NotAbove(x, v)
  <2>1. T \subseteq 1 .. n
    BY DEF NotAbove, IsFamily
  <2>2. IsFiniteSet(T)
    BY <1>1, <2>1, FS_Subset
  <2>3. \A i, j \in T : g[i] = g[j] => i = j
    BY <1>3, <2>1
  <2>4. UpTo(Family(x), v) = {g[i] : i \in T}
    BY <1>5
  <2> HIDE DEF T
  <2>5. Cardinality({g[i] : i \in T}) = Cardinality(T)
    BY <2>2, <2>3, SizeOfImage
  <2> QED BY <2>4, <2>5 DEF T
<1> QED BY <1>6, <1>7, <1>8

(* Where no fewer are at most v, whatever v, no order statistic is higher. *)
LEMMA StatisticsGrow ==
  ASSUME NEW S, Valued(S), NEW T, Valued(T), NEW k \in Nat, k < Cardinality(S), k < Cardinality(T),
         \A v \in Int : Cardinality(UpTo(T, v)) <= Cardinality(UpTo(S, v))
  PROVE  /\ OrderStatistic(S, k) \in Int /\ OrderStatistic(T, k) \in Int
         /\ OrderStatistic(S, k) <= OrderStatistic(T, k)
<1> DEFINE s == OrderStatistic(S, k)
           t == OrderStatistic(T, k)
<1>1. /\ s \in {x.value : x \in S} /\ t \in {x.value : x \in T}
      /\ Cardinality(Below(S, s)) <= k /\ k < Cardinality(UpTo(T, t))
  BY OrderStatisticIs
<1>2. s \in Int /\ t \in Int
  BY <1>1 DEF Valued
<1> HIDE DEF s, t
<1>3. SUFFICES ASSUME t < s PROVE FALSE
  BY <1>2 DEF s, t
<1>4. UpTo(S, t) \subseteq Below(S, s)
  BY <1>2, <1>3 DEF UpTo, Below, Valued
<1>5. Cardinality(UpTo(S, t)) <= Cardinality(Below(S, s))
  BY <1>4, CountsOfValues, FS_Subset
<1>6. /\ Cardinality(UpTo(S, t)) \in Nat /\ Cardinality(Below(S, s)) \in Nat
      /\ Cardinality(UpTo(T, t)) \in Nat
  BY CountsOfValues
<1>7. Cardinality(UpTo(T, t)) <= Cardinality(UpTo(S, t))
  BY <1>2
<1> QED BY <1>1, <1>5, <1>6, <1>7

(* Nor the median. *)
LEMMA MedianGrows ==
  ASSUME NEW n \in Nat \ {0}, NEW x, IsFamily(x, n), NEW y, IsFamily(y, n),
         \A v \in Int : Cardinality(NotAbove(y, v)) <= Cardinality(NotAbove(x, v))
  PROVE  /\ MedianOf(x) \in Int /\ MedianOf(y) \in Int /\ MedianOf(x) <= MedianOf(y)
         /\ Median(Family(x)) = {MedianOf(x)}
<1> DEFINE S == Family(x)
           T == Family(y)
           k == n \div 2
<1>1. /\ Valued(S) /\ Cardinality(S) = n /\ Valued(T) /\ Cardinality(T) = n
      /\ \A v \in Int : Cardinality(UpTo(T, v)) <= Cardinality(UpTo(S, v))
  <2>1. /\ Valued(S) /\ Cardinality(S) = n
        /\ \A v \in Int : Cardinality(UpTo(S, v)) = Cardinality(NotAbove(x, v))
    BY FamilyCounts
  <2>2. /\ Valued(T) /\ Cardinality(T) = n
        /\ \A v \in Int : Cardinality(UpTo(T, v)) = Cardinality(NotAbove(y, v))
    BY FamilyCounts
  <2> HIDE DEF S, T
  <2> QED BY <2>1, <2>2
<1>2. MedianOf(x) = Some(Median(S)) /\ MedianOf(y) = Some(Median(T))
  BY DEF MedianOf, Family
<1>3. \A v : Some({v}) = v
  BY DEF Some
<1> HIDE DEF S, T
<1>4. CASE n % 2 = 1
  <2>1. Median(S) = {OrderStatistic(S, k)} /\ Median(T) = {OrderStatistic(T, k)}
    BY <1>1, <1>4 DEF Median
  <2>2. k \in Nat /\ k < n
    BY <1>4
  <2> HIDE DEF k
  <2>3. /\ OrderStatistic(S, k) \in Int /\ OrderStatistic(T, k) \in Int
        /\ OrderStatistic(S, k) <= OrderStatistic(T, k)
    BY <1>1, <2>2, StatisticsGrow
  <2> QED BY <1>2, <1>3, <2>1, <2>3 DEF S
<1>5. CASE n % 2 # 1
  <2> DEFINE j == k - 1
  <2>1. /\ Median(S) = {(OrderStatistic(S, j) + OrderStatistic(S, k)) \div 2}
        /\ Median(T) = {(OrderStatistic(T, j) + OrderStatistic(T, k)) \div 2}
    BY <1>1, <1>5 DEF Median
  <2>2. k \in Nat /\ k < n /\ j \in Nat /\ j < n
    BY <1>5
  <2> HIDE DEF k, j
  <2>3. /\ OrderStatistic(S, k) \in Int /\ OrderStatistic(T, k) \in Int
        /\ OrderStatistic(S, k) <= OrderStatistic(T, k)
    BY <1>1, <2>2, StatisticsGrow
  <2>4. /\ OrderStatistic(S, j) \in Int /\ OrderStatistic(T, j) \in Int
        /\ OrderStatistic(S, j) <= OrderStatistic(T, j)
    BY <1>1, <2>2, StatisticsGrow
  <2>5. \A a, b, c, d \in Int : a <= c /\ b <= d => /\ (a + b) \div 2 \in Int /\ (c + d) \div 2 \in Int
                                                    /\ (a + b) \div 2 <= (c + d) \div 2
    OBVIOUS
  <2>6. /\ MedianOf(x) = (OrderStatistic(S, j) + OrderStatistic(S, k)) \div 2
        /\ MedianOf(y) = (OrderStatistic(T, j) + OrderStatistic(T, k)) \div 2
    BY <1>2, <1>3, <2>1
  <2>7. MedianOf(x) \in Int /\ MedianOf(y) \in Int /\ MedianOf(x) <= MedianOf(y)
    BY <2>3, <2>4, <2>5, <2>6
  <2>8. Median(Family(x)) = {MedianOf(x)}
    BY <2>1, <2>6 DEF S
  <2> QED BY <2>7, <2>8
<1> QED BY <1>4, <1>5

(* A median that most agree about is in the range of what they say. *)
LEMMA MostBracket ==
  ASSUME NEW n \in Nat \ {0}, NEW x, IsFamily(x, n), NEW most \in SUBSET (1 .. n),
         2 * Cardinality((1 .. n) \ most) < n
  PROVE  (\E i \in most : x[i] <= MedianOf(x)) /\ (\E i \in most : MedianOf(x) <= x[i])
<1> DEFINE S == Family(x)
           O == {r \in S : r.at \in most}
           g == [i \in 1 .. n |-> [at |-> i, value |-> x[i]]]
           rest == (1 .. n) \ most
<1>1. Valued(S) /\ Cardinality(S) = n
  BY FamilyCounts
<1>2. Median(S) = {MedianOf(x)}
  <2>1. \A v \in Int : Cardinality(NotAbove(x, v)) <= Cardinality(NotAbove(x, v))
    <3> SUFFICES ASSUME NEW v \in Int PROVE Cardinality(NotAbove(x, v)) <= Cardinality(NotAbove(x, v))
      OBVIOUS
    <3>1. NotAbove(x, v) \subseteq 1 .. n
      BY DEF NotAbove, IsFamily
    <3>2. IsFiniteSet(NotAbove(x, v))
      <4> DEFINE all == 1 .. n
      <4>1. IsFiniteSet(all) /\ NotAbove(x, v) \subseteq all
        BY <3>1, FS_Interval
      <4> HIDE DEF all
      <4> QED BY <4>1, FS_Subset
    <3>3. Cardinality(NotAbove(x, v)) \in Nat
      BY <3>2, FS_CardinalityType
    <3> QED BY <3>3
  <2> QED BY <2>1, MedianGrows
<1>3. S = {g[i] : i \in 1 .. n} /\ \A i \in 1 .. n : g[i].at = i /\ g[i].value = x[i]
  BY DEF Family, IsFamily
<1> HIDE DEF g
<1>4. S \ O = {g[i] : i \in rest}
  BY <1>3
<1>5. Cardinality(S \ O) = Cardinality(rest)
  <2>1. IsFiniteSet(rest)
    <3> DEFINE all == 1 .. n
    <3>1. IsFiniteSet(all) /\ rest \subseteq all
      BY FS_Interval
    <3> HIDE DEF all, rest
    <3> QED BY <3>1, FS_Subset
  <2>2. \A i, j \in rest : g[i] = g[j] => i = j
    BY <1>3
  <2> HIDE DEF rest, S, O
  <2> QED BY <1>4, <2>1, <2>2, SizeOfImage
<1>6. O \in SUBSET S /\ 2 * Cardinality(S \ O) < Cardinality(S) /\ MedianOf(x) \in Median(S)
  BY <1>1, <1>2, <1>5
<1>7. (\E r \in O : r.value <= MedianOf(x)) /\ (\E r \in O : MedianOf(x) <= r.value)
  <2> HIDE DEF S, O
  <2> QED BY <1>1, <1>6, MajorityBrackets
<1>8. \A r \in O : r.at \in most /\ r.value = x[r.at]
  BY <1>3
<1> HIDE DEF O
<1> QED BY <1>7, <1>8

(* The honest votes. *)
SortedVotes(n) ==
  /\ votes \in Seq(VoteValues) /\ DOMAIN votes = 1 .. n /\ Len(votes) = n /\ VoteValues \subseteq Int
  /\ ColumnMin \in Int /\ ColumnMax \in Int
  /\ \A i \in 1 .. n : votes[i] \in VoteValues /\ votes[i] \in Int /\ ColumnMin <= votes[i] /\ votes[i] <= ColumnMax
  /\ \A i, j \in 1 .. n : i <= j => votes[i] <= votes[j]

LEMMA VotesAreSorted == ASSUME PriceInv, votes # <<>> PROVE \E n \in Nat \ {0} : SortedVotes(n)
<1>1. votes \in Seq(VoteValues) /\ \A i, j \in DOMAIN votes : i <= j => votes[i] <= votes[j]
  BY DEF PriceInv
<1>2. Len(votes) \in Nat \ {0} /\ DOMAIN votes = 1 .. Len(votes) /\ \A i \in 1 .. Len(votes) : votes[i] \in VoteValues
  BY <1>1
<1>3. /\ ColumnMin \in Int /\ ColumnMax \in Int /\ VoteValues \subseteq Int
      /\ \A v \in VoteValues : ColumnMin <= v /\ v <= ColumnMax
  BY CollusionAssumption
<1>4. SortedVotes(Len(votes))
  BY <1>1, <1>2, <1>3 DEF SortedVotes
<1> QED BY <1>2, <1>4

(* The votes with a group turned, and those of the published reach. *)
Lied(group, lies) == [i \in DOMAIN votes |-> IF i \in group THEN lies[i] ELSE votes[i]]

TurnedDown(n, k) == [i \in 1 .. n |-> IF i <= n - k THEN votes[i] ELSE ColumnMin]
TurnedUp(n, k)   == [i \in 1 .. n |-> IF i <= k THEN ColumnMax ELSE votes[i]]

LEMMA ReachIs ==
  ASSUME NEW n \in Nat \ {0}, SortedVotes(n), NEW k \in Nat, k <= n
  PROVE  /\ MinorityReach(k).honest = MedianOf(votes)
         /\ MinorityReach(k).down = MedianOf(TurnedDown(n, k))
         /\ MinorityReach(k).up = MedianOf(TurnedUp(n, k))
<1>1. votes \in Seq(Int) /\ Len(votes) = n /\ n - k \in Nat /\ k + 1 \in Nat
  BY DEF SortedVotes
<1>2. Turned(k, ColumnMin) \in Seq(Int) /\ Turned(k, ColumnMax) \in Seq(Int)
  BY DEF Turned, SortedVotes
<1>3. /\ Len(Turned(k, ColumnMin)) = k /\ Len(Turned(k, ColumnMax)) = k
      /\ \A i \in 1 .. k : Turned(k, ColumnMin)[i] = ColumnMin /\ Turned(k, ColumnMax)[i] = ColumnMax
  BY DEF Turned
<1> DEFINE kept == SubSeq(votes, 1, n - k)
           left == SubSeq(votes, k + 1, n)
<1>4. kept \in Seq(Int) /\ Len(kept) = n - k /\ \A i \in 1 .. n - k : kept[i] = votes[i]
  BY <1>1
<1>5. left \in Seq(Int) /\ Len(left) = n - k /\ \A i \in 1 .. n - k : left[i] = votes[k + i]
  BY <1>1
<1> HIDE DEF kept, left
<1> DEFINE low == Turned(k, ColumnMin)
           high == Turned(k, ColumnMax)
<1>a. \A s \in Seq(Int) : Len(s) = n => s = [i \in 1 .. n |-> s[i]]
  OBVIOUS
<1>c. \A a, b \in Seq(Int), i \in Int : Len(a) < i /\ i <= Len(a) + Len(b) => (a \o b)[i] = b[i - Len(a)]
  OBVIOUS
<1>b. low \in Seq(Int) /\ Len(low) = k /\ high \in Seq(Int) /\ Len(high) = k
  BY <1>2, <1>3
<1> HIDE DEF low, high
<1>6. kept \o low = TurnedDown(n, k)
  <2>1. kept \o low \in Seq(Int) /\ Len(kept \o low) = n
    BY <1>1, <1>2, <1>3, <1>4 DEF low
  <2>2. kept \o low = [i \in 1 .. n |-> (kept \o low)[i]]
    BY <1>a, <2>1
  <2>3. ASSUME NEW i \in 1 .. n PROVE (kept \o low)[i] = IF i <= n - k THEN votes[i] ELSE ColumnMin
    <3>1. CASE i <= n - k
      BY <1>1, <1>2, <1>3, <1>4, <3>1 DEF low
    <3>2. CASE ~(i <= n - k)
      <4>1. (kept \o low)[i] = low[i - (n - k)] /\ i - (n - k) \in 1 .. k
        BY <1>1, <1>2, <1>3, <1>4, <3>2 DEF low
      <4> QED BY <1>3, <3>2, <4>1 DEF low
    <3> QED BY <3>1, <3>2
  <2> QED BY <2>2, <2>3 DEF TurnedDown
<1>7. high \o left = TurnedUp(n, k)
  <2>1. high \o left \in Seq(Int) /\ Len(high \o left) = n
    BY <1>1, <1>2, <1>3, <1>5 DEF high
  <2>2. high \o left = [i \in 1 .. n |-> (high \o left)[i]]
    BY <1>a, <2>1
  <2>3. ASSUME NEW i \in 1 .. n PROVE (high \o left)[i] = IF i <= k THEN ColumnMax ELSE votes[i]
    <3>1. CASE i <= k
      <4>1. (high \o left)[i] = high[i] /\ i \in 1 .. k
        BY <1>1, <1>2, <1>3, <1>5, <3>1 DEF high
      <4> QED BY <1>3, <3>1, <4>1 DEF high
    <3>2. CASE ~(i <= k)
      <4>1. i - k \in 1 .. n - k /\ k + (i - k) = i /\ k < i /\ i <= k + (n - k)
        BY <3>2
      <4>2. (high \o left)[i] = left[i - k]
        BY <1>b, <1>c, <1>5, <4>1
      <4> QED BY <1>5, <3>2, <4>1, <4>2
    <3> QED BY <3>1, <3>2
  <2> QED BY <2>2, <2>3 DEF TurnedUp
<1>8. /\ MinorityReach(k).honest = MedianOf(votes)
      /\ MinorityReach(k).down = MedianOf(kept \o low)
      /\ MinorityReach(k).up = MedianOf(high \o left)
  BY <1>1 DEF MinorityReach, kept, left, low, high
<1> QED BY <1>6, <1>7, <1>8

(* The votes a group leaves, and how many of the others are at most v. *)
LEMMA WhoIsNotAbove ==
  ASSUME NEW n \in Nat \ {0}, SortedVotes(n), NEW k \in Nat, k <= n,
         NEW group \in SUBSET (1 .. n), Cardinality(group) = k,
         NEW lies, \A i \in group : lies[i] \in Int /\ ColumnMin <= lies[i] /\ lies[i] <= ColumnMax,
         NEW v \in Int
  PROVE  /\ Cardinality(NotAbove(Lied(group, lies), v)) <= Cardinality(NotAbove(TurnedDown(n, k), v))
         /\ Cardinality(NotAbove(TurnedUp(n, k), v)) <= Cardinality(NotAbove(Lied(group, lies), v))
<1> DEFINE all == 1 .. n
           x == Lied(group, lies)
           honest == {i \in all \ group : votes[i] <= v}
           low == {i \in all : votes[i] <= v}
<1>1. /\ DOMAIN votes = all /\ ColumnMin \in Int /\ ColumnMax \in Int
      /\ \A i \in all : votes[i] \in Int /\ ColumnMin <= votes[i] /\ votes[i] <= ColumnMax
      /\ \A i, j \in all : i <= j => votes[i] <= votes[j]
  BY DEF SortedVotes
<1>2. IsFiniteSet(all) /\ Cardinality(all) = n /\ \A T \in SUBSET all : IsFiniteSet(T) /\ Cardinality(T) \in Nat
  <2>1. IsFiniteSet(all) /\ Cardinality(all) = n
    BY FS_Interval
  <2> HIDE DEF all
  <2> QED BY <2>1, FS_Subset, FS_CardinalityType
<1>3. \A T, U \in SUBSET all : T \subseteq U => Cardinality(T) <= Cardinality(U)
  <2> HIDE DEF all
  <2> QED BY <1>2, FS_Subset
<1>4. \A T, U \in SUBSET all : T \cap U = {} => Cardinality(T \cup U) = Cardinality(T) + Cardinality(U)
  <2> SUFFICES ASSUME NEW T \in SUBSET all, NEW U \in SUBSET all, T \cap U = {}
               PROVE  Cardinality(T \cup U) = Cardinality(T) + Cardinality(U)
    OBVIOUS
  <2>1. Cardinality(T \cup U) = Cardinality(T) + Cardinality(U) - Cardinality(T \cap U)
    BY <1>2, FS_Union
  <2>2. Cardinality(T \cap U) = 0
    BY FS_EmptySet
  <2> QED BY <1>2, <2>1, <2>2
<1>5. NotAbove(x, v) = honest \cup {i \in group : lies[i] <= v} /\ honest \in SUBSET all /\ low \in SUBSET all
  BY <1>1 DEF NotAbove, Lied
<1> DEFINE down == NotAbove(TurnedDown(n, k), v)
           up == NotAbove(TurnedUp(n, k), v)
           first == {i \in 1 .. n - k : votes[i] <= v}
           last == {i \in k + 1 .. n : votes[i] <= v}
<1>6. down = first \cup {i \in n - k + 1 .. n : ColumnMin <= v}
  BY <1>1 DEF NotAbove, TurnedDown
<1>7. up = last \cup {i \in 1 .. k : ColumnMax <= v}
  BY <1>1 DEF NotAbove, TurnedUp
<1>8. first \in SUBSET all /\ last \in SUBSET all /\ group \in SUBSET all /\ NotAbove(x, v) \in SUBSET all
  <2>1. first \in SUBSET all /\ last \in SUBSET all
    OBVIOUS
  <2>2. group \in SUBSET all
    OBVIOUS
  <2> DEFINE liars == {i \in group : lies[i] <= v}
  <2>3. liars \subseteq group
    OBVIOUS
  <2> HIDE DEF liars, honest, all, x
  <2>4. NotAbove(x, v) = honest \cup liars
    BY <1>5 DEF liars
  <2> QED BY <1>5, <2>1, <2>2, <2>3, <2>4
<1>9. Cardinality(all \ group) = n - k
  <2>1. all = (all \ group) \cup group
    OBVIOUS
  <2>2. Cardinality(all) = Cardinality(all \ group) + Cardinality(group)
    <3> HIDE DEF all
    <3> QED BY <1>4, <1>8, <2>1
  <2> QED BY <1>2, <2>2
<1>10. Cardinality(NotAbove(x, v)) <= Cardinality(down)
  <2>1. CASE v < ColumnMin
    <3>1. \A i \in all : ~(votes[i] <= v)
      BY <1>1, <2>1
    <3>2. \A i \in group : ~(lies[i] <= v)
      BY <1>1, <2>1
    <3>3. NotAbove(x, v) = {}
      BY <1>5, <3>1, <3>2
    <3>4. down = {}
      BY <1>1, <1>6, <2>1, <3>1
    <3> QED BY <1>2, <3>3, <3>4
  <2>2. CASE ~(v < ColumnMin)
    <3> DEFINE tail == n - k + 1 .. n
    <3>1. down = first \cup tail /\ first \cap tail = {} /\ tail \in SUBSET all
      BY <1>1, <1>6, <2>2
    <3>2. Cardinality(tail) = k
      BY FS_Interval
    <3>3. Cardinality(down) = Cardinality(first) + k
      <4> HIDE DEF first, tail, down, all
      <4> QED BY <1>4, <1>8, <3>1, <3>2
    <3>4. Cardinality(honest) <= Cardinality(first)
      <4>1. CASE \A i \in 1 .. n - k : votes[i] <= v
        <5>1. first = 1 .. n - k /\ honest \subseteq all \ group
          BY <4>1
        <5>2. Cardinality(first) = n - k
          <6> DEFINE m == n - k
          <6>1. m \in Nat
            OBVIOUS
          <6> HIDE DEF m
          <6>2. Cardinality(1 .. m) = m
            BY <6>1, FS_Interval
          <6> QED BY <5>1, <6>2 DEF m
        <5>3. Cardinality(honest) <= Cardinality(all \ group)
          <6> HIDE DEF all, honest
          <6> QED BY <1>3, <1>5, <5>1
        <5> QED BY <1>9, <5>2, <5>3
      <4>2. CASE ~(\A i \in 1 .. n - k : votes[i] <= v)
        <5>1. PICK j \in 1 .. n - k : ~(votes[j] <= v)
          BY <4>2
        <5>2. ASSUME NEW i \in honest PROVE i \in first
          <6>1. ~(j <= i)
            BY <1>1, <5>1
          <6> QED BY <6>1
        <5>3. honest \subseteq first
          BY <5>2
        <5> HIDE DEF all, honest, first
        <5> QED BY <1>3, <1>5, <1>8, <5>3
      <4> QED BY <4>1, <4>2
    <3> DEFINE liars == {i \in group : lies[i] <= v}
    <3>5. /\ NotAbove(x, v) = honest \cup liars /\ honest \cap liars = {}
          /\ liars \in SUBSET all /\ liars \subseteq group
      BY <1>5
    <3>6. Cardinality(NotAbove(x, v)) = Cardinality(honest) + Cardinality(liars)
      <4> HIDE DEF all, honest, liars
      <4> QED BY <1>4, <1>5, <3>5
    <3>7. Cardinality(liars) <= k
      <4> HIDE DEF all, liars
      <4> QED BY <1>3, <1>8, <3>5
    <3>8. Cardinality(honest) \in Nat /\ Cardinality(liars) \in Nat /\ Cardinality(first) \in Nat
      <4> HIDE DEF all, honest, liars, first
      <4> QED BY <1>2, <1>5, <1>8, <3>5
    <3> HIDE DEF honest, liars, first, down, x
    <3> QED BY <3>3, <3>4, <3>6, <3>7, <3>8
  <2> QED BY <2>1, <2>2
<1>11. Cardinality(up) <= Cardinality(NotAbove(x, v))
  <2>1. CASE ColumnMax <= v
    <3>1. NotAbove(x, v) = all
      <4>1. \A i \in all : votes[i] <= v
        BY <1>1, <2>1
      <4>2. \A i \in group : lies[i] <= v
        BY <1>1, <2>1
      <4> QED BY <1>5, <4>1, <4>2
    <3>2. up \in SUBSET all
      BY <1>7
    <3> HIDE DEF all, up
    <3> QED BY <1>3, <3>1, <3>2
  <2>2. CASE ~(ColumnMax <= v)
    <3>1. up = last
      BY <1>7, <2>2
    <3>2. CASE last = {}
      <4>1. Cardinality(up) = 0
        BY <3>1, <3>2, FS_EmptySet
      <4>2. Cardinality(NotAbove(x, v)) \in Nat
        BY <1>2, <1>8
      <4> HIDE DEF up, x
      <4> QED BY <4>1, <4>2
    <3>3. CASE last # {}
      <4>1. PICK j \in last : TRUE
        BY <3>3
      <4> DEFINE head == 1 .. k
      <4>2. ASSUME NEW i \in head PROVE i \in low
        <5>1. i \in all /\ j \in all /\ i <= j
          OBVIOUS
        <5> QED BY <1>1, <4>1, <5>1
      <4>3. low = head \cup last /\ head \cap last = {} /\ head \in SUBSET all
        <5>1. head \subseteq low
          BY <4>2
        <5> QED BY <5>1
      <4>4. Cardinality(head) = k
        BY FS_Interval
      <4>5. Cardinality(low) = k + Cardinality(last)
        <5> HIDE DEF all, low, head, last
        <5> QED BY <1>4, <1>8, <4>3, <4>4
      <4> DEFINE turned == low \cap group
      <4>6. low = honest \cup turned /\ honest \cap turned = {} /\ turned \in SUBSET all /\ turned \subseteq group
        OBVIOUS
      <4>7. Cardinality(low) = Cardinality(honest) + Cardinality(turned) /\ Cardinality(turned) <= k
        <5> HIDE DEF all, low, honest, turned
        <5> QED BY <1>3, <1>4, <1>5, <1>8, <4>6
      <4>8. Cardinality(honest) <= Cardinality(NotAbove(x, v))
        <5>1. honest \subseteq NotAbove(x, v)
          BY <1>5
        <5> HIDE DEF all, honest, x
        <5> QED BY <1>3, <1>5, <1>8, <5>1
      <4>9. /\ Cardinality(honest) \in Nat /\ Cardinality(turned) \in Nat /\ Cardinality(last) \in Nat
            /\ Cardinality(NotAbove(x, v)) \in Nat
        <5> HIDE DEF all, honest, turned, last, x
        <5> QED BY <1>2, <1>5, <1>8, <4>6
      <4> HIDE DEF honest, turned, last, up, x, low
      <4> QED BY <3>1, <4>5, <4>7, <4>8, <4>9
    <3> QED BY <3>2, <3>3
  <2> QED BY <2>1, <2>2
<1> QED BY <1>10, <1>11

(* The votes a group leaves have a median in the reach of its size.        *)
LEMMA GroupsStayInReach ==
  ASSUME NEW n \in Nat \ {0}, SortedVotes(n), NEW k \in Nat, k <= n,
         NEW group \in SUBSET (1 .. n), Cardinality(group) = k,
         NEW lies, \A i \in group : lies[i] \in Int /\ ColumnMin <= lies[i] /\ lies[i] <= ColumnMax
  PROVE  /\ MinorityReach(k).down <= MedianOf(Lied(group, lies))
         /\ MedianOf(Lied(group, lies)) <= MinorityReach(k).up
         /\ MinorityReach(k).down \in Int /\ MinorityReach(k).up \in Int
         /\ MedianOf(Lied(group, lies)) \in Int
<1> DEFINE x == Lied(group, lies)
           low == TurnedDown(n, k)
           high == TurnedUp(n, k)
<1>1. IsFamily(x, n)
  BY DEF IsFamily, Lied, SortedVotes
<1>2. IsFamily(low, n) /\ IsFamily(high, n)
  BY DEF IsFamily, TurnedDown, TurnedUp, SortedVotes
<1>3. \A v \in Int : /\ Cardinality(NotAbove(x, v)) <= Cardinality(NotAbove(low, v))
                     /\ Cardinality(NotAbove(high, v)) <= Cardinality(NotAbove(x, v))
  BY WhoIsNotAbove
<1>4. MinorityReach(k).down = MedianOf(low) /\ MinorityReach(k).up = MedianOf(high)
  BY ReachIs
<1> HIDE DEF x, low, high
<1>5. MedianOf(low) \in Int /\ MedianOf(x) \in Int /\ MedianOf(low) <= MedianOf(x)
  BY <1>1, <1>2, <1>3, MedianGrows
<1>6. MedianOf(high) \in Int /\ MedianOf(x) <= MedianOf(high)
  BY <1>1, <1>2, <1>3, MedianGrows
<1> QED BY <1>4, <1>5, <1>6 DEF x

(* The reach is about the honest votes, and inside of them.                 *)
LEMMA ReachIsHonest ==
  ASSUME NEW n \in Nat \ {0}, SortedVotes(n), NEW k \in Nat, 2 * k < n
  PROVE  LET reach == MinorityReach(k) IN
         /\ votes[1] <= reach.down /\ reach.down <= reach.honest
         /\ reach.honest <= reach.up /\ reach.up <= votes[n]
         /\ reach.honest \in Int
<1> DEFINE low == TurnedDown(n, k)
           high == TurnedUp(n, k)
           head == 1 .. k
           first == 1 .. n - k
           last == k + 1 .. n
<1>1. k <= n /\ k + 1 \in 1 .. n /\ n - k \in 1 .. n
  OBVIOUS
<1>2. /\ MinorityReach(k).honest = MedianOf(votes)
      /\ MinorityReach(k).down = MedianOf(low) /\ MinorityReach(k).up = MedianOf(high)
  BY <1>1, ReachIs
<1>3. head \in SUBSET (1 .. n) /\ Cardinality(head) = k
  BY <1>1, FS_Interval
<1>4. votes = Lied(head, votes)
  BY DEF Lied, SortedVotes
<1>5. \A i \in head : votes[i] \in Int /\ ColumnMin <= votes[i] /\ votes[i] <= ColumnMax
  BY <1>1 DEF SortedVotes
<1>6. /\ MedianOf(low) <= MedianOf(votes) /\ MedianOf(votes) <= MedianOf(high)
      /\ MedianOf(low) \in Int /\ MedianOf(votes) \in Int /\ MedianOf(high) \in Int
  <2> HIDE DEF head
  <2> QED BY <1>1, <1>2, <1>3, <1>4, <1>5, GroupsStayInReach
<1>7. IsFamily(low, n) /\ IsFamily(high, n)
  BY DEF IsFamily, TurnedDown, TurnedUp, SortedVotes
<1>8. first \in SUBSET (1 .. n) /\ Cardinality((1 .. n) \ first) = k
  <2>1. (1 .. n) \ first = n - k + 1 .. n
    OBVIOUS
  <2> DEFINE m == n - k + 1
  <2>2. (m <= n /\ n - m + 1 = k) \/ (m > n /\ k = 0)
    OBVIOUS
  <2>3. first \in SUBSET (1 .. n)
    OBVIOUS
  <2>4. Cardinality(m .. n) = k
    <3>1. m \in Int
      OBVIOUS
    <3>2. \A a, b \in Int : Cardinality(a .. b) = IF a > b THEN 0 ELSE b - a + 1
      BY FS_Interval
    <3>3. Cardinality(m .. n) = IF m > n THEN 0 ELSE n - m + 1
      <4> HIDE DEF m
      <4> QED BY <3>1, <3>2
    <3> QED BY <2>2, <3>1, <3>3
  <2> HIDE DEF first
  <2> QED BY <2>1, <2>3, <2>4
<1>9. last \in SUBSET (1 .. n) /\ Cardinality((1 .. n) \ last) = k
  <2>1. (1 .. n) \ last = head
    OBVIOUS
  <2>2. last \in SUBSET (1 .. n)
    OBVIOUS
  <2> QED BY <1>3, <2>1, <2>2
<1>10. votes[1] <= MedianOf(low)
  <2>1. \E i \in first : low[i] <= MedianOf(low)
    <3> HIDE DEF first, low
    <3> QED BY <1>7, <1>8, MostBracket
  <2>2. PICK i \in first : low[i] <= MedianOf(low)
    BY <2>1
  <2>3. low[i] = votes[i]
    BY DEF TurnedDown
  <2>4. votes[1] <= votes[i] /\ votes[1] \in Int /\ votes[i] \in Int
    BY DEF SortedVotes
  <2> HIDE DEF low
  <2> QED BY <1>6, <2>2, <2>3, <2>4
<1>11. MedianOf(high) <= votes[n]
  <2>1. \E i \in last : MedianOf(high) <= high[i]
    <3> HIDE DEF last, high
    <3> QED BY <1>7, <1>9, MostBracket
  <2>2. PICK i \in last : MedianOf(high) <= high[i]
    BY <2>1
  <2>3. high[i] = votes[i]
    BY DEF TurnedUp
  <2>4. votes[i] <= votes[n] /\ votes[i] \in Int /\ votes[n] \in Int
    BY DEF SortedVotes
  <2> HIDE DEF high
  <2> QED BY <1>6, <2>2, <2>3, <2>4
<1> HIDE DEF low, high
<1> QED BY <1>2, <1>6, <1>10, <1>11

LEMMA MinoritiesStay == ASSUME PriceInv PROVE MinoritiesStayInReach
<1> SUFFICES ASSUME votes # <<>> PROVE MinoritiesStayInReach
  BY DEF MinoritiesStayInReach
<1>1. PICK n \in Nat \ {0} : SortedVotes(n)
  BY VotesAreSorted
<1>2. votes \in Seq(VoteValues) /\ Len(votes) = n /\ DOMAIN votes = 1 .. n
  BY <1>1 DEF SortedVotes
<1>3. Last(votes) = votes[n]
  BY <1>2 DEF Last
<1>4. ASSUME NEW k \in 0 .. LargestMinority(Len(votes)) PROVE k \in Nat /\ 2 * k < n /\ k <= n
  <2>1. LargestMinority(Len(votes)) = (n + 1) \div 2 - 1
    BY <1>2 DEF LargestMinority
  <2> QED BY <2>1
<1>5. ASSUME NEW k \in 0 .. LargestMinority(Len(votes)), NEW group \in kSubset(k, DOMAIN votes),
             NEW lies \in [group -> VoteValues \cup {ColumnMin, ColumnMax}]
      PROVE  LET reach == MinorityReach(k)
                 m == MedianOf(Lied(group, lies)) IN
             /\ reach.down <= m /\ m <= reach.up
             /\ ~MinorityFlipsDay(reach) => DryValue(m) = DryValue(reach.honest)
  <2> DEFINE reach == MinorityReach(k)
             m == MedianOf(Lied(group, lies))
  <2>1. group \in SUBSET (1 .. n) /\ Cardinality(group) = k
    BY <1>2 DEF kSubset
  <2>2. \A v \in VoteValues \cup {ColumnMin, ColumnMax} : v \in Int /\ ColumnMin <= v /\ v <= ColumnMax
    <3>1. 1 \in 1 .. n
      OBVIOUS
    <3>2. /\ ColumnMin \in Int /\ ColumnMax \in Int /\ VoteValues \subseteq Int
          /\ votes[1] \in Int /\ ColumnMin <= votes[1] /\ votes[1] <= ColumnMax
      BY <1>1, <3>1 DEF SortedVotes
    <3>3. \A v \in VoteValues : ColumnMin <= v /\ v <= ColumnMax
      BY <3>2, CollusionAssumption
    <3> QED BY <3>2, <3>3
  <2>3. \A i \in group : lies[i] \in Int /\ ColumnMin <= lies[i] /\ lies[i] <= ColumnMax
    BY <2>2
  <2>4. reach.down <= m /\ m <= reach.up /\ reach.down \in Int /\ reach.up \in Int /\ m \in Int
    BY <1>1, <1>4, <2>1, <2>3, GroupsStayInReach
  <2> HIDE DEF reach, m
  <2>5. DryThreshold \in Int
    BY AggregateAssumption
  <2>6. ~MinorityFlipsDay(reach) => DryValue(m) = DryValue(reach.honest)
    BY <2>4, <2>5 DEF MinorityFlipsDay, DryValue
  <2> QED BY <2>4, <2>6 DEF reach, m
<1>6. ASSUME NEW k \in 0 .. LargestMinority(Len(votes))
      PROVE  LET reach == MinorityReach(k) IN
             /\ votes[1] <= reach.down /\ reach.down <= reach.honest
             /\ reach.honest <= reach.up /\ reach.up <= votes[n]
  BY <1>1, <1>4, ReachIsHonest
<1> QED BY <1>3, <1>5, <1>6 DEF MinoritiesStayInReach, Lied

(* What the methodology page says of a lie: the price it publishes for a   *)
(* cell is the least that any choice of operators bought and sensors added *)
(* takes, the floor it publishes speaks for every cell, and no minority of *)
(* the votes moves the median out of the reach published for its size.     *)
(* For cells of any size, stakes, votes and parameters of the pool.        *)
THEOREM PricesAreRight == CollusionSpec => []PriceOfALieIsRight
<1>1. CollusionInit => PriceInv
  BY DEF CollusionInit, PriceInv
<1>2. PriceInv /\ [CollusionNext]_priceVars => PriceInv'
  BY PriceStep
<1>3. PriceInv => PriceOfALieIsRight
  BY PriceIsTheLeast, FloorSpeaks, MinoritiesStay DEF PriceOfALieIsRight
<1> QED BY <1>1, <1>2, <1>3, PTL DEF CollusionSpec
=============================================================================
