-------------------------------- MODULE Sums --------------------------------
(***************************************************************************)
(* What the sums of the books obey: SumFunction and SumFunctionOnSet of    *)
(* the Functions module, over finite sets and natural amounts.  The code   *)
(* keeps its totals by adding and subtracting as it goes; these lemmas are *)
(* what relates such a running total to the sum it stands for.  With them  *)
(* is what other folds and sorted sets rest on.                            *)
(*                                                                         *)
(* A sum is a recursive function.  To reason about it, an amount is read   *)
(* as so many units and a sum as the number of units: Cardinality solves   *)
(* the recursion, and its facts (FiniteSetTheorems) are those of a sum.    *)
(* Induction over a finite set is its well-founded form: if some subset is *)
(* bad, a least one is.                                                    *)
(***************************************************************************)
EXTENDS Integers, Functions, FiniteSetTheorems, TLAPS

(* Among the subsets of a finite set that are in T, one contains no other: *)
(* what every induction below rests on.                                    *)
LEMMA LeastSubset ==
  ASSUME NEW S, IsFiniteSet(S), NEW T \in SUBSET (SUBSET S), T # {}
  PROVE  \E x \in T : \A y \in T : ~(y \subseteq x /\ y # x)
<1>1. IsWellFoundedOn(StrictSubsetOrdering(S), SUBSET S)
  BY FS_StrictSubsetOrderingWellFounded, FS_FiniteSubsetsOfFinite
<1>2. PICK x \in T : \A y \in T : ~ (<<y, x>> \in StrictSubsetOrdering(S))
  BY <1>1, WFMin
<1> QED BY <1>2 DEF StrictSubsetOrdering

(* A property that a set has when it is empty, or when it holds without    *)
(* one of its elements, is had by every finite set; the property is the    *)
(* set Good of the subsets that have it.                                   *)
LEMMA SubsetInduction ==
  ASSUME NEW S, IsFiniteSet(S), NEW Good,
         {} \in Good,
         \A s \in SUBSET S : \A x \in S \ s : s \in Good => s \cup {x} \in Good
  PROVE  \A s \in SUBSET S : s \in Good
<1> DEFINE Bad == (SUBSET S) \ Good
<1>1. SUFFICES ASSUME Bad # {} PROVE FALSE
  OBVIOUS
<1>2. PICK s \in Bad : \A y \in Bad : ~(y \subseteq s /\ y # s)
  <2>1. Bad \in SUBSET (SUBSET S)
    OBVIOUS
  <2> HIDE DEF Bad
  <2> QED BY <1>1, <2>1, LeastSubset
<1>3. PICK x \in s : TRUE
  BY <1>2
<1>4. s \ {x} \in Good /\ s = (s \ {x}) \cup {x}
  BY <1>2, <1>3
<1> QED BY <1>2, <1>3, <1>4

(* What holds at 0 and is handed on from each number to the next holds up  *)
(* to n.                                                                   *)
LEMMA StepByStep ==
  ASSUME NEW n \in Nat, NEW Good, 0 \in Good, \A k \in 1 .. n : k - 1 \in Good => k \in Good
  PROVE  \A k \in 0 .. n : k \in Good
<1>1. IsFiniteSet(1 .. n) /\ Cardinality(1 .. n) = n
  BY FS_Interval
<1> DEFINE Reached == {s \in SUBSET (1 .. n) : Cardinality(s) \in Good}
<1>2. {} \in Reached
  BY FS_EmptySet
<1>3. ASSUME NEW s \in SUBSET (1 .. n), NEW x \in (1 .. n) \ s, s \in Reached
      PROVE  s \cup {x} \in Reached
  <2>1. IsFiniteSet(s) /\ IsFiniteSet(s \cup {x}) /\ Cardinality(s \cup {x}) = Cardinality(s) + 1
    <3>1. IsFiniteSet(s)
      BY <1>1, FS_Subset
    <3> QED BY <3>1, FS_AddElement
  <2>2. Cardinality(s) \in Nat /\ Cardinality(s \cup {x}) \in Nat
    BY <2>1, FS_CardinalityType
  <2>3. Cardinality(s \cup {x}) <= n
    <3>1. s \cup {x} \subseteq 1 .. n
      OBVIOUS
    <3> QED BY <1>1, <3>1, FS_Subset
  <2>4. Cardinality(s) + 1 \in 1 .. n /\ (Cardinality(s) + 1) - 1 = Cardinality(s)
    BY <2>1, <2>2, <2>3
  <2>5. Cardinality(s) + 1 \in Good
    BY <1>3, <2>4
  <2> QED BY <2>1, <2>5
<1>4. \A s \in SUBSET (1 .. n) : s \in Reached
  <2> HIDE DEF Reached
  <2> QED BY <1>1, <1>2, <1>3, SubsetInduction
<1>5. ASSUME NEW k \in 0 .. n PROVE k \in Good
  <2>1. Cardinality(1 .. k) = k
    BY FS_Interval
  <2>2. 1 .. k \in SUBSET (1 .. n)
    OBVIOUS
  <2> QED BY <1>4, <2>1, <2>2
<1> QED BY <1>5

(* A fold: a function on the subsets of a finite set that takes one        *)
(* element off at a time, in whatever order, and applies a step of its own *)
(* to what the rest comes to.                                              *)
FoldIs(iter, S, pick, base, step) ==
  \A s \in SUBSET S : iter[s] = IF s = {} THEN base ELSE step[<<pick[s], iter[s \ {pick[s]}]>>]

(* A fold has a value, whatever the order and the step.                    *)
LEMMA FoldIsSolved ==
  ASSUME NEW S, IsFiniteSet(S), NEW pick, \A s \in (SUBSET S) \ {{}} : pick[s] \in s,
         NEW R, NEW base \in R, NEW step \in [S \X R -> R]
  PROVE  \E iter \in [SUBSET S -> R] : FoldIs(iter, S, pick, base, step)
<1> DEFINE Solves(iter, s) ==
             iter[s] = IF s = {} THEN base ELSE step[<<pick[s], iter[s \ {pick[s]}]>>]
           Good == {t \in SUBSET S : \E iter \in [SUBSET S -> R] :
                      \A s \in SUBSET S : Cardinality(s) <= Cardinality(t) => Solves(iter, s)}
<1>0. \A s \in SUBSET S : IsFiniteSet(s) /\ Cardinality(s) \in Nat
  BY FS_Subset, FS_CardinalityType
<1>1. {} \in Good
  <2> DEFINE iter == [s \in SUBSET S |-> base]
  <2>1. ASSUME NEW s \in SUBSET S, Cardinality(s) <= Cardinality({}) PROVE s = {}
    <3>1. Cardinality(s) = 0
      BY <1>0, <2>1, FS_EmptySet
    <3> QED BY <1>0, <3>1, FS_EmptySet
  <2>2. iter \in [SUBSET S -> R] /\ iter[{}] = base
    OBVIOUS
  <2> HIDE DEF iter
  <2> QED BY <2>1, <2>2
<1>2. ASSUME NEW t \in SUBSET S, NEW x \in S \ t, t \in Good
      PROVE  t \cup {x} \in Good
  <2>1. PICK old \in [SUBSET S -> R] :
          \A s \in SUBSET S : Cardinality(s) <= Cardinality(t) => Solves(old, s)
    BY <1>2
  <2> DEFINE iter == [s \in SUBSET S |-> IF s = {} THEN base ELSE step[<<pick[s], old[s \ {pick[s]}]>>]]
  <2>2. iter \in [SUBSET S -> R]
    <3>1. ASSUME NEW s \in SUBSET S, s # {} PROVE step[<<pick[s], old[s \ {pick[s]}]>>] \in R
      <4>1. pick[s] \in S /\ s \ {pick[s]} \in SUBSET S
        BY <3>1
      <4> QED BY <4>1
    <3> QED BY <3>1
  <2>3. Cardinality(t \cup {x}) = Cardinality(t) + 1
    BY <1>0, FS_AddElement
  <2>4. ASSUME NEW s \in SUBSET S, Cardinality(s) <= Cardinality(t \cup {x}) PROVE Solves(iter, s)
    <3>1. CASE s = {}
      BY <3>1
    <3>2. CASE s # {}
      <4>1. pick[s] \in s /\ s \ {pick[s]} \in SUBSET S
        BY <3>2
      <4>2. Cardinality(s \ {pick[s]}) = Cardinality(s) - 1
        BY <1>0, <4>1, FS_RemoveElement
      <4>3. Cardinality(s \ {pick[s]}) <= Cardinality(t)
        BY <1>0, <2>3, <2>4, <4>1, <4>2
      <4>4. Solves(old, s \ {pick[s]})
        BY <2>1, <4>1, <4>3
      <4>5. iter[s \ {pick[s]}] = old[s \ {pick[s]}]
        BY <4>1, <4>4
      <4>6. iter[s] = step[<<pick[s], old[s \ {pick[s]}]>>]
        BY <3>2
      <4> HIDE DEF iter
      <4> QED BY <3>2, <4>5, <4>6
    <3> QED BY <3>1, <3>2
  <2> HIDE DEF iter
  <2>5. t \cup {x} \in SUBSET S
    OBVIOUS
  <2> QED BY <2>2, <2>4, <2>5
<1>3. \A t \in SUBSET S : t \in Good
  <2> HIDE DEF Good
  <2> QED BY <1>1, <1>2, SubsetInduction
<1>4. PICK iter \in [SUBSET S -> R] :
        \A s \in SUBSET S : Cardinality(s) <= Cardinality(S) => Solves(iter, s)
  <2>1. S \in Good
    <3> HIDE DEF Good
    <3> QED BY <1>3
  <2> QED BY <2>1
<1>5. \A s \in SUBSET S : Cardinality(s) <= Cardinality(S)
  BY FS_Subset
<1> QED BY <1>4, <1>5 DEF FoldIs

(* The last of a set of places. *)
LastOf(s) == CHOOSE x \in s : \A y \in s : x >= y

(* The last of the first k places is k, and without it k - 1 are left.     *)
LEMMA LastOfThese == ASSUME NEW k \in Nat, k # 0 PROVE LastOf(1 .. k) = k /\ (1 .. k) \ {k} = 1 .. k - 1
<1>1. k \in 1 .. k /\ \A y \in 1 .. k : k >= y
  OBVIOUS
<1>2. \A x \in 1 .. k : (\A y \in 1 .. k : x >= y) => x = k
  OBVIOUS
<1>3. LastOf(1 .. k) = k
  BY <1>1, <1>2 DEF LastOf
<1> QED BY <1>3

(* Some place of a sequence is the last of those given.                    *)
LEMMA LastIsOne == ASSUME NEW n \in Nat, NEW s \in SUBSET (1 .. n), s # {} PROVE LastOf(s) \in s
<1> DEFINE Good == {k \in 0 .. n : \A t \in SUBSET (1 .. k) : t # {} => \E x \in t : \A y \in t : x >= y}
<1>1. 0 \in Good
  <2>1. (\A t \in SUBSET (1 .. 0) : t = {}) /\ 0 \in 0 .. n
    OBVIOUS
  <2> QED BY <2>1, Zenon
<1>2. ASSUME NEW k \in 1 .. n, k - 1 \in Good PROVE k \in Good
  <2>1. ASSUME NEW t \in SUBSET (1 .. k), t # {} PROVE \E x \in t : \A y \in t : x >= y
    <3>1. CASE k \in t
      BY <3>1
    <3>2. CASE k \notin t
      <4>1. t \in SUBSET (1 .. k - 1)
        BY <3>2
      <4> QED BY <1>2, <2>1, <4>1
    <3> QED BY <3>1, <3>2
  <2> QED BY <2>1
<1>3. n \in Good
  <2> HIDE DEF Good
  <2> QED BY <1>1, <1>2, StepByStep
<1> QED BY <1>3 DEF LastOf

(* Of a sequence, from left to right: FoldLeft takes the last element off. *)
SequenceFoldIs(iter, n, base, step) ==
  \A s \in SUBSET (1 .. n) :
    iter[s] = IF s = {} THEN base ELSE step[<<LastOf(s), iter[s \ {LastOf(s)}]>>]

(* A fold of a sequence has a value.                                       *)
LEMMA SequenceFoldIsSolved ==
  ASSUME NEW n \in Nat, NEW R, NEW base \in R, NEW step \in [(1 .. n) \X R -> R]
  PROVE  \E iter \in [SUBSET (1 .. n) -> R] : SequenceFoldIs(iter, n, base, step)
<1> DEFINE pick == [s \in SUBSET (1 .. n) |-> LastOf(s)]
           S == 1 .. n
<1>1. IsFiniteSet(S)
  BY FS_Interval
<1>2. \A s \in (SUBSET S) \ {{}} : pick[s] \in s
  BY LastIsOne
<1>3. step \in [S \X R -> R]
  OBVIOUS
<1>4. \E iter \in [SUBSET S -> R] : FoldIs(iter, S, pick, base, step)
  <2> HIDE DEF pick, S
  <2> QED BY <1>1, <1>2, <1>3, FoldIsSolved
<1> QED BY <1>4 DEF FoldIs, SequenceFoldIs

(* A strict order that compares any two elements: what comes before each.  *)
ComparesAny(below, S) ==
  /\ below \in [S -> SUBSET S]
  /\ \A x \in S : x \notin below[x]
  /\ \A x, y \in S : x = y \/ x \in below[y] \/ y \in below[x]
  /\ \A x, y \in S : x \in below[y] => below[x] \subseteq below[y]

(* The elements, each in the place that as many come before it.            *)
Enumerates(at, below, S) ==
  /\ at \in [1 .. Cardinality(S) -> S]
  /\ \A k \in 1 .. Cardinality(S), x \in S : Cardinality(below[x]) = k - 1 <=> x = at[k]
  /\ \A x \in S : \E k \in 1 .. Cardinality(S) : at[k] = x
  /\ \A i, j \in 1 .. Cardinality(S) : i < j <=> at[i] \in below[at[j]]

(* The elements of a finite set, in a strict order that compares any two,  *)
(* are told apart by how many come before them; and some element has each  *)
(* number from none on.                                                    *)
LEMMA RanksOfAnOrder ==
  ASSUME NEW S, IsFiniteSet(S), NEW below, ComparesAny(below, S)
  PROVE  \E at : Enumerates(at, below, S)
<1> USE DEF ComparesAny
<1> DEFINE n == Cardinality(S)
           rank == [x \in S |-> Cardinality(below[x]) + 1]
<1>1. n \in Nat /\ IsFiniteSet(1 .. n) /\ Cardinality(1 .. n) = n
  <2>1. n \in Nat
    BY FS_CardinalityType
  <2> QED BY <2>1, FS_Interval
<1>2. ASSUME NEW x \in S PROVE rank[x] \in 1 .. n
  <2>1. below[x] \subseteq S /\ below[x] # S
    OBVIOUS
  <2>2. IsFiniteSet(below[x]) /\ Cardinality(below[x]) <= n /\ Cardinality(below[x]) # n
    BY <2>1, FS_Subset
  <2>3. Cardinality(below[x]) \in Nat
    BY <2>2, FS_CardinalityType
  <2>4. Cardinality(below[x]) + 1 \in 1 .. n
    <3> HIDE DEF n
    <3> QED BY <1>1, <2>2, <2>3
  <2> QED BY <2>4
<1>3. ASSUME NEW x \in S, NEW y \in S, x \in below[y] PROVE rank[x] < rank[y]
  <2>1. below[x] \subseteq below[y] /\ below[x] # below[y] /\ below[x] \subseteq S /\ below[y] \subseteq S
    BY <1>3
  <2>2. IsFiniteSet(below[y])
    BY <2>1, FS_Subset
  <2>3. IsFiniteSet(below[x]) /\ Cardinality(below[x]) <= Cardinality(below[y]) /\ Cardinality(below[x]) # Cardinality(below[y])
    BY <2>1, <2>2, FS_Subset
  <2>4. Cardinality(below[x]) \in Nat /\ Cardinality(below[y]) \in Nat
    BY <2>2, <2>3, FS_CardinalityType
  <2> QED BY <2>3, <2>4
<1>4. rank \in [S -> 1 .. n]
  BY <1>2
<1>5. \A x, y \in S : rank[x] = rank[y] => x = y
  <2> SUFFICES ASSUME NEW x \in S, NEW y \in S, rank[x] = rank[y], x # y PROVE FALSE
    OBVIOUS
  <2> HIDE DEF rank, n
  <2>1. rank[x] \in 1 .. n /\ rank[y] \in 1 .. n
    BY <1>4
  <2> QED BY <1>1, <1>3, <2>1
<1>6. rank \in Surjection(S, 1 .. n)
  <2> HIDE DEF rank, n
  <2>1. rank \in Injection(S, 1 .. n)
    BY <1>4, <1>5 DEF Injection, IsInjective
  <2> QED BY <1>1, <2>1, FS_Injection DEF n
<1> DEFINE at == [k \in 1 .. n |-> CHOOSE x \in S : rank[x] = k]
<1>7. ASSUME NEW k \in 1 .. n PROVE at[k] \in S /\ rank[at[k]] = k
  <2> HIDE DEF rank
  <2> QED BY <1>6 DEF Surjection
<1>8. at \in [1 .. n -> S]
  <2> HIDE DEF rank
  <2> QED BY <1>7
<1>9. ASSUME NEW k \in 1 .. n, NEW x \in S PROVE rank[x] = k <=> x = at[k]
  <2> HIDE DEF rank, at
  <2> QED BY <1>5, <1>7
<1>10. ASSUME NEW k \in 1 .. n, NEW x \in S PROVE Cardinality(below[x]) = k - 1 <=> rank[x] = k
  <2>1. below[x] \subseteq S
    OBVIOUS
  <2>2. Cardinality(below[x]) \in Nat
    BY <2>1, FS_Subset, FS_CardinalityType
  <2>3. k \in Int
    BY <1>1
  <2> QED BY <2>2, <2>3
<1>11. ASSUME NEW x \in S PROVE \E k \in 1 .. n : at[k] = x
  <2> HIDE DEF rank, at, n
  <2> QED BY <1>4, <1>9
<1>12. ASSUME NEW i \in 1 .. n, NEW j \in 1 .. n PROVE i < j <=> at[i] \in below[at[j]]
  <2> HIDE DEF rank, at
  <2>1. /\ at[i] \in S /\ rank[at[i]] = i
        /\ at[j] \in S /\ rank[at[j]] = j
    BY <1>7
  <2>2. i \in Int /\ j \in Int
    BY <1>1
  <2> QED BY <1>3, <2>1, <2>2
<1>13. /\ \A k \in 1 .. n, x \in S : Cardinality(below[x]) = k - 1 <=> x = at[k]
       /\ \A x \in S : \E k \in 1 .. n : at[k] = x
       /\ \A i, j \in 1 .. n : i < j <=> at[i] \in below[at[j]]
  <2> HIDE DEF rank, at, n
  <2> QED BY <1>9, <1>10, <1>11, <1>12
<1> HIDE DEF rank, at
<1> QED BY <1>8, <1>13 DEF Enumerates

-----------------------------------------------------------------------------
(* The units of the amounts f[x], each its own element. *)
Units(f, S) == UNION {{x} \X (1 .. f[x]) : x \in S}

(* The units of one more amount are that many more units.                  *)
LEMMA UnitsOfOneMore ==
  ASSUME NEW f, NEW S, NEW x, x \notin S, f[x] \in Nat, IsFiniteSet(Units(f, S))
  PROVE  /\ IsFiniteSet(Units(f, S \cup {x}))
         /\ Cardinality(Units(f, S \cup {x})) = f[x] + Cardinality(Units(f, S))
<1> DEFINE new == {x} \X (1 .. f[x])
           old == Units(f, S)
<1>1. IsFiniteSet(new) /\ Cardinality(new) = f[x]
  <2>1. IsFiniteSet({x}) /\ Cardinality({x}) = 1
    BY FS_Singleton
  <2>2. IsFiniteSet(1 .. f[x]) /\ Cardinality(1 .. f[x]) = f[x]
    BY FS_Interval, SMTT(30)
  <2>3. IsFiniteSet(new) /\ Cardinality(new) = Cardinality({x}) * Cardinality(1 .. f[x])
    BY <2>1, <2>2, FS_Product
  <2> QED BY <2>1, <2>2, <2>3
<1>2. Units(f, S \cup {x}) = new \cup old
  BY DEF Units
<1>3. new \cap old = {}
  BY DEF Units
<1> HIDE DEF new, old
<1>4. IsFiniteSet(old)
  BY DEF old
<1>5. /\ IsFiniteSet(new \cup old)
      /\ Cardinality(new \cup old) = Cardinality(new) + Cardinality(old) - Cardinality(new \cap old)
  BY <1>1, <1>4, FS_Union
<1>6. Cardinality(new \cap old) = 0 /\ Cardinality(old) \in Nat
  BY <1>3, <1>4, FS_EmptySet, FS_CardinalityType
<1>7. Cardinality(new \cup old) = f[x] + Cardinality(old)
  BY <1>1, <1>5, <1>6
<1> QED BY <1>2, <1>5, <1>7 DEF old

(* No amounts, no units.                                                   *)
LEMMA UnitsOfNone == ASSUME NEW f PROVE Units(f, {}) = {}
BY DEF Units

(* Finitely many amounts have finitely many units.                         *)
LEMMA UnitsFinite ==
  ASSUME NEW S, IsFiniteSet(S), NEW f, \A x \in S : f[x] \in Nat
  PROVE  \A s \in SUBSET S : IsFiniteSet(Units(f, s))
<1> DEFINE Good == {s \in SUBSET S : IsFiniteSet(Units(f, s))}
<1>1. {} \in Good
  BY UnitsOfNone, FS_EmptySet
<1>2. \A s \in SUBSET S : \A x \in S \ s : s \in Good => s \cup {x} \in Good
  BY UnitsOfOneMore
<1>3. \A s \in SUBSET S : s \in Good
  <2> HIDE DEF Good
  <2> QED BY <1>1, <1>2, SubsetInduction
<1> QED BY <1>3

(* A sum is the number of its units: counting solves the recursion that    *)
(* defines the sum, and any two solutions agree.                           *)
LEMMA SumIsUnits ==
  ASSUME NEW S, IsFiniteSet(S), NEW f, \A x \in S : f[x] \in Nat
  PROVE  SumFunctionOnSet(f, S) = Cardinality(Units(f, S))
<1> DEFINE pick(s)  == CHOOSE x \in s : TRUE
           Sums(g)  == [s \in SUBSET S |-> IF s = {} THEN 0 ELSE f[pick(s)] + g[s \ {pick(s)}]]
           iter     == CHOOSE g : g = Sums(g)
           count    == [s \in SUBSET S |-> Cardinality(Units(f, s))]
<1>1. SumFunctionOnSet(f, S) = iter[S]
  BY DEF SumFunctionOnSet, FoldFunctionOnSet, MapThenFoldSet
<1>2. ASSUME NEW s \in SUBSET S, s # {}
      PROVE  /\ pick(s) \in s /\ pick(s) \in S /\ s \ {pick(s)} \in SUBSET S
             /\ Cardinality(Units(f, s)) = f[pick(s)] + Cardinality(Units(f, s \ {pick(s)}))
  <2>1. pick(s) \in s
    BY <1>2
  <2> HIDE DEF pick
  <2>2. IsFiniteSet(Units(f, s \ {pick(s)}))
    BY UnitsFinite
  <2>3. s = (s \ {pick(s)}) \cup {pick(s)} /\ pick(s) \notin s \ {pick(s)} /\ f[pick(s)] \in Nat
    BY <2>1
  <2>4. Cardinality(Units(f, (s \ {pick(s)}) \cup {pick(s)}))
          = f[pick(s)] + Cardinality(Units(f, s \ {pick(s)}))
    BY <2>2, <2>3, UnitsOfOneMore
  <2> QED BY <2>1, <2>3, <2>4
<1>3. count = Sums(count)
  <2>1. ASSUME NEW s \in SUBSET S PROVE count[s] = Sums(count)[s]
    <3>1. CASE s = {}
      BY <3>1, UnitsOfNone, FS_EmptySet
    <3>2. CASE s # {}
      <4> HIDE DEF pick
      <4>1. Sums(count)[s] = f[pick(s)] + count[s \ {pick(s)}]
        BY <3>2
      <4> QED BY <1>2, <3>2, <4>1
    <3> QED BY <3>1, <3>2
  <2> HIDE DEF pick
  <2> QED BY <2>1
<1>4. iter = Sums(iter)
  <2> HIDE DEF Sums, count
  <2> QED BY <1>3
<1> DEFINE Good == {s \in SUBSET S : iter[s] = count[s]}
<1> HIDE DEF iter, pick
<1>5. \A s \in SUBSET S : s \in Good
  <2> DEFINE Bad == (SUBSET S) \ Good
  <2>1. SUFFICES ASSUME Bad # {} PROVE FALSE
    OBVIOUS
  <2>2. PICK s \in Bad : \A y \in Bad : ~(y \subseteq s /\ y # s)
    <3>1. Bad \in SUBSET (SUBSET S)
      OBVIOUS
    <3> HIDE DEF Bad
    <3> QED BY <2>1, <3>1, LeastSubset
  <2>3. CASE s = {}
    <3>1. iter[{}] = 0
      BY <1>4
    <3> QED BY <2>2, <2>3, <3>1, UnitsOfNone, FS_EmptySet
  <2>4. CASE s # {}
    <3>1. pick(s) \in s /\ s \ {pick(s)} \in SUBSET S
      BY <1>2, <2>4
    <3>2. s \ {pick(s)} \in Good
      <4>1. s \ {pick(s)} \subseteq s /\ s \ {pick(s)} # s
        BY <3>1
      <4>2. s \ {pick(s)} \notin Bad
        <5> HIDE DEF Bad
        <5> QED BY <2>2, <4>1
      <4> HIDE DEF Good
      <4> QED BY <3>1, <4>2
    <3>3. iter[s] = f[pick(s)] + iter[s \ {pick(s)}]
      BY <1>4, <2>4
    <3>4. count[s] = f[pick(s)] + count[s \ {pick(s)}]
      BY <1>2, <2>4
    <3> QED BY <2>2, <3>2, <3>3, <3>4
  <2> QED BY <2>3, <2>4
<1> QED BY <1>1, <1>5

-----------------------------------------------------------------------------
(* The sum of natural amounts is a natural amount; of none, it is nothing. *)
LEMMA SumType ==
  ASSUME NEW S, IsFiniteSet(S), NEW f, \A x \in S : f[x] \in Nat
  PROVE  SumFunctionOnSet(f, S) \in Nat
<1>1. IsFiniteSet(Units(f, S))
  BY UnitsFinite
<1> QED BY <1>1, SumIsUnits, FS_CardinalityType

(* The sum of integers is an integer. *)
LEMMA SumOfIntegers ==
  ASSUME NEW S, IsFiniteSet(S), NEW f, \A x \in S : f[x] \in Int
  PROVE  SumFunctionOnSet(f, S) \in Int
<1> DEFINE pick(s)  == CHOOSE x \in s : TRUE
           Sums(g)  == [s \in SUBSET S |-> IF s = {} THEN 0 ELSE f[pick(s)] + g[s \ {pick(s)}]]
           iter     == CHOOSE g : g = Sums(g)
           picks    == [s \in SUBSET S |-> pick(s)]
           step     == [at \in S \X Int |-> f[at[1]] + at[2]]
<1>1. SumFunctionOnSet(f, S) = iter[S]
  BY DEF SumFunctionOnSet, FoldFunctionOnSet, MapThenFoldSet
<1>2. ASSUME NEW s \in SUBSET S, s # {}
      PROVE  pick(s) \in s /\ pick(s) \in S /\ s \ {pick(s)} \in SUBSET S
  BY <1>2
<1> HIDE DEF pick
<1>3. \E g : g = Sums(g)
  <2>1. \A s \in (SUBSET S) \ {{}} : picks[s] \in s
    BY <1>2
  <2>2. step \in [S \X Int -> Int]
    OBVIOUS
  <2>3. PICK g \in [SUBSET S -> Int] : FoldIs(g, S, picks, 0, step)
    <3>1. 0 \in Int
      OBVIOUS
    <3> HIDE DEF picks, step, Sums, iter
    <3> QED BY <2>1, <2>2, <3>1, FoldIsSolved
  <2>4. ASSUME NEW s \in SUBSET S PROVE g[s] = IF s = {} THEN 0 ELSE f[pick(s)] + g[s \ {pick(s)}]
    <3>1. CASE s = {}
      BY <2>3, <3>1 DEF FoldIs
    <3>2. CASE s # {}
      <4>1. g[s] = step[<<pick(s), g[s \ {pick(s)}]>>]
        BY <2>3, <3>2 DEF FoldIs
      <4>2. <<pick(s), g[s \ {pick(s)}]>> \in S \X Int
        BY <1>2, <3>2
      <4> QED BY <3>2, <4>1, <4>2
    <3> QED BY <3>1, <3>2
  <2>5. g = Sums(g)
    BY <2>4
  <2> HIDE DEF Sums
  <2> QED BY <2>5
<1>4. iter = Sums(iter)
  <2> HIDE DEF Sums
  <2> QED BY <1>3
<1> HIDE DEF iter
<1> DEFINE Good == {s \in SUBSET S : iter[s] \in Int}
<1>5. {} \in Good
  BY <1>4
<1>6. ASSUME NEW s \in SUBSET S, s \notin Good PROVE \E y \in SUBSET S : y \subseteq s /\ y # s /\ y \notin Good
  <2>1. s # {}
    BY <1>5, <1>6
  <2>2. iter[s] = f[pick(s)] + iter[s \ {pick(s)}] /\ f[pick(s)] \in Int
    BY <1>2, <1>4, <2>1
  <2>3. iter[s \ {pick(s)}] \notin Int
    BY <1>6, <2>2
  <2> QED BY <1>2, <2>1, <2>3
<1>7. S \in Good
  <2> DEFINE Bad == (SUBSET S) \ Good
  <2>1. SUFFICES ASSUME Bad # {} PROVE FALSE
    OBVIOUS
  <2>2. PICK s \in Bad : \A y \in Bad : ~(y \subseteq s /\ y # s)
    <3>1. Bad \in SUBSET (SUBSET S)
      OBVIOUS
    <3> HIDE DEF Bad
    <3> QED BY <2>1, <3>1, LeastSubset
  <2> HIDE DEF Good
  <2> QED BY <1>6, <2>2
<1> QED BY <1>1, <1>7

LEMMA SumOfNone == ASSUME NEW f PROVE SumFunctionOnSet(f, {}) = 0
BY SumIsUnits, UnitsOfNone, FS_EmptySet

(* One more amount adds itself, and one less leaves the rest.              *)
LEMMA SumOfOneMore ==
  ASSUME NEW S, IsFiniteSet(S), NEW f, NEW x, x \notin S, \A y \in S \cup {x} : f[y] \in Nat
  PROVE  SumFunctionOnSet(f, S \cup {x}) = f[x] + SumFunctionOnSet(f, S)
<1>1. IsFiniteSet(S \cup {x}) /\ IsFiniteSet(Units(f, S))
  BY FS_AddElement, UnitsFinite
<1>2. SumFunctionOnSet(f, S \cup {x}) = Cardinality(Units(f, S \cup {x}))
  BY <1>1, SumIsUnits
<1>3. SumFunctionOnSet(f, S) = Cardinality(Units(f, S))
  BY SumIsUnits
<1>4. Cardinality(Units(f, S \cup {x})) = f[x] + Cardinality(Units(f, S))
  BY <1>1, UnitsOfOneMore
<1> QED BY <1>2, <1>3, <1>4

LEMMA SumWithout ==
  ASSUME NEW S, IsFiniteSet(S), NEW f, NEW x \in S, \A y \in S : f[y] \in Nat
  PROVE  /\ SumFunctionOnSet(f, S) = f[x] + SumFunctionOnSet(f, S \ {x})
         /\ SumFunctionOnSet(f, S \ {x}) \in Nat
<1>1. IsFiniteSet(S \ {x}) /\ S = (S \ {x}) \cup {x}
  BY FS_RemoveElement
<1>2. SumFunctionOnSet(f, (S \ {x}) \cup {x}) = f[x] + SumFunctionOnSet(f, S \ {x})
  BY <1>1, SumOfOneMore
<1> QED BY <1>1, <1>2, SumType

(* The sum of one amount is that amount.                                   *)
LEMMA SumOfOne == ASSUME NEW f, NEW x, f[x] \in Nat PROVE SumFunctionOnSet(f, {x}) = f[x]
<1>1. IsFiniteSet({}) /\ {x} = {} \cup {x} /\ x \notin {} /\ \A y \in {} \cup {x} : f[y] \in Nat
  BY FS_EmptySet
<1>2. SumFunctionOnSet(f, {} \cup {x}) = f[x] + SumFunctionOnSet(f, {})
  BY <1>1, SumOfOneMore
<1> QED BY <1>1, <1>2, SumOfNone

(* A sum looks only at the amounts it adds.                                *)
LEMMA SumOfTheSame ==
  ASSUME NEW S, IsFiniteSet(S), NEW f, NEW g, \A x \in S : f[x] \in Nat /\ g[x] = f[x]
  PROVE  SumFunctionOnSet(g, S) = SumFunctionOnSet(f, S)
<1>1. Units(f, S) = Units(g, S)
  BY DEF Units
<1> QED BY <1>1, SumIsUnits

(* One amount changes, and the sum by as much.                             *)
LEMMA SumChanges ==
  ASSUME NEW S, IsFiniteSet(S), NEW f, NEW g, NEW x \in S,
         \A y \in S : f[y] \in Nat /\ g[y] \in Nat,
         \A y \in S \ {x} : g[y] = f[y]
  PROVE  SumFunctionOnSet(g, S) = SumFunctionOnSet(f, S) - f[x] + g[x]
<1>1. SumFunctionOnSet(f, S) = f[x] + SumFunctionOnSet(f, S \ {x}) /\ SumFunctionOnSet(f, S \ {x}) \in Nat
  BY SumWithout
<1>2. SumFunctionOnSet(g, S) = g[x] + SumFunctionOnSet(g, S \ {x})
  BY SumWithout
<1>3. SumFunctionOnSet(g, S \ {x}) = SumFunctionOnSet(f, S \ {x})
  BY FS_RemoveElement, SumOfTheSame
<1> QED BY <1>1, <1>2, <1>3

(* Sums add up amount by amount.                                           *)
LEMMA SumOfBoth ==
  ASSUME NEW S, IsFiniteSet(S), NEW f, NEW g, NEW h,
         \A x \in S : f[x] \in Nat /\ g[x] \in Nat /\ h[x] = f[x] + g[x]
  PROVE  SumFunctionOnSet(h, S) = SumFunctionOnSet(f, S) + SumFunctionOnSet(g, S)
<1> DEFINE Good == {s \in SUBSET S :
                     SumFunctionOnSet(h, s) = SumFunctionOnSet(f, s) + SumFunctionOnSet(g, s)}
<1>1. {} \in Good
  BY SumOfNone
<1>2. ASSUME NEW s \in SUBSET S, NEW x \in S \ s, s \in Good
      PROVE  s \cup {x} \in Good
  <2>1. IsFiniteSet(s) /\ \A y \in s \cup {x} : f[y] \in Nat /\ g[y] \in Nat /\ h[y] \in Nat
    BY FS_Subset
  <2>2. /\ SumFunctionOnSet(f, s) \in Nat /\ SumFunctionOnSet(g, s) \in Nat
        /\ SumFunctionOnSet(f, s \cup {x}) = f[x] + SumFunctionOnSet(f, s)
        /\ SumFunctionOnSet(g, s \cup {x}) = g[x] + SumFunctionOnSet(g, s)
        /\ SumFunctionOnSet(h, s \cup {x}) = h[x] + SumFunctionOnSet(h, s)
    BY <2>1, SumType, SumOfOneMore
  <2> QED BY <1>2, <2>2
<1>3. \A s \in SUBSET S : s \in Good
  <2> HIDE DEF Good
  <2> QED BY <1>1, <1>2, SubsetInduction
<1> QED BY <1>3

(* What a sum takes on a part and on the rest.                             *)
LEMMA SumOfParts ==
  ASSUME NEW S, IsFiniteSet(S), NEW f, \A x \in S : f[x] \in Nat, NEW T \in SUBSET S
  PROVE  SumFunctionOnSet(f, S) = SumFunctionOnSet(f, T) + SumFunctionOnSet(f, S \ T)
<1>1. IsFiniteSet(T) /\ IsFiniteSet(S \ T)
  BY FS_Subset
<1>2. /\ SumFunctionOnSet(f, S) = Cardinality(Units(f, S))
      /\ SumFunctionOnSet(f, T) = Cardinality(Units(f, T))
      /\ SumFunctionOnSet(f, S \ T) = Cardinality(Units(f, S \ T))
  BY <1>1, SumIsUnits
<1>3. IsFiniteSet(Units(f, T)) /\ IsFiniteSet(Units(f, S \ T))
  BY UnitsFinite
<1>4. Units(f, S) = Units(f, T) \cup Units(f, S \ T) /\ Units(f, T) \cap Units(f, S \ T) = {}
  BY DEF Units
<1>5. Cardinality(Units(f, T)) \in Nat /\ Cardinality(Units(f, S \ T)) \in Nat
  BY <1>3, FS_CardinalityType
<1>6. Cardinality(Units(f, T) \cup Units(f, S \ T))
        = Cardinality(Units(f, T)) + Cardinality(Units(f, S \ T))
            - Cardinality(Units(f, T) \cap Units(f, S \ T))
  BY <1>3, FS_Union
<1>7. Cardinality(Units(f, T) \cap Units(f, S \ T)) = 0
  BY <1>4, FS_EmptySet
<1> QED BY <1>2, <1>4, <1>5, <1>6, <1>7

(* Nothing everywhere is nothing.                                          *)
LEMMA SumOfNothing ==
  ASSUME NEW S, IsFiniteSet(S), NEW f, \A x \in S : f[x] = 0
  PROVE  SumFunctionOnSet(f, S) = 0
<1>1. Units(f, S) = {}
  BY DEF Units
<1> QED BY <1>1, SumIsUnits, FS_EmptySet

(* Adding up a selection is adding nothing for what is not selected.       *)
LEMMA SumOfSelected ==
  ASSUME NEW S, IsFiniteSet(S), NEW T \in SUBSET S, NEW f, NEW h,
         \A x \in T : f[x] \in Nat,
         \A x \in S : h[x] = IF x \in T THEN f[x] ELSE 0
  PROVE  SumFunctionOnSet(f, T) = SumFunctionOnSet(h, S)
<1>1. IsFiniteSet(T)
  BY FS_Subset
<1>2. Units(f, T) = Units(h, S)
  BY DEF Units
<1>3. \A x \in S : h[x] \in Nat
  OBVIOUS
<1> QED BY <1>1, <1>2, <1>3, SumIsUnits

(* The same amount everywhere is that amount, as often.                    *)
LEMMA SumOfConstant ==
  ASSUME NEW S, IsFiniteSet(S), NEW f, NEW k \in Nat, \A x \in S : f[x] = k
  PROVE  SumFunctionOnSet(f, S) = Cardinality(S) * k
<1>1. Units(f, S) = S \X (1 .. k)
  BY DEF Units
<1>2. IsFiniteSet(1 .. k) /\ Cardinality(1 .. k) = k
  BY FS_Interval
<1>3. Cardinality(S \X (1 .. k)) = Cardinality(S) * k
  BY <1>2, FS_Product
<1> QED BY <1>1, <1>3, SumIsUnits

(* One for each of a part, and nothing for the rest, is how many they are. *)
LEMMA SumOfMarked ==
  ASSUME NEW S, IsFiniteSet(S), NEW T \in SUBSET S, NEW f,
         \A x \in S : f[x] = IF x \in T THEN 1 ELSE 0
  PROVE  SumFunctionOnSet(f, S) = Cardinality(T)
<1>1. IsFiniteSet(T) /\ IsFiniteSet(S \ T)
  BY FS_Subset
<1>2. Cardinality(T) \in Nat
  BY <1>1, FS_CardinalityType
<1>3. SumFunctionOnSet(f, T) = Cardinality(T) * 1
  BY <1>1, SumOfConstant
<1>4. SumFunctionOnSet(f, S \ T) = 0
  BY <1>1, SumOfNothing
<1>5. SumFunctionOnSet(f, S) = SumFunctionOnSet(f, T) + SumFunctionOnSet(f, S \ T)
  BY SumOfParts
<1> QED BY <1>2, <1>3, <1>4, <1>5

(* Adding the same amounts up under other names makes no difference.       *)
LEMMA SumRenamed ==
  ASSUME NEW S, IsFiniteSet(S), NEW f, NEW g, NEW name,
         \A x \in S : f[x] \in Nat /\ g[name[x]] = f[x],
         \A x, y \in S : name[x] = name[y] => x = y
  PROVE  SumFunctionOnSet(g, {name[x] : x \in S}) = SumFunctionOnSet(f, S)
<1> DEFINE Named(s) == {name[x] : x \in s}
           Good == {s \in SUBSET S : /\ IsFiniteSet(Named(s))
                                     /\ SumFunctionOnSet(g, Named(s)) = SumFunctionOnSet(f, s)}
<1>1. {} \in Good
  <2>1. Named({}) = {}
    OBVIOUS
  <2> QED BY <2>1, SumOfNone, FS_EmptySet
<1>2. ASSUME NEW s \in SUBSET S, NEW x \in S \ s, s \in Good
      PROVE  s \cup {x} \in Good
  <2>1. Named(s \cup {x}) = Named(s) \cup {name[x]} /\ name[x] \notin Named(s)
    OBVIOUS
  <2>2. \A y \in Named(s) \cup {name[x]} : g[y] \in Nat
    OBVIOUS
  <2>3. IsFiniteSet(Named(s)) /\ IsFiniteSet(s) /\ SumFunctionOnSet(g, Named(s)) = SumFunctionOnSet(f, s)
    BY <1>2, FS_Subset
  <2>4. \A y \in s \cup {x} : f[y] \in Nat
    OBVIOUS
  <2> HIDE DEF Named
  <2>5. SumFunctionOnSet(g, Named(s) \cup {name[x]}) = g[name[x]] + SumFunctionOnSet(g, Named(s))
    BY <2>1, <2>2, <2>3, SumOfOneMore
  <2>6. SumFunctionOnSet(f, s \cup {x}) = f[x] + SumFunctionOnSet(f, s)
    BY <2>3, <2>4, SumOfOneMore
  <2>7. IsFiniteSet(Named(s) \cup {name[x]})
    BY <2>3, FS_AddElement
  <2> QED BY <2>1, <2>3, <2>5, <2>6, <2>7
<1>3. \A s \in SUBSET S : s \in Good
  <2> HIDE DEF Good
  <2> QED BY <1>1, <1>2, SubsetInduction
<1> QED BY <1>3

(* Smaller amounts have a smaller sum.                                     *)
LEMMA SumOfLess ==
  ASSUME NEW S, IsFiniteSet(S), NEW f, NEW g, \A x \in S : f[x] \in Nat /\ g[x] \in Nat /\ f[x] <= g[x]
  PROVE  SumFunctionOnSet(f, S) <= SumFunctionOnSet(g, S)
<1> DEFINE rest == [x \in S |-> g[x] - f[x]]
<1>1. \A x \in S : rest[x] \in Nat /\ f[x] \in Nat /\ g[x] = f[x] + rest[x]
  OBVIOUS
<1> HIDE DEF rest
<1>2. SumFunctionOnSet(g, S) = SumFunctionOnSet(f, S) + SumFunctionOnSet(rest, S)
  BY <1>1, SumOfBoth
<1>3. SumFunctionOnSet(f, S) \in Nat /\ SumFunctionOnSet(rest, S) \in Nat
  BY <1>1, SumType
<1> QED BY <1>2, <1>3

(* Some amount of a sum that is not zero is not zero.                      *)
LEMMA SumOfSomething ==
  ASSUME NEW S, IsFiniteSet(S), NEW f, SumFunctionOnSet(f, S) # 0, \A x \in S : f[x] \in Nat
  PROVE  \E x \in S : f[x] > 0
<1>1. SUFFICES ASSUME \A x \in S : f[x] = 0 PROVE FALSE
  OBVIOUS
<1> QED BY <1>1, SumOfNothing

(* Amounts all multiplied multiply the sum.                                *)
LEMMA SumOfMultiples ==
  ASSUME NEW S, IsFiniteSet(S), NEW k \in Nat, NEW f, NEW g, \A x \in S : f[x] \in Nat /\ g[x] = f[x] * k
  PROVE  SumFunctionOnSet(g, S) = SumFunctionOnSet(f, S) * k
<1> DEFINE Good == {s \in SUBSET S : SumFunctionOnSet(g, s) = SumFunctionOnSet(f, s) * k}
<1>1. {} \in Good
  BY SumOfNone
<1>2. ASSUME NEW s \in SUBSET S, NEW x \in S \ s, s \in Good
      PROVE  s \cup {x} \in Good
  <2>1. IsFiniteSet(s) /\ x \notin s
    BY FS_Subset
  <2>2. \A y \in s \cup {x} : f[y] \in Nat /\ g[y] \in Nat
    OBVIOUS
  <2>3. /\ SumFunctionOnSet(f, s \cup {x}) = f[x] + SumFunctionOnSet(f, s)
        /\ SumFunctionOnSet(g, s \cup {x}) = g[x] + SumFunctionOnSet(g, s)
    BY <2>1, <2>2, SumOfOneMore
  <2>4. SumFunctionOnSet(f, s) \in Nat /\ SumFunctionOnSet(g, s) = SumFunctionOnSet(f, s) * k
    BY <1>2, <2>1, <2>2, SumType
  <2>5. (f[x] + SumFunctionOnSet(f, s)) * k = f[x] * k + SumFunctionOnSet(f, s) * k
    BY <2>2, <2>4
  <2> QED BY <2>3, <2>4, <2>5
<1>3. \A s \in SUBSET S : s \in Good
  <2> HIDE DEF Good
  <2> QED BY <1>1, <1>2, SubsetInduction
<1> QED BY <1>3

(* The size of a whole is the sum of the sizes of its parts.               *)
LEMMA SizeOfParts ==
  ASSUME NEW S, IsFiniteSet(S), NEW P, NEW f,
         \A x \in S : IsFiniteSet(P[x]) /\ f[x] = Cardinality(P[x]),
         \A x, y \in S : x # y => P[x] \cap P[y] = {}
  PROVE  /\ IsFiniteSet(UNION {P[x] : x \in S})
         /\ Cardinality(UNION {P[x] : x \in S}) = SumFunctionOnSet(f, S)
<1> DEFINE Whole(s) == UNION {P[x] : x \in s}
           Good == {s \in SUBSET S : IsFiniteSet(Whole(s)) /\ Cardinality(Whole(s)) = SumFunctionOnSet(f, s)}
<1>1. {} \in Good
  <2>1. Whole({}) = {}
    OBVIOUS
  <2>2. IsFiniteSet(Whole({})) /\ Cardinality(Whole({})) = 0
    BY <2>1, FS_EmptySet
  <2> HIDE DEF Whole
  <2> QED BY <2>2, SumOfNone
<1>2. ASSUME NEW s \in SUBSET S, NEW x \in S \ s, s \in Good PROVE s \cup {x} \in Good
  <2>1. Whole(s \cup {x}) = Whole(s) \cup P[x] /\ Whole(s) \cap P[x] = {}
    OBVIOUS
  <2>2. IsFiniteSet(Whole(s)) /\ Cardinality(Whole(s)) = SumFunctionOnSet(f, s)
    BY <1>2
  <2> HIDE DEF Whole
  <2>3. /\ IsFiniteSet(Whole(s) \cup P[x])
        /\ Cardinality(Whole(s) \cup P[x]) = Cardinality(Whole(s)) + Cardinality(P[x]) - Cardinality(Whole(s) \cap P[x])
    BY <2>2, FS_Union
  <2>4. Cardinality(Whole(s) \cap P[x]) = 0
    BY <2>1, FS_EmptySet
  <2>5. \A y \in S : f[y] \in Nat
    BY FS_CardinalityType
  <2>6. SumFunctionOnSet(f, s \cup {x}) = f[x] + SumFunctionOnSet(f, s) /\ SumFunctionOnSet(f, s) \in Nat
    BY <2>5, SumOfOneMore, SumType, FS_Subset
  <2>7. f[x] = Cardinality(P[x]) /\ f[x] \in Nat
    BY <2>5
  <2>8. IsFiniteSet(Whole(s \cup {x})) /\ Cardinality(Whole(s \cup {x})) = SumFunctionOnSet(f, s \cup {x})
    <3> DEFINE n == SumFunctionOnSet(f, s)
    <3>1. /\ IsFiniteSet(Whole(s \cup {x})) /\ Cardinality(Whole(s \cup {x})) = n + f[x] - 0
          /\ SumFunctionOnSet(f, s \cup {x}) = f[x] + n /\ n \in Nat
      BY <2>1, <2>2, <2>3, <2>4, <2>6, <2>7
    <3> HIDE DEF n
    <3> QED BY <3>1, <2>7
  <2> QED BY <2>8
<1>3. \A s \in SUBSET S : s \in Good
  <2> HIDE DEF Good
  <2> QED BY <1>1, <1>2, SubsetInduction
<1> QED BY <1>3
=============================================================================
