------------------------------- MODULE Merkle -------------------------------
(***************************************************************************)
(* The tree over what a day was decided from, and proofs that something    *)
(* was in it (packages/shared/src/merkle.ts, interval-leaf.ts).  The hash  *)
(* is free: two hashes are equal when what was hashed is.  The prefixes    *)
(* that keep leaves and nodes apart are kept, since properties depend on   *)
(* them.                                                                   *)
(***************************************************************************)
EXTENDS Integers, Sequences, SequencesExt, FiniteSets

CONSTANTS Medians,     \* the medians an interval may have
          VoteCounts,  \* and the numbers of votes
          MaxLeaves    \* bound on the leaves of a tree

VARIABLE leaves        \* the intervals committed to, in order

HashLeaf(bytes) == <<0, bytes>>

(* Mutant: a pair is hashed in the same order whoever is on the left.      *)
HashNodeSorted(left, right) == <<1, {left, right}>>

HashNode(left, right) == <<1, <<left, right>>>>

(* Mutant: an odd node is paired with itself.                              *)
ParentLevelDuplicating(level) ==
  [i \in 1..((Len(level) + 1) \div 2) |->
     IF 2 * i <= Len(level) THEN HashNode(level[2 * i - 1], level[2 * i])
     ELSE HashNode(level[2 * i - 1], level[2 * i - 1])]

ParentLevel(level) ==
  [i \in 1..((Len(level) + 1) \div 2) |->
     IF 2 * i <= Len(level) THEN HashNode(level[2 * i - 1], level[2 * i]) ELSE level[2 * i - 1]]

MerkleRoot(bytes) ==
  IF bytes = <<>> THEN {}
  ELSE {FoldLeft(LAMBDA level, round : IF Len(level) > 1 THEN ParentLevel(level) ELSE level,
                 [i \in DOMAIN bytes |-> HashLeaf(bytes[i])], bytes)[1]}

(* Mutant: the sibling is always the next node.                            *)
ClimbRight(at, round) ==
  IF Len(at.level) <= 1 THEN at
  ELSE [level    |-> ParentLevel(at.level),
        position |-> at.position \div 2,
        siblings |-> IF at.position + 1 < Len(at.level) THEN Append(at.siblings, at.level[at.position + 2])
                     ELSE at.siblings]

(* One round of the climb from position in level, counted from 0. *)
Climb(at, round) ==
  LET sibling == IF at.position % 2 = 1 THEN at.position - 1 ELSE at.position + 1 IN
  IF Len(at.level) <= 1 THEN at
  ELSE [level    |-> ParentLevel(at.level),
        position |-> at.position \div 2,
        siblings |-> IF sibling < Len(at.level) THEN Append(at.siblings, at.level[sibling + 1]) ELSE at.siblings]

MerkleProof(bytes, index) ==
  [index    |-> index,
   size     |-> Len(bytes),
   siblings |-> FoldLeft(Climb, [level |-> [i \in DOMAIN bytes |-> HashLeaf(bytes[i])],
                                 position |-> index, siblings |-> <<>>], bytes).siblings]

(* One round of the verifier: a sibling on the left of an odd position, on *)
(* the right of an even one unless it is the last of its level.            *)
Check(at, siblings) ==
  LET left  == at.position % 2 = 1
      takes == at.width > 1 /\ (left \/ at.position + 1 < at.width)
      short == takes /\ at.used >= Len(siblings) IN
  IF at.width <= 1 \/ at.fails THEN at
  ELSE [hash     |-> IF ~takes \/ short THEN at.hash
                     ELSE IF left THEN HashNode(siblings[at.used + 1], at.hash)
                     ELSE HashNode(at.hash, siblings[at.used + 1]),
        position |-> at.position \div 2,
        width    |-> (at.width + 1) \div 2,
        used     |-> IF takes /\ ~short THEN at.used + 1 ELSE at.used,
        fails    |-> short]

VerifyMerkleProof(bytes, proof, root) ==
  /\ proof.size >= 1 /\ proof.index \in 0..(proof.size - 1)
  /\ LET end == FoldLeft(LAMBDA at, round : Check(at, proof.siblings),
                         [hash |-> HashLeaf(bytes), position |-> proof.index, width |-> proof.size,
                          used |-> 0, fails |-> FALSE], [i \in 1..proof.size |-> i]) IN
     ~end.fails /\ end.used = Len(proof.siblings) /\ end.hash = root

(* What an interval commits to.  Without a value the bytes of the median   *)
(* are zero, and a flag says so; without readings the root is zeroes.      *)
CanonicalInterval(interval) ==
  <<IF interval.median = {} THEN 0 ELSE 1,
    IF interval.median = {} THEN 0 ELSE CHOOSE m \in interval.median : TRUE,
    interval.votes>>

CommittedIntervals == {[median |-> m, votes |-> v] : m \in {{}} \cup {{x} : x \in Medians}, v \in VoteCounts}

Committed(intervals) == [i \in DOMAIN intervals |-> CanonicalInterval(intervals[i])]

MerkleInit == leaves = <<>>

AddLeaf ==
  /\ Len(leaves) < MaxLeaves
  /\ \E interval \in CommittedIntervals : leaves' = Append(leaves, interval)

MerkleNext == AddLeaf

MerkleSpec == MerkleInit /\ [][MerkleNext]_leaves

(***************************************************************************)
(* Properties.                                                             *)
(***************************************************************************)

(* Every interval of a day can be shown to be in it: the proof the page    *)
(* builds is the one the verifier takes, at every width, odd ones too.     *)
ProofsProve ==
  \A i \in DOMAIN leaves :
    VerifyMerkleProof(Committed(leaves)[i], MerkleProof(Committed(leaves), i - 1),
                      CHOOSE r \in MerkleRoot(Committed(leaves)) : TRUE)

(* Nothing else can: read with the day's own width, no proof made for one  *)
(* place of the tree, whole or short of a sibling, shows another interval  *)
(* or the same one elsewhere.                                              *)
ProofsBind ==
  \A i \in DOMAIN leaves, at \in DOMAIN leaves, interval \in CommittedIntervals :
    LET made == MerkleProof(Committed(leaves), i - 1) IN
    \A siblings \in {made.siblings} \cup {SubSeq(made.siblings, 1, n) : n \in 0..Len(made.siblings)} :
      VerifyMerkleProof(CanonicalInterval(interval), [made EXCEPT !.index = at - 1, !.siblings = siblings],
                        CHOOSE r \in MerkleRoot(Committed(leaves)) : TRUE)
        => interval = leaves[at]

(* Two days that differ have roots that differ: a day with its last        *)
(* interval given twice, one interval short, or an interval without a      *)
(* median for one whose median is zero.                                    *)
RootsDiffer ==
  \A interval \in CommittedIntervals :
    /\ MerkleRoot(Committed(Append(leaves, interval))) # MerkleRoot(Committed(leaves))
    /\ \A i \in DOMAIN leaves :
         interval # leaves[i] =>
           MerkleRoot(Committed([leaves EXCEPT ![i] = interval])) # MerkleRoot(Committed(leaves))

(* The root on chain stands for the intervals the worker measured, all of  *)
(* them and no others (verify.ts asks a reader to rely on nothing else).   *)
RootSpeaksForTheDay == leaves # <<>> => ProofsProve /\ ProofsBind /\ RootsDiffer
=============================================================================
