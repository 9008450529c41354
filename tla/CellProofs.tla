----------------------------- MODULE CellProofs -----------------------------
(***************************************************************************)
(* What a cell keeps on chain, for every value of the constants: its days  *)
(* and the sensors in its slots.                                           *)
(*                                                                         *)
(* The day log is safe for every ring length, clock and set of sensors:    *)
(* its invariants are inductive together, an answer it gave is final, and  *)
(* it implements the sheet of DayWindow.  What record_day does to a ring   *)
(* is in DayRingProofs; here it meets the aggregator and the clock.        *)
(*                                                                         *)
(* What is read out of the log is right too: the loop of spell_in_window   *)
(* computes what Policies settles and closes on, for every ring and every  *)
(* window, by a loop invariant over the days read so far.                  *)
(*                                                                         *)
(* Of an operator's sensors it holds for every number of cells, slots,     *)
(* sensors and transactions in flight, and every window and delay, that no *)
(* slot has two owners, the stake vault holds the stakes, no earning is    *)
(* left without an owner, a stake outlasts the verdicts on it, a           *)
(* reinstated sensor is not excluded on its old record, and a plan made    *)
(* from the chain as it is lands.                                          *)
(***************************************************************************)
EXTENDS DayLog, DrySpell, Sensors, DayRingProofs, Sums, FiniteSetTheorems

(***************************************************************************)
(* The log and its writer.                                                 *)
(***************************************************************************)
(* A slot that stands for no day of the window is zero. *)
StaleSlotsEmpty == OnlyWindowFilled(cell)

(* The inductive invariant.  The type alone is not inductive (first could  *)
(* move anywhere), and neither is any one of the others: keeping a slot    *)
(* empty needs the window to be the last LogLen days, and keeping a day's  *)
(* votes needs no two days of the window to meet in a slot.                *)
LogInv ==
  /\ TypeOK
  /\ WindowTracksLast
  /\ StaleSlotsEmpty
  /\ VotesBehindEveryMeasuredDay

(* An account that was just opened satisfies the invariant. *)
LEMMA LogInitInv == Init => LogInv
<1> SUFFICES ASSUME Init PROVE LogInv
  OBVIOUS
<1>1. TypeOK /\ WindowTracksLast /\ StaleSlotsEmpty
  BY EmptyCellWellFormed, DayLogAssumption
     DEF Init, TypeOK, WindowTracksLast, StaleSlotsEmpty
<1>2. VotesBehindEveryMeasuredDay
  BY DEF Init, EmptyCell, NoDay, VotesBehindEveryMeasuredDay
<1> QED BY <1>1, <1>2 DEF LogInv

(* What one accepted day does to the log, in the terms of RecordDayReads. *)
LEMMA SubmitReads ==
  ASSUME LogInv, NEW date \in 0 .. MaxDay, NEW state \in DayStates,
         NEW voters \in SUBSET SensorSlots, SubmitDayRecord(date, state, voters)
  PROVE  /\ cell' \in Cells
         /\ TracksLast(cell')
         /\ OnlyWindowFilled(cell')
         /\ cell'.last = date
         /\ cell'.first >= cell.first
         /\ \A d \in cell'.first .. date :
              /\ DayStateOf(cell', d) = IF d = date THEN state
                                        ELSE IF HoldsDay(cell, d) THEN DayStateOf(cell, d)
                                        ELSE "NoCoverage"
              /\ ContributorsOf(cell', d) = IF d = date THEN voters
                                            ELSE IF HoldsDay(cell, d) THEN ContributorsOf(cell, d)
                                            ELSE {}
<1>1. cell \in Cells /\ date \in Nat /\ TracksLast(cell) /\ OnlyWindowFilled(cell)
  BY DayLogAssumption DEF LogInv, TypeOK, WindowTracksLast, StaleSlotsEmpty
<1>2. IsNewer(cell, date) /\ cell' = RecordDay(cell, date, state, voters)
  BY DEF SubmitDayRecord
<1> QED BY <1>1, <1>2, RecordDayReads

(* Every step of the cell keeps the invariant. *)
LEMMA LogNextInv == LogInv /\ [Next]_vars => LogInv'
<1> SUFFICES ASSUME LogInv, [Next]_vars PROVE LogInv'
  OBVIOUS
<1>1. ASSUME NEW date \in 0 .. MaxDay, NEW state \in DayStates,
             NEW voters \in SUBSET SensorSlots, SubmitDayRecord(date, state, voters)
      PROVE  LogInv'
  <2>1. TypeOK' /\ WindowTracksLast' /\ StaleSlotsEmpty'
    BY <1>1, SubmitReads
       DEF SubmitDayRecord, LogInv, TypeOK, WindowTracksLast, StaleSlotsEmpty
  <2>2. VotesBehindEveryMeasuredDay'
    <3> SUFFICES ASSUME NEW d \in cell'.first .. cell'.last
                 PROVE  IF DayStateOf(cell', d) = "NoCoverage"
                          THEN Cardinality(ContributorsOf(cell', d)) = 0
                          ELSE Cardinality(ContributorsOf(cell', d)) >= MinSensors
      BY DEF VotesBehindEveryMeasuredDay
    <3>1. Cardinality({}) = 0
      BY FS_EmptySet
    <3>2. CASE d = date
      <4>1. DayStateOf(cell', d) = state /\ ContributorsOf(cell', d) = voters
        BY <1>1, <3>2, SubmitReads
      <4> QED BY <4>1, <1>1, <3>1 DEF SubmitDayRecord, AcceptableRecord
    <3>3. CASE d # date /\ HoldsDay(cell, d)
      <4>1. DayStateOf(cell', d) = DayStateOf(cell, d) /\ ContributorsOf(cell', d) = ContributorsOf(cell, d)
        BY <1>1, <3>3, SubmitReads
      <4>2. d \in cell.first .. cell.last
        BY <3>3, <2>1 DEF HoldsDay, TypeOK, Cells, NoDay, LogInv
      <4> QED BY <4>1, <4>2 DEF LogInv, VotesBehindEveryMeasuredDay
    <3>4. CASE d # date /\ ~HoldsDay(cell, d)
      <4>1. DayStateOf(cell', d) = "NoCoverage" /\ ContributorsOf(cell', d) = {}
        BY <1>1, <3>4, SubmitReads
      <4> QED BY <4>1, <3>1
    <3> QED BY <3>2, <3>3, <3>4
  <2> QED BY <2>1, <2>2 DEF LogInv
<1>2. CASE Tick
  BY <1>2, DayLogAssumption
     DEF Tick, LogInv, TypeOK, WindowTracksLast, StaleSlotsEmpty, VotesBehindEveryMeasuredDay
<1>3. CASE UNCHANGED vars
  BY <1>3 DEF vars, LogInv, TypeOK, WindowTracksLast, StaleSlotsEmpty, VotesBehindEveryMeasuredDay
<1> QED BY <1>1, <1>2, <1>3 DEF Next

(* The day log's invariant holds in every reachable state. *)
THEOREM Invariance == Spec => []LogInv
BY LogInitInv, LogNextInv, PTL DEF Spec

(* The log always answers for exactly the last LogLen days up to its       *)
(* newest, whatever gaps the aggregator left.                              *)
THEOREM WindowIsExact == Spec => []WindowTracksLast
<1>1. LogInv => WindowTracksLast
  BY DEF LogInv
<1> QED BY <1>1, Invariance, PTL

(* The price may read the whole ring: its slots count the measured and the *)
(* dry days of the window, each once, and nothing else.                    *)
THEOREM PriceReadsTheWindow == Spec => []PriceCountsTheWindow
<1>1. LogInv => PriceCountsTheWindow
  <2> SUFFICES ASSUME LogInv PROVE PriceCountsTheWindow
    OBVIOUS
  <2>1. cell \in Cells /\ TracksLast(cell) /\ OnlyWindowFilled(cell)
    BY DEF LogInv, TypeOK, WindowTracksLast, StaleSlotsEmpty
  <2>2. CoveredSlots(cell) = {s \in RingSlots : cell.log[s] \in {"Dry", "Wet"}}
    BY <2>1 DEF CoveredSlots, Cells, DayStates
  <2>3. Cardinality(CoveredSlots(cell)) = Cardinality(CoveredDays(cell))
    BY <2>1, <2>2, SlotsCountDays DEF CoveredDays
  <2>4. /\ DrySlots(cell) = {s \in RingSlots : cell.log[s] \in {"Dry"}}
        /\ DryDays(cell) = {d \in cell.first .. cell.last : DayStateOf(cell, d) \in {"Dry"}}
    BY DEF DrySlots, DryDays
  <2>5. Cardinality(DrySlots(cell)) = Cardinality(DryDays(cell))
    BY <2>1, <2>4, SlotsCountDays
  <2> QED BY <2>3, <2>5 DEF PriceCountsTheWindow
<1> QED BY <1>1, Invariance, PTL

(* A measured day of the window carries the pool's minimum of votes, and a *)
(* day without coverage carries none.                                      *)
THEOREM MeasuredDaysAreVoted == Spec => []VotesBehindEveryMeasuredDay
<1>1. LogInv => VotesBehindEveryMeasuredDay
  BY DEF LogInv
<1> QED BY <1>1, Invariance, PTL

(* No step rewrites an answer, and none answers for a day passed over or   *)
(* gone from the ring: what a policy was settled on stays what it was.     *)
THEOREM AnswersNeverChange == Spec => AnswersAreFinal
<1>1. LogInv /\ [Next]_vars => [KeepsAnswers]_vars
  <2> SUFFICES ASSUME LogInv, Next, NEW d \in 0 .. MaxDay
               PROVE  /\ DayStateOf(cell, d) # Unknown =>
                            \/ DayStateOf(cell', d) = DayStateOf(cell, d)
                            \/ DayStateOf(cell', d) = Unknown /\ d < cell'.first
                      /\ DayStateOf(cell, d) = Unknown /\ d <= cell.last =>
                            DayStateOf(cell', d) = Unknown
    BY DEF KeepsAnswers
  <2>1. ASSUME NEW date \in 0 .. MaxDay, NEW state \in DayStates,
               NEW voters \in SUBSET SensorSlots, SubmitDayRecord(date, state, voters)
        PROVE  /\ DayStateOf(cell, d) # Unknown =>
                     \/ DayStateOf(cell', d) = DayStateOf(cell, d)
                     \/ DayStateOf(cell', d) = Unknown /\ d < cell'.first
               /\ DayStateOf(cell, d) = Unknown /\ d <= cell.last =>
                     DayStateOf(cell', d) = Unknown
    <3>0. /\ cell \in Cells /\ cell' \in Cells /\ date \in Nat /\ d \in Nat
          /\ cell.last < date /\ cell'.last = date /\ cell.first <= cell'.first
      BY <2>1, SubmitReads DEF LogInv, TypeOK, SubmitDayRecord, IsNewer
    <3>1. CASE HoldsDay(cell, d) /\ cell'.first <= d
      <4>1. d \in cell'.first .. date /\ d # date
        BY <3>0, <3>1 DEF HoldsDay, Cells, NoDay
      <4> QED BY <4>1, <2>1, <3>1, SubmitReads DEF DayStateOf
    <3>2. CASE HoldsDay(cell, d) /\ d < cell'.first
      BY <3>0, <3>2 DEF HoldsDay, DayStateOf, Cells, NoDay
    <3>3. CASE ~HoldsDay(cell, d) /\ d <= cell.last
      <4>1. d < cell'.first
        BY <3>0, <3>3 DEF HoldsDay, Cells, NoDay
      <4> QED BY <4>1, <3>0, <3>3 DEF HoldsDay, DayStateOf, Cells, NoDay
    <3>4. CASE ~HoldsDay(cell, d) /\ ~(d <= cell.last)
      BY <3>4 DEF DayStateOf
    <3>5. HoldsDay(cell, d) => cell'.first <= d \/ d < cell'.first
      BY <3>0 DEF Cells
    <3> QED BY <3>1, <3>2, <3>3, <3>4, <3>5
  <2>2. CASE Tick
    BY <2>2 DEF Tick
  <2> QED BY <2>1, <2>2 DEF Next
<1> QED BY <1>1, Invariance, PTL DEF Spec, AnswersAreFinal

(* The ring, for every length, implements the sheet: each record is one    *)
(* line written after the last, and everything else leaves the sheet be.   *)
THEOREM RingImplementsSheet == Spec => ImplementsSheet
<1> DEFINE sheet == [d \in {x \in 0 .. cell.last : HoldsDay(cell, x)} |-> EntryOf(d)]
<1>1. Init => Sheet!Init
  <2> SUFFICES ASSUME Init PROVE Sheet!Init
    OBVIOUS
  <2>1. {x \in 0 .. cell.last : HoldsDay(cell, x)} = {}
    BY DEF Init, EmptyCell, HoldsDay
  <2> QED BY <2>1 DEF Init, EmptyCell, Sheet!Init
<1>2. LogInv /\ [Next]_vars => [Sheet!Next]_(Sheet!sheetVars)
  <2> SUFFICES ASSUME LogInv, [Next]_vars
               PROVE  Sheet!Next \/ UNCHANGED Sheet!sheetVars
    OBVIOUS
  <2>1. ASSUME NEW date \in 0 .. MaxDay, NEW state \in DayStates,
               NEW voters \in SUBSET SensorSlots, SubmitDayRecord(date, state, voters)
        PROVE  Sheet!Write(date, <<state, voters>>)
    <3>0. /\ cell \in Cells /\ cell' \in Cells /\ date \in Nat /\ LogLen \in Nat
          /\ cell.last < date /\ cell'.last = date
          /\ cell'.first = IF date < LogLen THEN 0 ELSE date - LogLen + 1
          /\ date # NoDay
      BY <2>1, SubmitReads, LogLenAssumption
         DEF LogInv, TypeOK, SubmitDayRecord, IsNewer, TracksLast, NoDay
    <3>1. {x \in 0 .. cell'.last : HoldsDay(cell', x)} = Sheet!Kept(date)
      BY <3>0, LogLenAssumption DEF Sheet!Kept, HoldsDay, Cells
    <3>2. ASSUME NEW d \in Sheet!Kept(date)
          PROVE  <<DayStateOf(cell', d), ContributorsOf(cell', d)>> =
                   IF d = date THEN <<state, voters>>
                   ELSE IF d \in DOMAIN sheet THEN sheet[d] ELSE <<"NoCoverage", {}>>
      <4>1. d \in cell'.first .. date /\ d \in Nat
        BY <3>0, LogLenAssumption DEF Sheet!Kept, Cells
      <4>2. d \in DOMAIN sheet <=> HoldsDay(cell, d)
        BY <3>0, <4>1 DEF HoldsDay, Cells, NoDay
      <4>3. d \in DOMAIN sheet => sheet[d] = <<DayStateOf(cell, d), ContributorsOf(cell, d)>>
        BY DEF EntryOf
      <4> HIDE DEF sheet
      <4> QED BY <2>1, <4>1, <4>2, <4>3, SubmitReads
    <3> QED BY <3>0, <3>1, <3>2 DEF Sheet!Write, EntryOf
  <2>2. CASE Tick
    BY <2>2 DEF Tick, Sheet!sheetVars, EntryOf
  <2>3. CASE UNCHANGED vars
    BY <2>3 DEF vars, Sheet!sheetVars, EntryOf
  <2>4. ASSUME NEW date \in 0 .. MaxDay, NEW state \in DayStates,
               NEW voters \in SUBSET SensorSlots, SubmitDayRecord(date, state, voters)
        PROVE  Sheet!Next
    BY <2>1, <2>4 DEF Sheet!Next
  <2> QED BY <2>2, <2>3, <2>4 DEF Next
<1> QED BY <1>1, <1>2, Invariance, PTL DEF Spec, ImplementsSheet, Sheet!Spec

(***************************************************************************)
(* The loop that reads a window out of the log.                            *)
(***************************************************************************)
(* A spell begins with a shorter one. *)
LEMMA ShorterSpell ==
  ASSUME NEW dry, NEW s \in Int, NEW e \in Int, NEW m \in Nat, NEW n \in Nat \ {0},
         n <= m, HasDrySpell(dry, s, e, m)
  PROVE  HasDrySpell(dry, s, e, n)
<1>1. PICK d \in s .. e : d + m - 1 <= e /\ d .. d + m - 1 \subseteq dry
  BY DEF HasDrySpell
<1>2. d + n - 1 <= e /\ d .. d + n - 1 \subseteq d .. d + m - 1
  BY <1>1
<1> QED BY <1>1, <1>2 DEF HasDrySpell

(* A spell of a shorter window is one of a longer window. *)
LEMMA SpellStays ==
  ASSUME NEW dry, NEW s \in Int, NEW e \in Int, NEW n \in Nat,
         HasDrySpell(dry, s, e - 1, n)
  PROVE  HasDrySpell(dry, s, e, n)
<1>1. PICK d \in s .. e - 1 : d + n - 1 <= e - 1 /\ d .. d + n - 1 \subseteq dry
  BY DEF HasDrySpell
<1>2. d \in s .. e /\ d + n - 1 <= e
  BY <1>1
<1> QED BY <1>1, <1>2 DEF HasDrySpell

(* One more day makes no spell of more than b days if it ends none and if  *)
(* the days before it held none of more than a days, a being at most b.    *)
LEMMA NoLongerSpell ==
  ASSUME NEW dry, NEW s \in Int, NEW e \in Int, NEW a \in Nat, NEW b \in Nat, a <= b,
         ~HasDrySpell(dry, s, e - 1, a + 1),
         \A d \in s .. e : d + b = e => ~(d .. e \subseteq dry)
  PROVE  ~HasDrySpell(dry, s, e, b + 1)
<1> SUFFICES ASSUME HasDrySpell(dry, s, e, b + 1) PROVE FALSE
  OBVIOUS
<1>1. PICK d \in s .. e : d + (b + 1) - 1 <= e /\ d .. d + (b + 1) - 1 \subseteq dry
  BY DEF HasDrySpell
<1>2. d \in Int /\ d + (b + 1) - 1 = d + b /\ d + b <= e
  BY <1>1
<1>3. d .. d + b \subseteq dry
  BY <1>1, <1>2
<1>4. CASE d + b = e
  BY <1>3, <1>4
<1>5. CASE d + b < e
  <2>1. d \in s .. e - 1 /\ d + (a + 1) - 1 <= e - 1 /\ d .. d + (a + 1) - 1 \subseteq d .. d + b
    BY <1>2, <1>5
  <2>2. HasDrySpell(dry, s, e - 1, a + 1)
    BY <2>1, <1>3 DEF HasDrySpell
  <2> QED BY <2>2
<1> QED BY <1>2, <1>4, <1>5

(* The days the loop has read are those before day, and no others. *)
ReadSoFar ==
  /\ start <= day
  /\ day <= end + 1 \/ day = start
  /\ complete <=> \A d \in start .. day - 1 : HoldsDay(spellCell, d)

SpellInv == SpellTypeOK /\ ReadSoFar /\ RunIsCurrent /\ BestIsLongest

(* A day has no answer exactly when the log does not hold it. *)
LEMMA UnknownIsNotHeld ==
  ASSUME NEW c \in Cells, NEW d \in Nat
  PROVE  DayStateOf(c, d) # Unknown <=> HoldsDay(c, d)
BY LogLenAssumption DEF DayStateOf, Cells, RingSlot, RingSlots, DayStates, Unknown

(* The dry days of a log are the days it answers "dry" for. *)
LEMMA DryIsHeld ==
  ASSUME NEW c \in Cells, NEW d \in Nat
  PROVE  d \in DryDays(c) <=> DayStateOf(c, d) = "Dry"
BY DEF DryDays, DayStateOf, HoldsDay, Cells, NoDay, Unknown

(* The loop starts with nothing read. *)
LEMMA SpellInitInv == SpellInit => SpellInv
BY DrySpellAssumption
   DEF SpellInit, SpellInv, SpellTypeOK, ReadSoFar, RunIsCurrent, BestIsLongest, HasDrySpell

(* Reading one more day keeps the loop invariant. *)
LEMMA ReadInv == SpellInv /\ ReadDay => SpellInv'
<1> SUFFICES ASSUME SpellInv, ReadDay PROVE SpellInv'
  OBVIOUS
<1> DEFINE dry == DryDays(spellCell)
<1>0. /\ SpellTypeOK /\ ReadSoFar /\ RunIsCurrent /\ BestIsLongest
      /\ day <= end /\ day' = day + 1 /\ UNCHANGED <<spellCell, start, end>>
      /\ complete' = (complete /\ DayStateOf(spellCell, day) # Unknown)
  BY DEF SpellInv, ReadDay, arguments
<1>1. SpellTypeOK'
  BY <1>0 DEF ReadDay, SpellTypeOK
<1>2. ReadSoFar'
  <2>1. complete' <=> \A d \in start .. day : HoldsDay(spellCell, d)
    <3>1. complete <=> \A d \in start .. day - 1 : HoldsDay(spellCell, d)
      BY <1>0 DEF ReadSoFar
    <3>2. spellCell \in Cells /\ day \in Nat /\ start \in Nat /\ start <= day
      BY <1>0 DEF SpellTypeOK, ReadSoFar
    <3>3. complete' <=> complete /\ HoldsDay(spellCell, day)
      BY <1>0, <3>2, UnknownIsNotHeld
    <3>4. start .. day = (start .. day - 1) \cup {day}
      BY <3>2
    <3> QED BY <3>1, <3>3, <3>4
  <2> QED BY <1>0, <2>1 DEF SpellTypeOK, ReadSoFar
<1>a. day \in Nat /\ start \in Nat /\ start <= day /\ run \in Nat /\ best \in Nat /\ best' \in Nat
  BY <1>0, <1>1 DEF SpellTypeOK, ReadSoFar
<1>b. /\ best > 0 => HasDrySpell(dry, start, day - 1, best)
      /\ ~HasDrySpell(dry, start, day - 1, best + 1)
  BY <1>0 DEF BestIsLongest
<1>c. /\ run <= day - start
      /\ day - run .. day - 1 \subseteq dry
      /\ day - run - 1 \in start .. day - 1 => day - run - 1 \notin dry
  BY <1>0 DEF RunIsCurrent
<1>d. /\ DryDays(spellCell') = dry
      /\ day' = day + 1 /\ start' = start
      /\ day \in dry <=> DayStateOf(spellCell, day) = "Dry"
  BY <1>0, <1>a, DryIsHeld DEF SpellTypeOK
<1>e. best > 0 => HasDrySpell(dry, start, day, best)
  BY <1>a, <1>b, SpellStays
<1> HIDE DEF dry
<1>3. CASE day \in dry
  <2>1. run' = run + 1 /\ best' = IF run + 1 > best THEN run + 1 ELSE best
    BY <1>0, <1>3, <1>d DEF ReadDay
  <2>2. RunIsCurrent'
    BY <1>3, <1>a, <1>c, <1>d, <2>1 DEF RunIsCurrent
  <2>3. HasDrySpell(dry, start, day, run + 1)
    <3>1. /\ day - run \in start .. day
          /\ (day - run) + (run + 1) - 1 = day
          /\ day - run .. day \subseteq dry
      BY <1>3, <1>a, <1>c
    <3> QED BY <3>1, <1>a DEF HasDrySpell
  <2>4. ~HasDrySpell(dry, start, day, best' + 1)
    \* A longer run ending today would reach past the day that began this one.
    <3>1. ASSUME NEW d \in start .. day, d + best' = day, d .. day \subseteq dry
          PROVE  FALSE
      <4>1. day - run - 1 \in start .. day - 1 /\ day - run - 1 \in d .. day
        BY <1>a, <2>1, <3>1
      <4> QED BY <4>1, <3>1, <1>c
    <3>2. best <= best'
      BY <1>a, <2>1
    <3>3. \A d \in start .. day : d + best' = day => ~(d .. day \subseteq dry)
      BY <3>1
    <3> DEFINE b == best'
    <3>4. b \in Nat /\ best <= b /\ \A d \in start .. day : d + b = day => ~(d .. day \subseteq dry)
      BY <3>2, <3>3, <1>a
    <3> HIDE DEF b
    <3>5. ~HasDrySpell(dry, start, day, b + 1)
      BY <3>4, <1>a, <1>b, NoLongerSpell
    <3> QED BY <3>5 DEF b
  <2>5. BestIsLongest'
    <3>1. day' - 1 = day
      BY <1>a, <1>d
    <3> QED BY <1>d, <1>e, <2>1, <2>3, <2>4, <3>1 DEF BestIsLongest
  <2> QED BY <1>1, <1>2, <2>2, <2>5 DEF SpellInv
<1>4. CASE day \notin dry
  <2>1. run' = 0 /\ best' = best
    BY <1>0, <1>4, <1>d DEF ReadDay
  <2>2. RunIsCurrent'
    BY <1>4, <1>a, <1>d, <2>1 DEF RunIsCurrent
  <2>3. ~HasDrySpell(dry, start, day, best + 1)
    <3>1. \A d \in start .. day : d + best = day => ~(d .. day \subseteq dry)
      BY <1>4, <1>a
    <3> QED BY <3>1, <1>a, <1>b, NoLongerSpell
  <2>4. BestIsLongest'
    <3>1. day' - 1 = day
      BY <1>a, <1>d
    <3> QED BY <1>d, <1>e, <2>1, <2>3, <3>1 DEF BestIsLongest
  <2> QED BY <1>1, <1>2, <2>2, <2>4 DEF SpellInv
<1> QED BY <1>3, <1>4

(* The loop invariant holds at every turn of the loop. *)
THEOREM LoopInvariant == SpellSpec => []SpellInv
<1>1. SpellInv /\ [SpellNext]_spellVars => SpellInv'
  <2>1. SpellInv /\ UNCHANGED spellVars => SpellInv'
    BY DEF spellVars, SpellInv, SpellTypeOK, ReadSoFar, RunIsCurrent, BestIsLongest
  <2> QED BY <2>1, ReadInv DEF SpellNext
<1> QED BY <1>1, SpellInitInv, PTL DEF SpellSpec

(* When the loop ends it has read the window and nothing else. *)
LEMMA WindowIsRead ==
  ASSUME SpellInv, Done
  PROVE  start .. day - 1 = start .. end
BY DEF SpellInv, Done, SpellTypeOK, ReadSoFar

(* The longest run of the loop reaches a threshold exactly when the window *)
(* holds a dry spell that long: the settlement guard of Policies is the    *)
(* one the code evaluates.                                                 *)
THEOREM LoopSettlesOnTheSpell == SpellSpec => []SettlesOnTheSpell
<1>1. SpellInv => SettlesOnTheSpell
  <2> SUFFICES ASSUME SpellInv, Done, NEW n \in 1 .. end + 1
               PROVE  best >= n <=> HasDrySpell(DryDays(spellCell), start, end, n)
    BY DEF SettlesOnTheSpell
  <2> DEFINE dry == DryDays(spellCell)
  <2>0. n \in Nat \ {0} /\ best \in Nat /\ start \in Nat /\ end \in Nat /\ day \in Nat
    BY DEF SpellInv, SpellTypeOK
  <2>1. best > 0 => HasDrySpell(dry, start, day - 1, best)
    BY DEF SpellInv, BestIsLongest
  <2>2. ~HasDrySpell(dry, start, day - 1, best + 1)
    BY DEF SpellInv, BestIsLongest
  <2>3. HasDrySpell(dry, start, day - 1, n) <=> HasDrySpell(dry, start, end, n)
    <3>1. start .. day - 1 = start .. end /\ (day = end + 1 \/ start .. end = {})
      BY <2>0, WindowIsRead DEF SpellInv, ReadSoFar, Done
    <3> HIDE DEF dry
    <3>2. CASE day = end + 1
      <4>1. day - 1 = end
        BY <2>0, <3>2
      <4> QED BY <4>1
    <3>3. CASE start .. end = {}
      BY <3>1, <3>3 DEF HasDrySpell
    <3> QED BY <3>1, <3>2, <3>3
  <2> HIDE DEF dry
  <2>4. ASSUME best >= n PROVE HasDrySpell(dry, start, day - 1, n)
    BY <2>0, <2>1, <2>4, ShorterSpell
  <2>5. ASSUME HasDrySpell(dry, start, day - 1, n) PROVE best >= n
    <3>1. CASE best + 1 <= n
      <4>1. day - 1 \in Int /\ best + 1 \in Nat \ {0}
        BY <2>0
      <4>2. HasDrySpell(dry, start, day - 1, best + 1)
        BY <2>0, <2>5, <3>1, <4>1, ShorterSpell
      <4> QED BY <4>2, <2>2
    <3> QED BY <3>1, <2>0
  <2> QED BY <2>3, <2>4, <2>5 DEF dry
<1> QED BY <1>1, LoopInvariant, PTL

(* The loop calls a window complete exactly when the log answers for every *)
(* day of it: the closure guard of Policies is the one the code evaluates. *)
THEOREM LoopClosesOnACompleteWindow == SpellSpec => []ClosesOnACompleteWindow
<1>1. SpellInv => ClosesOnACompleteWindow
  BY WindowIsRead DEF SpellInv, ReadSoFar, ClosesOnACompleteWindow, IsComplete
<1> QED BY <1>1, LoopInvariant, PTL

(* One pass of spell_in_window answers settlement and closure alike.       *)
THEOREM LoopAnswersForTheWindow == SpellSpec => []AnswersForTheWindow
BY LoopSettlesOnTheSpell, LoopClosesOnACompleteWindow, PTL DEF AnswersForTheWindow

-----------------------------------------------------------------------------
(***************************************************************************)
(* The sensors.                                                            *)
(*                                                                         *)
(* The invariant relates three copies of where a sensor is: the chain's    *)
(* row, the worker's mirror of it, which may be a move or a reinstatement  *)
(* behind, and the slots reinstatements dropped.  It is stated of a chain  *)
(* c, a mirror m, dropped slots d and requests a, so that a transaction of *)
(* two calls is the same lemma twice.                                      *)
(***************************************************************************)
DayOrNever == Nat \cup {Never}

Row ==
  [operator : Wallets, cellId : SensorCells, slotInCell : Slot,
   previousCellId : SensorCells, previousSlot : Slot, movedAt : DayOrNever,
   stake : Nat, unstaking : Nat, unlockAtDay : DayOrNever, active : BOOLEAN]

MirrorRow ==
  [operator : Wallets, cellId : SensorCells, slotInCell : Slot,
   previousCellId : SensorCells, previousSlot : Slot, movedAt : DayOrNever,
   stake : Nat, active : BOOLEAN]

SlotRecord == [judged : SUBSET Int, outliers : SUBSET Int]

Chains ==
  [today : Nat, sensors : UNION {[D -> Row] : D \in SUBSET SensorKeys},
   taken : [SensorCells -> 0 .. SlotsPerCell], lastDay : [SensorCells -> DayOrNever],
   record : [SensorCells -> [Slot -> SlotRecord]], accrued : [SensorCells -> [Slot -> Nat]],
   vault : Int]

Mirrors == UNION {[D -> MirrorRow] : D \in SUBSET SensorKeys}

PageCalls ==
  {CallIn(name, key, wallet, cellId) :
     name \in {"register", "move", "claim"}, key \in SensorKeys, wallet \in Wallets, cellId \in SensorCells}
  \cup {CallFor("stake", key, wallet, amount) : key \in SensorKeys, wallet \in Wallets, amount \in Nat \ {0}}

PageTransactions == {<<one>> : one \in PageCalls} \cup {<<one, two>> : one \in PageCalls, two \in PageCalls}

(* A sensor's places, without the pairs of SlotsOf.                        *)
IsHeldAt(s, site, slot) == s.cellId = site /\ s.slotInCell = slot
WasAt(s, site, slot)    == s.previousCellId = site /\ s.previousSlot = slot
Has(s, site, slot)      == IsHeldAt(s, site, slot) \/ WasAt(s, site, slot)

(* Every slot given out has one owner, and one not given out is as new.    *)
SlotsFine(c) ==
  /\ \A j, k \in DOMAIN c.sensors : j # k =>
       \A site \in SensorCells, slot \in Slot :
         ~(Has(c.sensors[j], site, slot) /\ Has(c.sensors[k], site, slot))
  /\ \A site \in SensorCells, slot \in Slot : slot >= c.taken[site] =>
       c.record[site][slot] = NoRecord /\ c.accrued[site][slot] = 0
  /\ \A k \in DOMAIN c.sensors : \A site \in SensorCells, slot \in Slot :
       Has(c.sensors[k], site, slot) => slot < c.taken[site]

(* A sensor with two places has moved, and to another cell.                *)
MovesFine(c) ==
  \A k \in DOMAIN c.sensors :
    LET s == c.sensors[k] IN
    /\ ~IsHeldAt(s, s.previousCellId, s.previousSlot) => s.previousCellId # s.cellId /\ s.movedAt # Never
    /\ s.movedAt <= c.today

(* The vault holds the stakes and what is leaving them. *)
StakesFine(c) ==
  /\ IsFiniteSet(DOMAIN c.sensors)
  /\ c.vault = SumFunction([k \in DOMAIN c.sensors |-> c.sensors[k].stake + c.sensors[k].unstaking])

(* What is leaving is due a whole delay after it was last asked for.       *)
ThawFine(c, a) ==
  \A k \in DOMAIN c.sensors : c.sensors[k].unstaking > 0 =>
    a[k] # Never /\ c.sensors[k].unlockAtDay = a[k] + UnstakeDelay

(* A place of the mirror's row that the sensor has left for good: the day  *)
(* it left it is too old to be recorded now.                               *)
LeftLongAgo(r, site, slot, now) ==
  r.movedAt # Never /\ r.movedAt + OutlierWindow + 1 <= now /\ ~IsHeldAt(r, site, slot)

(* The mirror knows where a sensor is unless it moved today, and each      *)
(* place it still believes in is the sensor's, was dropped, or was left    *)
(* too long ago to be judged.                                              *)
MirrorFine(c, m, d) ==
  \A k \in DOMAIN m :
    /\ k \in DOMAIN c.sensors
    /\ \/ c.sensors[k].movedAt = c.today
       \/ m[k].movedAt = c.sensors[k].movedAt /\ IsHeldAt(m[k], c.sensors[k].cellId, c.sensors[k].slotInCell)
    /\ \A site \in SensorCells, slot \in Slot : Has(m[k], site, slot) =>
         /\ slot < c.taken[site]
         /\ Has(c.sensors[k], site, slot) \/ <<site, slot>> \in d \/ LeftLongAgo(m[k], site, slot, c.today)

(* Every earning has somebody who can claim it, or was dropped. *)
EarningsFine(c, d) ==
  \A site \in SensorCells, slot \in Slot : c.accrued[site][slot] > 0 =>
    (\E k \in DOMAIN c.sensors : Has(c.sensors[k], site, slot)) \/ <<site, slot>> \in d

(* No day is recorded later than the worker is allowed to be, and a ring   *)
(* that no day has opened holds no record.                                 *)
RecordsFine(c) ==
  \A site \in SensorCells :
    /\ c.lastDay[site] + MaxLate + 1 >= c.today
    /\ ~RingIsOpen(c, site) => \A slot \in Slot : c.record[site][slot] = NoRecord

(* All that no call of a page disturbs; EarningsFine is apart, because it  *)
(* needs days to be recorded before their sensor can move twice.           *)
Fine(c, m, d, a) ==
  /\ c \in Chains
  /\ SlotsFine(c)
  /\ MovesFine(c)
  /\ StakesFine(c)
  /\ ThawFine(c, a)
  /\ MirrorFine(c, m, d)
  /\ RecordsFine(c)

SensorsInv ==
  /\ Fine(chain, mirror, dropped, askedOn)
  /\ mirror \in Mirrors
  /\ sent \subseteq PageTransactions
  /\ askedOn \in [SensorKeys -> DayOrNever]

EarningsInv == EarningsFine(chain, dropped)

-----------------------------------------------------------------------------
(***************************************************************************)
(* Places and pairs.                                                       *)
(***************************************************************************)
USE DEF Never

(* A sensor holds exactly the slots it has.                                *)
LEMMA PlacesOf ==
  ASSUME NEW s
  PROVE  /\ \A site, slot : <<site, slot>> \in SlotsOf(s) <=> Has(s, site, slot)
         /\ \A site, slot : <<site, slot>> \in Previous(s) <=> WasAt(s, site, slot) /\ ~IsHeldAt(s, site, slot)
         /\ \A at \in SlotsOf(s) : at = <<at[1], at[2]>>
         /\ Previous(s) \subseteq SlotsOf(s)
         /\ Previous(s) = {} \/ Previous(s) = {<<s.previousCellId, s.previousSlot>>}
BY DEF SlotsOf, Held, Previous, Has, IsHeldAt, WasAt

(* What a row and a chain are made of.                                     *)
LEMMA RowType ==
  ASSUME NEW c \in Chains, NEW k \in DOMAIN c.sensors
  PROVE  /\ k \in SensorKeys /\ c.sensors[k] \in Row
         /\ c.sensors[k].cellId \in SensorCells /\ c.sensors[k].slotInCell \in Slot
         /\ c.sensors[k].previousCellId \in SensorCells /\ c.sensors[k].previousSlot \in Slot
         /\ c.sensors[k].movedAt \in DayOrNever
         /\ c.sensors[k].stake \in Nat /\ c.sensors[k].unstaking \in Nat
         /\ c.sensors[k].active \in BOOLEAN
<1>1. c.sensors \in UNION {[D -> Row] : D \in SUBSET SensorKeys}
  BY DEF Chains
<1>2. PICK D \in SUBSET SensorKeys : c.sensors \in [D -> Row]
  BY <1>1
<1>3. k \in SensorKeys /\ c.sensors[k] \in Row
  BY <1>2
<1> QED BY <1>3 DEF Row

(* The places of a row on chain are places.                                *)
LEMMA PlacesArePlaces ==
  ASSUME NEW c \in Chains, NEW k \in DOMAIN c.sensors
  PROVE  SlotsOf(c.sensors[k]) \subseteq SensorCells \X Slot
BY RowType DEF SlotsOf, Held, Previous

(* A change to one row leaves the rows rows.                               *)
LEMMA RowsType ==
  ASSUME NEW c \in Chains, NEW k \in DOMAIN c.sensors, NEW r \in Row
  PROVE  /\ [c.sensors EXCEPT ![k] = r] \in UNION {[D -> Row] : D \in SUBSET SensorKeys}
         /\ DOMAIN [c.sensors EXCEPT ![k] = r] = DOMAIN c.sensors
         /\ [c.sensors EXCEPT ![k] = r][k] = r
         /\ \A j \in DOMAIN c.sensors : j # k => [c.sensors EXCEPT ![k] = r][j] = c.sensors[j]
<1>1. c.sensors \in UNION {[D -> Row] : D \in SUBSET SensorKeys}
  BY DEF Chains
<1>2. PICK D \in SUBSET SensorKeys : c.sensors \in [D -> Row]
  BY <1>1
<1>3. [c.sensors EXCEPT ![k] = r] \in [D -> Row]
  BY <1>2
<1> QED BY <1>2, <1>3

(* The registry with one row rewritten. *)
SetsRow(c, x, k, r) == x.sensors = [c.sensors EXCEPT ![k] = r]

LEMMA SetRowType ==
  ASSUME NEW c \in Chains, NEW k \in DOMAIN c.sensors, NEW r \in Row, NEW x, SetsRow(c, x, k, r)
  PROVE  x.sensors \in UNION {[D -> Row] : D \in SUBSET SensorKeys}
<1>1. [c.sensors EXCEPT ![k] = r] \in UNION {[D -> Row] : D \in SUBSET SensorKeys}
  BY RowsType, Zenon
<1> QED BY <1>1, Zenon DEF SetsRow

-----------------------------------------------------------------------------
(***************************************************************************)
(* The stakes: one row's stake changes, and the vault by as much.          *)
(***************************************************************************)
LEMMA StakesOfOneRow ==
  ASSUME NEW c \in Chains, StakesFine(c), NEW k \in DOMAIN c.sensors, NEW r \in Row, NEW x,
         x.sensors = [c.sensors EXCEPT ![k] = r],
         x.vault = c.vault - (c.sensors[k].stake + c.sensors[k].unstaking) + (r.stake + r.unstaking)
  PROVE  StakesFine(x)
<1> DEFINE S == DOMAIN c.sensors
           f == [j \in S |-> c.sensors[j].stake + c.sensors[j].unstaking]
           g == [j \in S |-> x.sensors[j].stake + x.sensors[j].unstaking]
<1>1. DOMAIN x.sensors = S /\ x.sensors[k] = r /\ \A j \in S : j # k => x.sensors[j] = c.sensors[j]
  BY RowsType
<1>2. \A j \in S : f[j] \in Nat /\ g[j] \in Nat /\ (j # k => g[j] = f[j])
  <2>1. r.stake \in Nat /\ r.unstaking \in Nat
    BY DEF Row
  <2>2. \A j \in S : c.sensors[j].stake \in Nat /\ c.sensors[j].unstaking \in Nat
    BY RowType
  <2> QED BY <1>1, <2>1, <2>2
<1>3. IsFiniteSet(S) /\ c.vault = SumFunctionOnSet(f, S)
  BY DEF StakesFine, SumFunction
<1>4. f[k] = c.sensors[k].stake + c.sensors[k].unstaking /\ g[k] = r.stake + r.unstaking
  BY <1>1
<1>5. SumFunctionOnSet(g, S) = SumFunctionOnSet(f, S) - f[k] + g[k]
  <2> HIDE DEF f, g, S
  <2>1. k \in S
    BY DEF S
  <2>2. (\A y \in S : f[y] \in Nat /\ g[y] \in Nat) /\ (\A y \in S \ {k} : g[y] = f[y]) /\ IsFiniteSet(S)
    BY <1>2, <1>3
  <2> QED BY <2>1, <2>2, SumChanges
<1>6. x.vault = SumFunctionOnSet(g, S)
  <2> HIDE DEF f, g, S
  <2> QED BY <1>3, <1>4, <1>5
<1>7. g = [j \in DOMAIN x.sensors |-> x.sensors[j].stake + x.sensors[j].unstaking] /\ DOMAIN g = S
  BY <1>1
<1> QED BY <1>1, <1>3, <1>6, <1>7 DEF StakesFine, SumFunction

(* The stakes and the rows the same, the vault is too.                     *)
LEMMA StakesOfTheSame ==
  ASSUME NEW c, NEW x, StakesFine(c), x.vault = c.vault, DOMAIN x.sensors = DOMAIN c.sensors,
         \A k \in DOMAIN c.sensors : /\ x.sensors[k].stake = c.sensors[k].stake
                                     /\ x.sensors[k].unstaking = c.sensors[k].unstaking
  PROVE  StakesFine(x)
<1>1. [k \in DOMAIN x.sensors |-> x.sensors[k].stake + x.sensors[k].unstaking]
        = [k \in DOMAIN c.sensors |-> c.sensors[k].stake + c.sensors[k].unstaking]
  OBVIOUS
<1> QED BY <1>1 DEF StakesFine

(* A new sensor has no stake yet.                                          *)
LEMMA StakesOfANewRow ==
  ASSUME NEW c \in Chains, StakesFine(c), NEW k, k \notin DOMAIN c.sensors, NEW x,
         x.vault = c.vault, DOMAIN x.sensors = DOMAIN c.sensors \cup {k},
         x.sensors[k].stake = 0, x.sensors[k].unstaking = 0,
         \A j \in DOMAIN c.sensors : x.sensors[j] = c.sensors[j]
  PROVE  StakesFine(x)
<1> DEFINE S == DOMAIN c.sensors
           f == [j \in S |-> c.sensors[j].stake + c.sensors[j].unstaking]
           g == [j \in S \cup {k} |-> x.sensors[j].stake + x.sensors[j].unstaking]
<1>1. \A j \in S : f[j] \in Nat /\ g[j] = f[j]
  BY RowType
<1>2. g[k] = 0
  OBVIOUS
<1>3. IsFiniteSet(S) /\ c.vault = SumFunctionOnSet(f, S)
  BY DEF StakesFine, SumFunction
<1>4. SumFunctionOnSet(g, S \cup {k}) = SumFunctionOnSet(f, S) /\ IsFiniteSet(S \cup {k})
  <2>0. k \notin S
    OBVIOUS
  <2> HIDE DEF f, g, S
  <2>1. SumFunctionOnSet(g, S \cup {k}) = g[k] + SumFunctionOnSet(g, S)
    <3>1. \A y \in S \cup {k} : g[y] \in Nat
      BY <1>1, <1>2
    <3> QED BY <1>3, <2>0, <3>1, SumOfOneMore
  <2>2. SumFunctionOnSet(g, S) = SumFunctionOnSet(f, S) /\ SumFunctionOnSet(f, S) \in Nat
    BY <1>1, <1>3, SumOfTheSame, SumType
  <2> QED BY <1>2, <1>3, <2>1, <2>2, FS_AddElement
<1>5. g = [j \in DOMAIN x.sensors |-> x.sensors[j].stake + x.sensors[j].unstaking] /\ DOMAIN g = S \cup {k}
  OBVIOUS
<1> QED BY <1>3, <1>4, <1>5 DEF StakesFine, SumFunction

-----------------------------------------------------------------------------
(***************************************************************************)
(* Calls that leave every sensor where it is.                              *)
(***************************************************************************)
SamePlace(r, s) ==
  /\ r.cellId = s.cellId /\ r.slotInCell = s.slotInCell
  /\ r.previousCellId = s.previousCellId /\ r.previousSlot = s.previousSlot
  /\ r.movedAt = s.movedAt

(* What holds of the places alone.                                         *)
PlacesFine(c, m, d) == SlotsFine(c) /\ MovesFine(c) /\ MirrorFine(c, m, d) /\ RecordsFine(c)

LEMMA InPlace ==
  ASSUME NEW c \in Chains, NEW x \in Chains, NEW m, NEW d, PlacesFine(c, m, d),
         x.today = c.today, x.taken = c.taken, x.lastDay = c.lastDay, x.record = c.record,
         \A site \in SensorCells, slot \in Slot :
           x.accrued[site][slot] = c.accrued[site][slot] \/ x.accrued[site][slot] = 0,
         DOMAIN x.sensors = DOMAIN c.sensors,
         \A k \in DOMAIN c.sensors : SamePlace(x.sensors[k], c.sensors[k])
  PROVE  PlacesFine(x, m, d) /\ (EarningsFine(c, d) => EarningsFine(x, d))
<1>1. \A k \in DOMAIN c.sensors : \A site, slot :
        /\ Has(x.sensors[k], site, slot) <=> Has(c.sensors[k], site, slot)
        /\ IsHeldAt(x.sensors[k], site, slot) <=> IsHeldAt(c.sensors[k], site, slot)
  BY DEF SamePlace, Has, IsHeldAt, WasAt
<1>2. SlotsFine(x)
  <2>1. SlotsFine(c)
    BY DEF PlacesFine
  <2>2. \A i, j \in DOMAIN x.sensors : i # j =>
          \A site \in SensorCells, slot \in Slot :
            ~(Has(x.sensors[i], site, slot) /\ Has(x.sensors[j], site, slot))
    BY <1>1, <2>1 DEF SlotsFine
  <2>3. \A site \in SensorCells, slot \in Slot : slot >= x.taken[site] =>
          x.record[site][slot] = NoRecord /\ x.accrued[site][slot] = 0
    BY <2>1 DEF SlotsFine
  <2>4. \A k \in DOMAIN x.sensors : \A site \in SensorCells, slot \in Slot :
          Has(x.sensors[k], site, slot) => slot < x.taken[site]
    BY <1>1, <2>1 DEF SlotsFine
  <2> QED BY <2>2, <2>3, <2>4 DEF SlotsFine
<1>3. MovesFine(x)
  BY <1>1 DEF MovesFine, PlacesFine, SamePlace
<1>4. MirrorFine(x, m, d)
  BY <1>1 DEF MirrorFine, PlacesFine, SamePlace
<1>5. RecordsFine(x)
  BY DEF RecordsFine, RingIsOpen, PlacesFine
<1>6. EarningsFine(c, d) => EarningsFine(x, d)
  BY <1>1 DEF EarningsFine
<1> QED BY <1>2, <1>3, <1>4, <1>5, <1>6 DEF PlacesFine

-----------------------------------------------------------------------------
(***************************************************************************)
(* Calls that give a slot: register_sensor and move_sensor.                *)
(***************************************************************************)

(* What is unclaimed is what the slot a sensor has left still has.         *)
LEMMA UnclaimedIs ==
  ASSUME NEW c \in Chains, NEW s, NEW site \in SensorCells, NEW slot \in Slot,
         WasAt(s, site, slot)
  PROVE  Unclaimed(c, s) = IF IsHeldAt(s, site, slot) THEN 0 ELSE c.accrued[site][slot]
<1> DEFINE at == <<site, slot>>
           f  == [y \in Previous(s) |-> c.accrued[y[1]][y[2]]]
<1>1. CASE IsHeldAt(s, site, slot)
  <2>1. Previous(s) = {}
    BY <1>1 DEF Previous, Held, WasAt, IsHeldAt
  <2>2. SumFunctionOnSet(f, {}) = 0
    BY SumOfNone
  <2> QED BY <1>1, <2>1, <2>2 DEF Unclaimed
<1>2. CASE ~IsHeldAt(s, site, slot)
  <2>1. Previous(s) = {at}
    BY <1>2, PlacesOf DEF WasAt
  <2>2. f[at] = c.accrued[site][slot] /\ f[at] \in Nat
    BY <2>1 DEF Chains
  <2>3. SumFunctionOnSet(f, {at}) = f[at]
    <3> HIDE DEF f, at
    <3> QED BY <2>2, SumOfOne
  <2>4. Unclaimed(c, s) = SumFunctionOnSet(f, {at})
    BY <2>1 DEF Unclaimed
  <2> HIDE DEF f, at
  <2> QED BY <1>2, <2>2, <2>3, <2>4
<1> QED BY <1>1, <1>2

(* Nothing unclaimed: the slot a sensor is about to lose has no earnings.  *)
LEMMA NothingUnclaimed ==
  ASSUME NEW c \in Chains, NEW k \in DOMAIN c.sensors, Unclaimed(c, c.sensors[k]) = 0,
         NEW site \in SensorCells, NEW slot \in Slot,
         WasAt(c.sensors[k], site, slot), ~IsHeldAt(c.sensors[k], site, slot)
  PROVE  c.accrued[site][slot] = 0
BY UnclaimedIs

(* A slot is given while there are any.                                    *)
LEMMA SlotIsGiven ==
  ASSUME NEW c \in Chains, NEW site \in SensorCells, NEW slot \in NextSlot(c, site)
  PROVE  slot = c.taken[site] /\ slot \in Slot /\ c.taken[site] + 1 \in 0 .. SlotsPerCell
BY RegistryAssumption DEF NextSlot, Chains, Slot

(* The row of a sensor that has moved, and the chain that has it. *)
MovedRow(s, site, slot, now) ==
  [s EXCEPT !.cellId = site, !.slotInCell = slot, !.movedAt = now,
            !.previousCellId = s.cellId, !.previousSlot = s.slotInCell]
MovedChain(c, k, site, r) == [c EXCEPT !.taken[site] = @ + 1, !.sensors[k] = r]

(* A sensor that moves takes a slot nobody had, keeps the one it leaves,   *)
(* and lets go of the one it had left before.                              *)
LEMMA MoveKeepsPlaces ==
  ASSUME NEW c \in Chains, NEW m, NEW d, PlacesFine(c, m, d),
         NEW k \in DOMAIN c.sensors, NEW site \in SensorCells,
         NEW slot \in NextSlot(c, site), CheckMove(c, c.sensors[k], site),
         NEW r, r = MovedRow(c.sensors[k], site, slot, c.today),
         NEW x, x = MovedChain(c, k, site, r)
  PROVE  /\ r \in Row
         /\ x \in Chains
         /\ PlacesFine(x, m, d)
         /\ EarningsFine(c, d) => EarningsFine(x, d)
<1> DEFINE s == c.sensors[k]
<1>1. slot = c.taken[site] /\ slot \in Slot /\ c.taken[site] + 1 \in 0 .. SlotsPerCell
  BY SlotIsGiven
<1>2. s \in Row /\ c.today \in Nat
  BY RowType DEF Chains
<1>3. /\ r \in Row
      /\ r.cellId = site /\ r.slotInCell = slot /\ r.movedAt = c.today
      /\ r.previousCellId = s.cellId /\ r.previousSlot = s.slotInCell
  BY <1>1, <1>2 DEF Row, DayOrNever, MovedRow
<1>4. /\ x.sensors = [c.sensors EXCEPT ![k] = r]
      /\ x.taken = [c.taken EXCEPT ![site] = @ + 1]
      /\ x.today = c.today /\ x.lastDay = c.lastDay /\ x.record = c.record /\ x.accrued = c.accrued
      /\ x.vault = c.vault
  BY DEF Chains, MovedChain
<1>5. x.taken \in [SensorCells -> 0 .. SlotsPerCell]
  BY <1>1, <1>4 DEF Chains
<1>6. x \in Chains
  <2>1. SetsRow(c, x, k, r)
    BY <1>4 DEF SetsRow
  <2>2. x.sensors \in UNION {[D -> Row] : D \in SUBSET SensorKeys}
    BY <1>3, <2>1, SetRowType
  <2> QED BY <1>5, <2>2 DEF Chains, MovedChain
<1>7. /\ DOMAIN x.sensors = DOMAIN c.sensors /\ x.sensors[k] = r
      /\ \A j \in DOMAIN c.sensors : j # k => x.sensors[j] = c.sensors[j]
  BY <1>3, <1>4, RowsType
<1>8. \A cc, ss : Has(r, cc, ss) <=> (cc = site /\ ss = slot) \/ IsHeldAt(s, cc, ss)
  BY <1>3 DEF Has, IsHeldAt, WasAt
<1>9. \A cc \in SensorCells, ss \in Slot :
        /\ c.taken[cc] <= x.taken[cc] /\ (cc # site => x.taken[cc] = c.taken[cc])
        /\ x.taken[site] = slot + 1 /\ c.taken[cc] \in Nat /\ x.taken[cc] \in Nat
  BY <1>1, <1>4, <1>5 DEF Chains
<1>10. SlotsFine(x)
  <2>1. ASSUME NEW i \in DOMAIN x.sensors, NEW j \in DOMAIN x.sensors, i # j,
               NEW cc \in SensorCells, NEW ss \in Slot,
               Has(x.sensors[i], cc, ss), Has(x.sensors[j], cc, ss)
        PROVE  FALSE
    <3>1. \A l \in DOMAIN c.sensors : Has(c.sensors[l], cc, ss) => ss < c.taken[cc]
      BY DEF PlacesFine, SlotsFine
    <3>2. ~(Has(c.sensors[i], cc, ss) /\ Has(c.sensors[j], cc, ss))
      BY <1>7, <2>1 DEF PlacesFine, SlotsFine
    <3>3. \A l \in DOMAIN c.sensors : Has(x.sensors[l], cc, ss) =>
            Has(c.sensors[l], cc, ss) \/ (l = k /\ cc = site /\ ss = slot)
      BY <1>7, <1>8 DEF Has
    <3>4. ~(slot < c.taken[site])
      BY <1>1 DEF Slot
    <3> QED BY <1>7, <2>1, <3>1, <3>2, <3>3, <3>4
  <2>2. ASSUME NEW cc \in SensorCells, NEW ss \in Slot, ss >= x.taken[cc]
        PROVE  x.record[cc][ss] = NoRecord /\ x.accrued[cc][ss] = 0
    <3>1. ss >= c.taken[cc]
      BY <1>9, <2>2 DEF Slot
    <3> QED BY <1>4, <3>1 DEF PlacesFine, SlotsFine
  <2>3. ASSUME NEW j \in DOMAIN x.sensors, NEW cc \in SensorCells, NEW ss \in Slot, Has(x.sensors[j], cc, ss)
        PROVE  ss < x.taken[cc]
    <3>1. Has(c.sensors[j], cc, ss) \/ (cc = site /\ ss = slot)
      BY <1>7, <1>8, <2>3 DEF Has
    <3>2. Has(c.sensors[j], cc, ss) => ss < c.taken[cc]
      BY <1>7 DEF PlacesFine, SlotsFine
    <3> QED BY <1>9, <3>1, <3>2 DEF Slot
  <2> QED BY <2>1, <2>2, <2>3 DEF SlotsFine
<1>11. MovesFine(x)
  BY <1>2, <1>3, <1>4, <1>7 DEF MovesFine, PlacesFine, CheckMove, IsHeldAt
<1>12. MirrorFine(x, m, d)
  <2> SUFFICES ASSUME NEW j \in DOMAIN m
               PROVE  /\ j \in DOMAIN x.sensors
                      /\ \/ x.sensors[j].movedAt = x.today
                         \/ /\ m[j].movedAt = x.sensors[j].movedAt
                            /\ IsHeldAt(m[j], x.sensors[j].cellId, x.sensors[j].slotInCell)
                      /\ \A cc \in SensorCells, ss \in Slot : Has(m[j], cc, ss) =>
                           /\ ss < x.taken[cc]
                           /\ \/ Has(x.sensors[j], cc, ss) \/ <<cc, ss>> \in d
                              \/ LeftLongAgo(m[j], cc, ss, x.today)
    BY DEF MirrorFine
  <2>1. /\ j \in DOMAIN c.sensors
        /\ \/ c.sensors[j].movedAt = c.today
           \/ /\ m[j].movedAt = c.sensors[j].movedAt
              /\ IsHeldAt(m[j], c.sensors[j].cellId, c.sensors[j].slotInCell)
        /\ \A cc \in SensorCells, ss \in Slot : Has(m[j], cc, ss) =>
             /\ ss < c.taken[cc]
             /\ \/ Has(c.sensors[j], cc, ss) \/ <<cc, ss>> \in d
                \/ LeftLongAgo(m[j], cc, ss, c.today)
    BY DEF MirrorFine, PlacesFine
  <2>2. \A cc \in SensorCells, ss \in Slot : ss < c.taken[cc] => ss < x.taken[cc]
    BY <1>9 DEF Slot
  <2>3. CASE j # k
    BY <1>4, <1>7, <2>1, <2>2, <2>3
  <2>4. CASE j = k
    <3>1. s.movedAt # c.today /\ (s.movedAt # Never => s.movedAt + OutlierWindow + 1 <= c.today)
      BY <1>2, RegistryAssumption DEF CheckMove, Row, DayOrNever
    <3>2. m[k].movedAt = s.movedAt /\ IsHeldAt(m[k], s.cellId, s.slotInCell)
      BY <2>1, <2>4, <3>1
    <3>3. ASSUME NEW cc \in SensorCells, NEW ss \in Slot, Has(m[k], cc, ss)
          PROVE  Has(r, cc, ss) \/ <<cc, ss>> \in d \/ LeftLongAgo(m[k], cc, ss, c.today)
      <4>1. CASE IsHeldAt(s, cc, ss)
        BY <1>8, <4>1
      <4>2. CASE ~IsHeldAt(s, cc, ss) /\ Has(s, cc, ss)
        <5>1. s.movedAt # Never
          BY <4>2 DEF Has, WasAt, IsHeldAt, MovesFine, PlacesFine
        <5>2. ~IsHeldAt(m[k], cc, ss)
          BY <3>2, <4>2 DEF IsHeldAt
        <5> QED BY <3>1, <3>2, <5>1, <5>2 DEF LeftLongAgo
      <4>3. CASE ~Has(s, cc, ss)
        BY <2>1, <2>4, <3>3, <4>3
      <4> QED BY <4>1, <4>2, <4>3
    <3> QED BY <1>3, <1>4, <1>7, <2>1, <2>2, <2>4, <3>3
  <2> QED BY <2>3, <2>4
<1>13. RecordsFine(x)
  BY <1>4 DEF RecordsFine, RingIsOpen, PlacesFine
<1>14. EarningsFine(c, d) => EarningsFine(x, d)
  <2> SUFFICES ASSUME EarningsFine(c, d), NEW cc \in SensorCells, NEW ss \in Slot, x.accrued[cc][ss] > 0
               PROVE  (\E j \in DOMAIN x.sensors : Has(x.sensors[j], cc, ss)) \/ <<cc, ss>> \in d
    BY DEF EarningsFine
  <2>1. (\E j \in DOMAIN c.sensors : Has(c.sensors[j], cc, ss)) \/ <<cc, ss>> \in d
    BY <1>4 DEF EarningsFine
  <2>2. Has(s, cc, ss) => IsHeldAt(s, cc, ss)
    <3>1. Unclaimed(c, s) = 0
      BY DEF CheckMove
    <3>2. c.accrued[cc][ss] # 0
      BY <1>4
    <3> QED BY <3>1, <3>2, NothingUnclaimed DEF Has
  <2> QED BY <1>7, <1>8, <2>1, <2>2
<1> QED BY <1>3, <1>6, <1>10, <1>11, <1>12, <1>13, <1>14 DEF PlacesFine

(* The chain that has a new sensor. *)
RegisteredChain(c, call, slot) ==
  [c EXCEPT !.taken[call.cellId] = @ + 1,
            !.sensors = [j \in DOMAIN @ \cup {call.key} |->
                           IF j = call.key THEN NewSensor(call, slot) ELSE @[j]]]

(* A registration takes a slot nobody had, and no row of the mirror is     *)
(* about the sensor yet.                                                   *)
LEMMA RegisterKeepsPlaces ==
  ASSUME NEW c \in Chains, NEW m, NEW d, PlacesFine(c, m, d),
         NEW k \in SensorKeys, k \notin DOMAIN c.sensors, NEW wallet \in Wallets,
         NEW site \in SensorCells, NEW slot \in NextSlot(c, site),
         NEW call, call = CallIn("register", k, wallet, site),
         NEW r, r = NewSensor(call, slot),
         NEW x, x = RegisteredChain(c, call, slot)
  PROVE  /\ x \in Chains
         /\ x.vault = c.vault
         /\ DOMAIN x.sensors = DOMAIN c.sensors \cup {k} /\ x.sensors[k] = r
         /\ r.stake = 0 /\ r.unstaking = 0
         /\ \A j \in DOMAIN c.sensors : x.sensors[j] = c.sensors[j]
         /\ PlacesFine(x, m, d)
         /\ EarningsFine(c, d) => EarningsFine(x, d)
<1>1. slot = c.taken[site] /\ slot \in Slot /\ c.taken[site] + 1 \in 0 .. SlotsPerCell
  BY SlotIsGiven
<1>2. /\ r \in Row
      /\ r.cellId = site /\ r.slotInCell = slot /\ r.previousCellId = site /\ r.previousSlot = slot
      /\ r.movedAt = Never /\ r.stake = 0 /\ r.unstaking = 0
  BY <1>1 DEF Row, DayOrNever, NewSensor, CallIn
<1>3. /\ x.sensors = [j \in DOMAIN c.sensors \cup {k} |-> IF j = k THEN r ELSE c.sensors[j]]
      /\ x.taken = [c.taken EXCEPT ![site] = @ + 1]
      /\ x.today = c.today /\ x.lastDay = c.lastDay /\ x.record = c.record /\ x.accrued = c.accrued
      /\ x.vault = c.vault
      /\ x = [c EXCEPT !.taken = x.taken, !.sensors = x.sensors]
  <2>1. call.key = k /\ call.cellId = site
    BY DEF CallIn
  <2> QED BY <2>1 DEF Chains, RegisteredChain
<1>4. /\ DOMAIN x.sensors = DOMAIN c.sensors \cup {k} /\ x.sensors[k] = r
      /\ \A j \in DOMAIN c.sensors : x.sensors[j] = c.sensors[j]
      /\ x.sensors \in UNION {[D -> Row] : D \in SUBSET SensorKeys}
  <2>1. PICK D \in SUBSET SensorKeys : c.sensors \in [D -> Row]
    BY DEF Chains
  <2>2. x.sensors = [j \in D \cup {k} |-> IF j = k THEN r ELSE c.sensors[j]]
    BY <1>3, <2>1
  <2>3. x.sensors \in [D \cup {k} -> Row]
    BY <1>2, <2>1, <2>2
  <2> QED BY <2>1, <2>2, <2>3
<1>5. x.taken \in [SensorCells -> 0 .. SlotsPerCell]
  BY <1>1, <1>3 DEF Chains
<1>6. x \in Chains
  BY <1>3, <1>4, <1>5 DEF Chains
<1>7. \A cc, ss : Has(r, cc, ss) <=> cc = site /\ ss = slot
  BY <1>2 DEF Has, IsHeldAt, WasAt
<1>8. \A cc \in SensorCells, ss \in Slot :
        /\ c.taken[cc] <= x.taken[cc]
        /\ x.taken[site] = slot + 1 /\ c.taken[cc] \in Nat /\ x.taken[cc] \in Nat
  <2>1. \A cc \in SensorCells : c.taken[cc] \in Nat /\ x.taken[cc] \in Nat
    BY <1>5 DEF Chains
  <2>2. \A cc \in SensorCells : x.taken[cc] = IF cc = site THEN c.taken[cc] + 1 ELSE c.taken[cc]
    BY <1>3 DEF Chains
  <2> QED BY <1>1, <2>1, <2>2
<1>9. SlotsFine(x)
  <2>1. ASSUME NEW i \in DOMAIN x.sensors, NEW j \in DOMAIN x.sensors, i # j,
               NEW cc \in SensorCells, NEW ss \in Slot,
               Has(x.sensors[i], cc, ss), Has(x.sensors[j], cc, ss)
        PROVE  FALSE
    <3>1. \A l \in DOMAIN c.sensors : Has(c.sensors[l], cc, ss) => ss < c.taken[cc]
      BY DEF PlacesFine, SlotsFine
    <3>2. i # k /\ j # k => ~(Has(c.sensors[i], cc, ss) /\ Has(c.sensors[j], cc, ss))
      BY <1>4, <2>1 DEF PlacesFine, SlotsFine
    <3>3. ~(slot < c.taken[site])
      BY <1>1 DEF Slot
    <3> QED BY <1>4, <1>7, <2>1, <3>1, <3>2, <3>3
  <2>2. ASSUME NEW cc \in SensorCells, NEW ss \in Slot, ss >= x.taken[cc]
        PROVE  x.record[cc][ss] = NoRecord /\ x.accrued[cc][ss] = 0
    <3>1. ss >= c.taken[cc]
      BY <1>8, <2>2 DEF Slot
    <3> QED BY <1>3, <3>1 DEF PlacesFine, SlotsFine
  <2>3. ASSUME NEW j \in DOMAIN x.sensors, NEW cc \in SensorCells, NEW ss \in Slot, Has(x.sensors[j], cc, ss)
        PROVE  ss < x.taken[cc]
    <3>1. j # k => ss < c.taken[cc]
      BY <1>4, <2>3 DEF PlacesFine, SlotsFine
    <3> QED BY <1>4, <1>7, <1>8, <2>3, <3>1 DEF Slot
  <2> QED BY <2>1, <2>2, <2>3 DEF SlotsFine
<1>10. MovesFine(x)
  <2>1. c.today \in Nat
    BY DEF Chains
  <2> QED BY <1>2, <1>3, <1>4, <2>1 DEF MovesFine, PlacesFine, IsHeldAt
<1>11. MirrorFine(x, m, d)
  <2>1. \A cc \in SensorCells, ss \in Slot : ss < c.taken[cc] => ss < x.taken[cc]
    BY <1>8 DEF Slot
  <2>2. \A j \in DOMAIN m : j \in DOMAIN c.sensors /\ x.sensors[j] = c.sensors[j]
    BY <1>4 DEF PlacesFine, MirrorFine
  <2> QED BY <1>3, <1>4, <2>1, <2>2 DEF MirrorFine, PlacesFine
<1>12. RecordsFine(x)
  BY <1>3 DEF RecordsFine, RingIsOpen, PlacesFine
<1>13. EarningsFine(c, d) => EarningsFine(x, d)
  BY <1>3, <1>4 DEF EarningsFine
<1> QED BY <1>2, <1>3, <1>4, <1>6, <1>9, <1>10, <1>11, <1>12, <1>13 DEF PlacesFine

-----------------------------------------------------------------------------
(***************************************************************************)
(* A reinstatement, a day of verdicts and the end of a day.                *)
(***************************************************************************)

(* The row of a reinstated sensor, and the chain that has it. *)
ReinstatedRow(s) == [DropPrevious(s) EXCEPT !.active = TRUE]
ReinstatedChain(c, k, s, r) ==
  [c EXCEPT !.sensors[k] = r, !.record[s.cellId] = ClearSlot(@, s.slotInCell)]

(* A reinstated sensor lets go of the place it had left, which is dropped. *)
LEMMA ReinstateKeepsPlaces ==
  ASSUME NEW c \in Chains, NEW m, NEW d, PlacesFine(c, m, d),
         NEW k \in DOMAIN c.sensors, NEW r, r = ReinstatedRow(c.sensors[k]),
         NEW x, x = ReinstatedChain(c, k, c.sensors[k], r),
         NEW e, e = d \cup Previous(c.sensors[k])
  PROVE  /\ r \in Row
         /\ x \in Chains
         /\ PlacesFine(x, m, e)
         /\ EarningsFine(c, d) => EarningsFine(x, e)
<1> DEFINE s == c.sensors[k]
<1>1. s \in Row /\ s.cellId \in SensorCells /\ s.slotInCell \in Slot
  BY RowType
<1>2. /\ r \in Row
      /\ r.cellId = s.cellId /\ r.slotInCell = s.slotInCell /\ r.movedAt = s.movedAt
      /\ r.previousCellId = s.cellId /\ r.previousSlot = s.slotInCell
  BY <1>1 DEF Row, DropPrevious, ReinstatedRow
<1>3. /\ x.sensors = [c.sensors EXCEPT ![k] = r]
      /\ x.record = [c.record EXCEPT ![s.cellId] = ClearSlot(@, s.slotInCell)]
      /\ x.today = c.today /\ x.lastDay = c.lastDay /\ x.taken = c.taken /\ x.accrued = c.accrued
  BY DEF Chains, ReinstatedChain
<1>4. /\ x.record \in [SensorCells -> [Slot -> SlotRecord]]
      /\ \A cc \in SensorCells, ss \in Slot : c.record[cc][ss] = NoRecord => x.record[cc][ss] = NoRecord
  <2>1. NoRecord \in SlotRecord /\ c.record \in [SensorCells -> [Slot -> SlotRecord]]
    BY DEF NoRecord, SlotRecord, Chains
  <2>2. \A ring \in [Slot -> SlotRecord], ss \in Slot : ClearSlot(ring, s.slotInCell) \in [Slot -> SlotRecord]
          /\ (ring[ss] = NoRecord => ClearSlot(ring, s.slotInCell)[ss] = NoRecord)
    BY <2>1 DEF ClearSlot
  <2>3. PICK ring : ring = ClearSlot(c.record[s.cellId], s.slotInCell)
    OBVIOUS
  <2>4. x.record = [c.record EXCEPT ![s.cellId] = ring]
    BY <1>3, <2>3
  <2>5. /\ ring \in [Slot -> SlotRecord]
        /\ \A ss \in Slot : c.record[s.cellId][ss] = NoRecord => ring[ss] = NoRecord
    BY <1>1, <2>1, <2>2, <2>3
  <2> QED BY <1>1, <2>1, <2>4, <2>5
<1>5. x \in Chains
  <2>1. SetsRow(c, x, k, r)
    BY <1>3 DEF SetsRow
  <2>2. x.sensors \in UNION {[D -> Row] : D \in SUBSET SensorKeys}
    BY <1>2, <2>1, SetRowType
  <2> QED BY <1>4, <2>2 DEF Chains, ReinstatedChain
<1>6. /\ DOMAIN x.sensors = DOMAIN c.sensors /\ x.sensors[k] = r
      /\ \A j \in DOMAIN c.sensors : j # k => x.sensors[j] = c.sensors[j]
  BY <1>2, <1>3, RowsType
<1>7. /\ \A cc, ss : Has(r, cc, ss) <=> IsHeldAt(s, cc, ss)
      /\ \A cc, ss : Has(s, cc, ss) => Has(r, cc, ss) \/ <<cc, ss>> \in e
  BY <1>2, PlacesOf DEF Has, IsHeldAt, WasAt
<1>8. \A cc \in SensorCells, ss \in Slot, j \in DOMAIN c.sensors :
        /\ Has(x.sensors[j], cc, ss) => Has(c.sensors[j], cc, ss)
        /\ Has(c.sensors[j], cc, ss) => Has(x.sensors[j], cc, ss) \/ <<cc, ss>> \in e
  BY <1>6, <1>7 DEF Has
<1>9. SlotsFine(x)
  <2>1. SlotsFine(c)
    BY DEF PlacesFine
  <2>2. \A i, j \in DOMAIN x.sensors : i # j =>
          \A site \in SensorCells, slot \in Slot :
            ~(Has(x.sensors[i], site, slot) /\ Has(x.sensors[j], site, slot))
    <3> SUFFICES ASSUME NEW i \in DOMAIN x.sensors, NEW j \in DOMAIN x.sensors, i # j,
                        NEW site \in SensorCells, NEW slot \in Slot
                 PROVE  ~(Has(x.sensors[i], site, slot) /\ Has(x.sensors[j], site, slot))
      OBVIOUS
    <3>1. ~(Has(c.sensors[i], site, slot) /\ Has(c.sensors[j], site, slot))
      BY <1>6, <2>1 DEF SlotsFine
    <3> QED BY <1>6, <1>8, <3>1
  <2>3. \A site \in SensorCells, slot \in Slot : slot >= x.taken[site] =>
          x.record[site][slot] = NoRecord /\ x.accrued[site][slot] = 0
    <3>1. x.taken = c.taken /\ x.accrued = c.accrued
      BY <1>3
    <3>2. \A cc \in SensorCells, ss \in Slot : c.record[cc][ss] = NoRecord => x.record[cc][ss] = NoRecord
      BY <1>4
    <3> QED BY <2>1, <3>1, <3>2 DEF SlotsFine
  <2>4. \A j \in DOMAIN x.sensors : \A site \in SensorCells, slot \in Slot :
          Has(x.sensors[j], site, slot) => slot < x.taken[site]
    BY <1>3, <1>6, <1>8, <2>1 DEF SlotsFine
  <2> QED BY <2>2, <2>3, <2>4 DEF SlotsFine
<1>10. MovesFine(x)
  BY <1>2, <1>3, <1>6 DEF MovesFine, PlacesFine, IsHeldAt
<1>11. MirrorFine(x, m, e)
  <2>1. MirrorFine(c, m, d) /\ d \subseteq e
    BY DEF PlacesFine
  <2>2. \A j \in DOMAIN c.sensors : /\ x.sensors[j].movedAt = c.sensors[j].movedAt
                                    /\ x.sensors[j].cellId = c.sensors[j].cellId
                                    /\ x.sensors[j].slotInCell = c.sensors[j].slotInCell
    BY <1>2, <1>6
  <2>3. x.today = c.today /\ x.taken = c.taken
    BY <1>3
  <2> SUFFICES ASSUME NEW j \in DOMAIN m
               PROVE  /\ j \in DOMAIN x.sensors
                      /\ \/ x.sensors[j].movedAt = x.today
                         \/ /\ m[j].movedAt = x.sensors[j].movedAt
                            /\ IsHeldAt(m[j], x.sensors[j].cellId, x.sensors[j].slotInCell)
                      /\ \A site \in SensorCells, slot \in Slot : Has(m[j], site, slot) =>
                           /\ slot < x.taken[site]
                           /\ \/ Has(x.sensors[j], site, slot)
                              \/ <<site, slot>> \in e
                              \/ LeftLongAgo(m[j], site, slot, x.today)
    BY DEF MirrorFine
  <2>4. j \in DOMAIN c.sensors
    BY <2>1 DEF MirrorFine
  <2> QED BY <1>6, <1>8, <2>1, <2>2, <2>3, <2>4 DEF MirrorFine
<1>12. RecordsFine(x)
  BY <1>3, <1>4 DEF RecordsFine, PlacesFine, RingIsOpen
<1>13. EarningsFine(c, d) => EarningsFine(x, e)
  BY <1>3, <1>6, <1>8 DEF EarningsFine
<1> QED BY <1>2, <1>5, <1>9, <1>10, <1>11, <1>12, <1>13 DEF PlacesFine

(* Where the mirror's row lets a sensor be judged on a day. *)
MayBeJudged(r, site, slot, date) ==
  /\ Has(r, site, slot)
  /\ r.movedAt # Never => IF IsHeldAt(r, site, slot) THEN date >= r.movedAt ELSE date <= r.movedAt

(* A day's verdicts fall on slots that have an owner: the mirror may be    *)
(* behind, but the day is too young for a place left long ago.             *)
LEMMA DayKeepsPlaces ==
  ASSUME NEW c \in Chains, NEW m \in Mirrors, NEW d, PlacesFine(c, m, d),
         NEW site \in SensorCells, NEW date, date = c.lastDay[site] + 1, NEW verdicts,
         \A slot \in DOMAIN verdicts : \E k \in DOMAIN m : MayBeJudged(m[k], site, slot, date),
         NEW x \in SubmitDayReputation(c, site, date, verdicts)
  PROVE  /\ x \in Chains
         /\ x.sensors = c.sensors /\ x.vault = c.vault /\ x.today = c.today
         /\ PlacesFine(x, m, d)
         /\ MaxLate <= OutlierWindow /\ EarningsFine(c, d) => EarningsFine(x, d)
<1> DEFINE judged(slot)  == slot \in DOMAIN verdicts
           outlier(slot) == judged(slot) /\ verdicts[slot] = "outlier"
           ring == [slot \in Slot |->
                      [judged   |-> c.record[site][slot].judged \cup {e \in {date} : judged(slot)},
                       outliers |-> c.record[site][slot].outliers \cup {e \in {date} : outlier(slot)}]]
           earned == [slot \in Slot |-> IF judged(slot) /\ ~outlier(slot) THEN 1 ELSE c.accrued[site][slot]]
<1>1. /\ x.lastDay = [c.lastDay EXCEPT ![site] = date]
      /\ x.record = [c.record EXCEPT ![site] = ring]
      /\ x.accrued = [c.accrued EXCEPT ![site] = earned]
      /\ x.sensors = c.sensors /\ x.vault = c.vault /\ x.today = c.today /\ x.taken = c.taken
      /\ x = [c EXCEPT !.lastDay[site] = date, !.record[site] = ring, !.accrued[site] = earned]
  BY DEF SubmitDayReputation, Chains
<1>2. date \in Nat /\ c.lastDay[site] \in DayOrNever /\ c.today \in Nat
  BY DEF Chains, DayOrNever
<1>3. ring \in [Slot -> SlotRecord] /\ earned \in [Slot -> Nat]
  <2>1. c.record[site] \in [Slot -> SlotRecord] /\ c.accrued[site] \in [Slot -> Nat]
    BY DEF Chains
  <2>2. ASSUME NEW slot \in Slot
        PROVE  /\ c.record[site][slot].judged \cup {e \in {date} : judged(slot)} \in SUBSET Int
               /\ c.record[site][slot].outliers \cup {e \in {date} : outlier(slot)} \in SUBSET Int
    <3>1. c.record[site][slot] \in SlotRecord
      BY <2>1
    <3>2. c.record[site][slot].judged \in SUBSET Int /\ c.record[site][slot].outliers \in SUBSET Int
      BY <3>1 DEF SlotRecord
    <3> HIDE DEF judged, outlier
    <3> QED BY <1>2, <3>2
  <2>3. ring \in [Slot -> SlotRecord]
    BY <2>2 DEF SlotRecord
  <2> QED BY <2>1, <2>3
<1>4. x \in Chains
  <2>1. x.record \in [SensorCells -> [Slot -> SlotRecord]]
    <3> HIDE DEF ring
    <3> QED BY <1>1, <1>3 DEF Chains
  <2>2. x.accrued \in [SensorCells -> [Slot -> Nat]]
    <3> HIDE DEF earned
    <3> QED BY <1>1, <1>3 DEF Chains
  <2>3. x.lastDay \in [SensorCells -> DayOrNever]
    BY <1>1, <1>2 DEF Chains, DayOrNever
  <2> HIDE DEF ring, earned
  <2> QED BY <1>1, <2>1, <2>2, <2>3 DEF Chains
<1>5. \A slot \in DOMAIN verdicts : slot \in Slot /\ slot < c.taken[site]
  <2> SUFFICES ASSUME NEW slot \in DOMAIN verdicts PROVE slot \in Slot /\ slot < c.taken[site]
    OBVIOUS
  <2>1. PICK k \in DOMAIN m : MayBeJudged(m[k], site, slot, date)
    OBVIOUS
  <2>2. m[k].slotInCell \in Slot /\ m[k].previousSlot \in Slot
    <3>1. PICK D \in SUBSET SensorKeys : m \in [D -> MirrorRow]
      BY DEF Mirrors
    <3>2. m[k] \in MirrorRow
      BY <3>1
    <3> QED BY <3>2 DEF MirrorRow
  <2>3. slot \in Slot /\ Has(m[k], site, slot)
    BY <2>1, <2>2 DEF MayBeJudged, Has, IsHeldAt, WasAt
  <2> QED BY <2>3 DEF PlacesFine, MirrorFine
<1>6. SlotsFine(x)
  <2>1. SlotsFine(c)
    BY DEF PlacesFine
  <2>2. ASSUME NEW cc \in SensorCells, NEW ss \in Slot, ss >= x.taken[cc]
        PROVE  x.record[cc][ss] = NoRecord /\ x.accrued[cc][ss] = 0
    <3>1. c.record[cc][ss] = NoRecord /\ c.accrued[cc][ss] = 0
      BY <1>1, <2>1, <2>2 DEF SlotsFine
    <3>2. CASE cc # site
      <4> HIDE DEF ring, earned
      <4> QED BY <1>1, <3>1, <3>2
    <3>3. CASE cc = site
      <4>1. ~judged(ss) /\ ~outlier(ss)
        <5>1. c.taken[site] \in Nat /\ ss \in Nat
          BY DEF Chains, Slot
        <5> QED BY <1>1, <1>5, <2>2, <3>3, <5>1
      <4>2. ring[ss] = NoRecord /\ earned[ss] = 0
        BY <3>1, <3>3, <4>1 DEF NoRecord
      <4>3. x.record[site] = ring /\ x.accrued[site] = earned
        <5> HIDE DEF ring, earned
        <5> QED BY <1>1 DEF Chains
      <4> QED BY <3>3, <4>2, <4>3
    <3> QED BY <3>2, <3>3
  <2>3. \A j \in DOMAIN x.sensors : \A cc \in SensorCells, ss \in Slot :
          Has(x.sensors[j], cc, ss) => ss < x.taken[cc]
    BY <1>1, <2>1 DEF SlotsFine
  <2>4. \A i, j \in DOMAIN x.sensors : i # j => \A cc \in SensorCells, ss \in Slot :
          ~(Has(x.sensors[i], cc, ss) /\ Has(x.sensors[j], cc, ss))
    BY <1>1, <2>1 DEF SlotsFine
  <2> QED BY <2>2, <2>3, <2>4 DEF SlotsFine
<1>7. MovesFine(x) /\ MirrorFine(x, m, d)
  <2> HIDE DEF ring, earned
  <2> QED BY <1>1 DEF MovesFine, MirrorFine, PlacesFine
<1>8. RecordsFine(x)
  <2>1. \A cc \in SensorCells : c.lastDay[cc] \in Int /\ x.lastDay[cc] = IF cc = site THEN date ELSE c.lastDay[cc]
    BY <1>1 DEF Chains, DayOrNever
  <2>2. MaxLate \in Nat /\ RecordsFine(c)
    BY SensorsAssumption DEF PlacesFine
  <2>3. \A cc \in SensorCells : x.lastDay[cc] + MaxLate + 1 >= x.today
    BY <1>1, <1>2, <2>1, <2>2 DEF RecordsFine
  <2>4. ASSUME NEW cc \in SensorCells, ~RingIsOpen(x, cc), NEW slot \in Slot PROVE x.record[cc][slot] = NoRecord
    <3>1. cc # site /\ ~RingIsOpen(c, cc)
      BY <1>2, <2>1, <2>4 DEF RingIsOpen
    <3>2. x.record[cc] = c.record[cc]
      <4> HIDE DEF ring
      <4> QED BY <1>1, <3>1 DEF Chains
    <3> QED BY <2>2, <3>1, <3>2 DEF RecordsFine
  <2> QED BY <2>3, <2>4 DEF RecordsFine
<1>9. MaxLate <= OutlierWindow /\ EarningsFine(c, d) => EarningsFine(x, d)
  <2> SUFFICES ASSUME MaxLate <= OutlierWindow, EarningsFine(c, d),
                      NEW cc \in SensorCells, NEW ss \in Slot, x.accrued[cc][ss] > 0
               PROVE  (\E k \in DOMAIN c.sensors : Has(c.sensors[k], cc, ss)) \/ <<cc, ss>> \in d
    BY <1>1 DEF EarningsFine
  <2>1. CASE c.accrued[cc][ss] > 0
    BY <2>1 DEF EarningsFine
  <2>2. CASE ~(c.accrued[cc][ss] > 0)
    <3>1. cc = site /\ ss \in DOMAIN verdicts
      <4>1. cc = site
        <5> HIDE DEF earned, ring
        <5> QED BY <1>1, <2>2 DEF Chains
      <4>2. x.accrued[site] = earned
        <5> HIDE DEF earned, ring
        <5> QED BY <1>1 DEF Chains
      <4> QED BY <2>2, <4>1, <4>2
    <3>2. PICK k \in DOMAIN m : MayBeJudged(m[k], site, ss, date)
      BY <3>1
    <3>3. /\ k \in DOMAIN c.sensors
          /\ Has(c.sensors[k], site, ss) \/ <<site, ss>> \in d \/ LeftLongAgo(m[k], site, ss, c.today)
      BY <3>2 DEF PlacesFine, MirrorFine, MayBeJudged
    <3>4. ~LeftLongAgo(m[k], site, ss, c.today)
      <4> SUFFICES ASSUME LeftLongAgo(m[k], site, ss, c.today) PROVE FALSE
        OBVIOUS
      <4>1. date <= m[k].movedAt /\ m[k].movedAt + OutlierWindow + 1 <= c.today
        BY <3>2 DEF LeftLongAgo, MayBeJudged
      <4>2. date + MaxLate >= c.today
        BY <1>2, SensorsAssumption DEF PlacesFine, RecordsFine, DayOrNever
      <4>3. m[k].movedAt \in Int
        <5>1. PICK D \in SUBSET SensorKeys : m \in [D -> MirrorRow]
          BY DEF Mirrors
        <5>2. m[k] \in MirrorRow
          BY <5>1
        <5> QED BY <5>2 DEF MirrorRow, DayOrNever
      <4> QED BY <1>2, <4>1, <4>2, <4>3, SensorsAssumption, RegistryAssumption
    <3> QED BY <3>1, <3>3, <3>4
  <2> QED BY <2>1, <2>2
<1> QED BY <1>1, <1>4, <1>6, <1>7, <1>8, <1>9 DEF PlacesFine

(* A day passes when the mirror is the chain and no record is too late.    *)
LEMMA NextDayKeepsPlaces ==
  ASSUME NEW c \in Chains, NEW m, NEW d, PlacesFine(c, m, d),
         m = [k \in DOMAIN c.sensors |-> ChainSensorOf(c.sensors[k])],
         \A site \in SensorCells : c.lastDay[site] >= c.today - MaxLate,
         NEW x, x = NextDay(c)
  PROVE  /\ x \in Chains
         /\ x.sensors = c.sensors /\ x.vault = c.vault
         /\ PlacesFine(x, m, d)
         /\ EarningsFine(c, d) => EarningsFine(x, d)
<1> DEFINE recent(days) == {e \in days : e >= c.today + 1 - OutlierWindow}
           kept == [site \in SensorCells |-> [slot \in Slot |->
                      [judged |-> recent(c.record[site][slot].judged),
                       outliers |-> recent(c.record[site][slot].outliers)]]]
<1>1. /\ x.record = kept /\ x.today = c.today + 1
      /\ x.sensors = c.sensors /\ x.vault = c.vault /\ x.taken = c.taken /\ x.lastDay = c.lastDay
      /\ x.accrued = c.accrued
      /\ x = [c EXCEPT !.today = @ + 1, !.record = kept]
  BY DEF NextDay, Chains
<1>2. kept \in [SensorCells -> [Slot -> SlotRecord]]
  <2>1. ASSUME NEW site \in SensorCells, NEW slot \in Slot
        PROVE  /\ recent(c.record[site][slot].judged) \in SUBSET Int
               /\ recent(c.record[site][slot].outliers) \in SUBSET Int
    <3>1. c.record[site][slot] \in SlotRecord
      BY DEF Chains
    <3> QED BY <3>1 DEF SlotRecord
  <2> HIDE DEF recent
  <2> QED BY <2>1 DEF SlotRecord
<1>3. x \in Chains
  <2>1. x = [c EXCEPT !.today = @ + 1, !.record = kept] /\ c.today + 1 \in Nat
    BY <1>1 DEF Chains
  <2> HIDE DEF kept
  <2> QED BY <1>2, <2>1 DEF Chains
<1>4. \A site \in SensorCells, slot \in Slot : c.record[site][slot] = NoRecord => kept[site][slot] = NoRecord
  <2>1. recent({}) = {}
    OBVIOUS
  <2> HIDE DEF recent
  <2> QED BY <2>1 DEF NoRecord
<1> HIDE DEF kept
<1>5. SlotsFine(x)
  BY <1>1, <1>4 DEF SlotsFine, PlacesFine
<1>6. c.today \in Nat /\ x.today = c.today + 1 /\ \A k \in DOMAIN c.sensors : c.sensors[k].movedAt \in Int
  BY <1>1, RowType DEF Chains, DayOrNever
<1>7. MovesFine(x)
  BY <1>1, <1>6 DEF MovesFine, PlacesFine
<1>8. MirrorFine(x, m, d)
  <2>1. ASSUME NEW k \in DOMAIN c.sensors
        PROVE  /\ m[k].movedAt = c.sensors[k].movedAt
               /\ IsHeldAt(m[k], c.sensors[k].cellId, c.sensors[k].slotInCell)
               /\ \A site, slot : Has(m[k], site, slot) <=> Has(c.sensors[k], site, slot)
    BY DEF ChainSensorOf, IsHeldAt, Has, WasAt
  <2>2. \A k \in DOMAIN c.sensors : \A site \in SensorCells, slot \in Slot :
          Has(c.sensors[k], site, slot) => slot < c.taken[site]
    BY DEF SlotsFine, PlacesFine
  <2> QED BY <1>1, <2>1, <2>2 DEF MirrorFine
<1>9. RecordsFine(x)
  <2>1. \A site \in SensorCells : c.lastDay[site] \in Int
    BY DEF Chains, DayOrNever
  <2>2. MaxLate \in Nat /\ RecordsFine(c)
    BY SensorsAssumption DEF PlacesFine
  <2>3. \A site \in SensorCells : x.lastDay[site] + MaxLate + 1 >= x.today
    BY <1>1, <1>6, <2>1, <2>2
  <2>4. \A site \in SensorCells : ~RingIsOpen(x, site) => \A slot \in Slot : x.record[site][slot] = NoRecord
    BY <1>1, <1>4, <2>2 DEF RecordsFine, RingIsOpen
  <2> QED BY <2>3, <2>4 DEF RecordsFine
<1>10. EarningsFine(c, d) => EarningsFine(x, d)
  BY <1>1 DEF EarningsFine
<1> QED BY <1>1, <1>3, <1>5, <1>7, <1>8, <1>9, <1>10 DEF PlacesFine

-----------------------------------------------------------------------------
(***************************************************************************)
(* One call at a time.                                                     *)
(***************************************************************************)
LEMMA FineIs ==
  ASSUME NEW c, NEW m, NEW d, NEW a
  PROVE  Fine(c, m, d, a) <=> c \in Chains /\ PlacesFine(c, m, d) /\ StakesFine(c) /\ ThawFine(c, a)
BY DEF Fine, PlacesFine

(* One row's amounts change, where the sensor is.                          *)
LEMMA AmountsChange ==
  ASSUME NEW c, NEW m, NEW d, NEW a, Fine(c, m, d, a),
         NEW k \in DOMAIN c.sensors, NEW r \in Row, SamePlace(r, c.sensors[k]),
         NEW x \in Chains, x.sensors = [c.sensors EXCEPT ![k] = r],
         x.vault = c.vault - (c.sensors[k].stake + c.sensors[k].unstaking) + (r.stake + r.unstaking),
         x.today = c.today, x.taken = c.taken, x.lastDay = c.lastDay, x.record = c.record,
         \A site \in SensorCells, slot \in Slot :
           x.accrued[site][slot] = c.accrued[site][slot] \/ x.accrued[site][slot] = 0,
         NEW b, \A j \in DOMAIN c.sensors : j # k => b[j] = a[j],
         r.unstaking > 0 => b[k] # Never /\ r.unlockAtDay = b[k] + UnstakeDelay
  PROVE  Fine(x, m, d, b) /\ (EarningsFine(c, d) => EarningsFine(x, d))
<1>1. c \in Chains /\ PlacesFine(c, m, d) /\ StakesFine(c) /\ ThawFine(c, a)
  BY FineIs
<1>2. /\ DOMAIN x.sensors = DOMAIN c.sensors /\ x.sensors[k] = r
      /\ \A j \in DOMAIN c.sensors : j # k => x.sensors[j] = c.sensors[j]
  BY <1>1, RowsType
<1>3. \A j \in DOMAIN c.sensors : SamePlace(x.sensors[j], c.sensors[j])
  BY <1>2 DEF SamePlace
<1>4. PlacesFine(x, m, d) /\ (EarningsFine(c, d) => EarningsFine(x, d))
  BY <1>1, <1>2, <1>3, InPlace
<1>5. StakesFine(x)
  BY <1>1, StakesOfOneRow
<1>6. ThawFine(x, b)
  BY <1>1, <1>2 DEF ThawFine
<1> QED BY <1>4, <1>5, <1>6, FineIs

LEMMA StakeKeeps ==
  ASSUME NEW c, NEW m, NEW d, NEW a, Fine(c, m, d, a),
         NEW k \in DOMAIN c.sensors, NEW wallet, NEW amount \in Nat,
         NEW x \in StakeSensor(c, CallFor("stake", k, wallet, amount))
  PROVE  Fine(x, m, d, a) /\ (EarningsFine(c, d) => EarningsFine(x, d))
<1> DEFINE s == c.sensors[k]
           r == [s EXCEPT !.stake = @ + amount]
<1>1. c \in Chains /\ ThawFine(c, a)
  BY FineIs
<1>2. s \in Row /\ s.stake \in Nat /\ s.unstaking \in Nat /\ c.vault \in Int
  BY <1>1, RowType DEF Chains
<1>3. r \in Row /\ SamePlace(r, s) /\ r.stake = s.stake + amount /\ r.unstaking = s.unstaking
      /\ r.unlockAtDay = s.unlockAtDay
  BY <1>2 DEF Row, SamePlace
<1>4. x = [c EXCEPT !.vault = @ + amount, !.sensors[k] = r]
  BY <1>1 DEF StakeSensor, CallFor, Chains
<1> HIDE DEF r
<1>5. /\ x.sensors = [c.sensors EXCEPT ![k] = r] /\ x.vault = c.vault + amount
      /\ x.today = c.today /\ x.taken = c.taken /\ x.lastDay = c.lastDay /\ x.record = c.record
      /\ x.accrued = c.accrued
  BY <1>1, <1>4 DEF Chains
<1>6. x \in Chains
  <2>1. c.vault + amount \in Int
    BY <1>2
  <2>2. [c.sensors EXCEPT ![k] = r] \in UNION {[D -> Row] : D \in SUBSET SensorKeys}
    BY <1>1, <1>3, RowsType
  <2> QED BY <1>1, <1>4, <2>1, <2>2 DEF Chains
<1>7. x.vault = c.vault - (s.stake + s.unstaking) + (r.stake + r.unstaking)
  BY <1>2, <1>3, <1>5
<1>8. r.unstaking > 0 => a[k] # Never /\ r.unlockAtDay = a[k] + UnstakeDelay
  BY <1>1, <1>3 DEF ThawFine
<1> QED BY <1>3, <1>5, <1>6, <1>7, <1>8, AmountsChange

(* The day sensor k last asked for stake, as it is noted. *)
LastAsked(a, k, date) == [a EXCEPT ![k] = date]

LEMMA RequestKeeps ==
  ASSUME NEW c, NEW m, NEW d, NEW a \in [SensorKeys -> DayOrNever], Fine(c, m, d, a),
         NEW k \in DOMAIN c.sensors, NEW wallet, NEW amount \in Nat,
         NEW x \in RequestUnstake(c, CallFor("request", k, wallet, amount)),
         NEW b, b = LastAsked(a, k, c.today)
  PROVE  Fine(x, m, d, b) /\ (EarningsFine(c, d) => EarningsFine(x, d))
<1> DEFINE s == c.sensors[k]
           r == [s EXCEPT !.stake = @ - amount, !.unstaking = @ + amount,
                          !.unlockAtDay = c.today + UnstakeDelay]
<1>1. c \in Chains /\ ThawFine(c, a)
  BY FineIs
<1>2. /\ s \in Row /\ s.stake \in Nat /\ s.unstaking \in Nat /\ c.vault \in Int /\ c.today \in Nat
      /\ k \in SensorKeys
  BY <1>1, RowType DEF Chains
<1>3. x = [c EXCEPT !.sensors[k] = r] /\ amount \in 1 .. s.stake
  BY <1>1 DEF RequestUnstake, CallFor, ThawEnds, Chains
<1>4. r \in Row /\ SamePlace(r, s) /\ r.stake = s.stake - amount /\ r.unstaking = s.unstaking + amount
      /\ r.unlockAtDay = c.today + UnstakeDelay
  <2>1. s.stake - amount \in Nat /\ s.unstaking + amount \in Nat /\ c.today + UnstakeDelay \in DayOrNever
    BY <1>2, <1>3, RegistryAssumption DEF DayOrNever
  <2> QED BY <1>2, <2>1 DEF Row, SamePlace
<1> HIDE DEF r
<1>5. /\ x.sensors = [c.sensors EXCEPT ![k] = r] /\ x.vault = c.vault
      /\ x.today = c.today /\ x.taken = c.taken /\ x.lastDay = c.lastDay /\ x.record = c.record
      /\ x.accrued = c.accrued
  BY <1>1, <1>3 DEF Chains
<1>6. x \in Chains
  BY <1>1, <1>3, <1>4, RowsType DEF Chains
<1>7. x.vault = c.vault - (s.stake + s.unstaking) + (r.stake + r.unstaking)
  BY <1>2, <1>4, <1>5
<1>8. /\ b[k] = c.today /\ c.today # Never
      /\ \A j \in DOMAIN c.sensors : j # k => b[j] = a[j]
  BY <1>1, <1>2, RowType DEF LastAsked
<1> QED BY <1>4, <1>5, <1>6, <1>7, <1>8, AmountsChange

LEMMA WithdrawKeeps ==
  ASSUME NEW c, NEW m, NEW d, NEW a \in [SensorKeys -> DayOrNever], Fine(c, m, d, a),
         NEW k \in DOMAIN c.sensors, NEW wallet,
         NEW x \in WithdrawStake(c, Call("withdraw", k, wallet)),
         NEW b, b = LastAsked(a, k, Never)
  PROVE  Fine(x, m, d, b) /\ (EarningsFine(c, d) => EarningsFine(x, d))
<1> DEFINE s == c.sensors[k]
           r == [s EXCEPT !.unstaking = 0, !.unlockAtDay = Never]
<1>1. c \in Chains /\ ThawFine(c, a)
  BY FineIs
<1>2. /\ s \in Row /\ s.stake \in Nat /\ s.unstaking \in Nat /\ c.vault \in Int /\ k \in SensorKeys
  BY <1>1, RowType DEF Chains
<1>3. x = [c EXCEPT !.vault = @ - s.unstaking, !.sensors[k] = r]
  BY <1>1 DEF WithdrawStake, Call, Chains
<1>4. r \in Row /\ SamePlace(r, s) /\ r.stake = s.stake /\ r.unstaking = 0
  BY <1>2 DEF Row, SamePlace, DayOrNever
<1> HIDE DEF r
<1>5. /\ x.sensors = [c.sensors EXCEPT ![k] = r] /\ x.vault = c.vault - s.unstaking
      /\ x.today = c.today /\ x.taken = c.taken /\ x.lastDay = c.lastDay /\ x.record = c.record
      /\ x.accrued = c.accrued
  BY <1>1, <1>3 DEF Chains
<1>6. x \in Chains
  <2>1. c.vault - s.unstaking \in Int
    BY <1>2
  <2>2. [c.sensors EXCEPT ![k] = r] \in UNION {[D -> Row] : D \in SUBSET SensorKeys}
    BY <1>1, <1>4, RowsType
  <2> QED BY <1>1, <1>3, <2>1, <2>2 DEF Chains
<1>7. x.vault = c.vault - (s.stake + s.unstaking) + (r.stake + r.unstaking)
  BY <1>2, <1>4, <1>5
<1>8. \A j \in DOMAIN c.sensors : j # k => b[j] = a[j]
  BY <1>1, <1>2, RowType DEF LastAsked
<1> QED BY <1>4, <1>5, <1>6, <1>7, <1>8, AmountsChange

LEMMA ExcludeKeeps ==
  ASSUME NEW c, NEW m, NEW d, NEW a \in [SensorKeys -> DayOrNever], Fine(c, m, d, a),
         NEW k \in DOMAIN c.sensors, NEW wallet,
         NEW x \in ExcludeSensor(c, Call("exclude", k, wallet)),
         NEW b, b = LastAsked(a, k, Never)
  PROVE  Fine(x, m, d, b) /\ (EarningsFine(c, d) => EarningsFine(x, d))
<1> DEFINE s == c.sensors[k]
           r == [s EXCEPT !.stake = 0, !.unstaking = 0, !.unlockAtDay = Never, !.active = FALSE]
           left == Forfeit(c.accrued, SlotsOf(s))
<1>1. c \in Chains /\ ThawFine(c, a)
  BY FineIs
<1>2. /\ s \in Row /\ s.stake \in Nat /\ s.unstaking \in Nat /\ c.vault \in Int /\ k \in SensorKeys
  BY <1>1, RowType DEF Chains
<1>3. x = [c EXCEPT !.vault = @ - Burnt(s), !.accrued = left, !.sensors[k] = r]
  BY <1>1 DEF ExcludeSensor, Call, Chains
<1>4. r \in Row /\ SamePlace(r, s) /\ r.stake = 0 /\ r.unstaking = 0
  BY <1>2 DEF Row, SamePlace, DayOrNever
<1>5. /\ left \in [SensorCells -> [Slot -> Nat]]
      /\ \A site \in SensorCells, slot \in Slot : left[site][slot] \in {0, c.accrued[site][slot]}
  BY <1>1 DEF Forfeit, Chains
<1> HIDE DEF r, left
<1>6. /\ x.sensors = [c.sensors EXCEPT ![k] = r] /\ x.vault = c.vault - (s.stake + s.unstaking)
      /\ x.today = c.today /\ x.taken = c.taken /\ x.lastDay = c.lastDay /\ x.record = c.record
      /\ x.accrued = left
  BY <1>1, <1>3 DEF Chains, Burnt
<1>7. x \in Chains
  <2>1. c.vault - Burnt(s) \in Int
    BY <1>2 DEF Burnt
  <2>2. [c.sensors EXCEPT ![k] = r] \in UNION {[D -> Row] : D \in SUBSET SensorKeys}
    BY <1>1, <1>4, RowsType
  <2> QED BY <1>1, <1>3, <1>5, <2>1, <2>2 DEF Chains
<1>8. x.vault = c.vault - (s.stake + s.unstaking) + (r.stake + r.unstaking)
  BY <1>2, <1>4, <1>6
<1>9. \A j \in DOMAIN c.sensors : j # k => b[j] = a[j]
  BY <1>1, <1>2, RowType DEF LastAsked
<1>10. \A site \in SensorCells, slot \in Slot :
         x.accrued[site][slot] = c.accrued[site][slot] \/ x.accrued[site][slot] = 0
  BY <1>5, <1>6
<1> QED BY <1>4, <1>6, <1>7, <1>8, <1>9, <1>10, AmountsChange

LEMMA ClaimKeeps ==
  ASSUME NEW c, NEW m, NEW d, NEW a, Fine(c, m, d, a),
         NEW k \in DOMAIN c.sensors, NEW wallet, NEW cellId,
         NEW x \in ClaimReward(c, CallIn("claim", k, wallet, cellId))
  PROVE  Fine(x, m, d, a) /\ (EarningsFine(c, d) => EarningsFine(x, d))
<1> DEFINE s == c.sensors[k]
<1>1. c \in Chains /\ PlacesFine(c, m, d) /\ StakesFine(c) /\ ThawFine(c, a)
  BY FineIs
<1>2. PICK at \in SlotsOf(s) : x = [c EXCEPT !.accrued[at[1]][at[2]] = 0]
  BY DEF ClaimReward, CallIn, SlotIn
<1>3. at[1] \in SensorCells /\ at[2] \in Slot
  BY <1>1, PlacesArePlaces
<1>4. /\ x.accrued = [c.accrued EXCEPT ![at[1]][at[2]] = 0]
      /\ x.sensors = c.sensors /\ x.vault = c.vault
      /\ x.today = c.today /\ x.taken = c.taken /\ x.lastDay = c.lastDay /\ x.record = c.record
  BY <1>1, <1>2 DEF Chains
<1>5. /\ x.accrued \in [SensorCells -> [Slot -> Nat]]
      /\ \A site \in SensorCells, slot \in Slot : x.accrued[site][slot] \in {0, c.accrued[site][slot]}
  BY <1>1, <1>3, <1>4 DEF Chains
<1>6. x \in Chains
  BY <1>1, <1>2, <1>4, <1>5 DEF Chains
<1>7. /\ \A j \in DOMAIN c.sensors : SamePlace(x.sensors[j], c.sensors[j])
      /\ \A site \in SensorCells, slot \in Slot :
           x.accrued[site][slot] = c.accrued[site][slot] \/ x.accrued[site][slot] = 0
  BY <1>4, <1>5 DEF SamePlace
<1>8. PlacesFine(x, m, d) /\ (EarningsFine(c, d) => EarningsFine(x, d))
  BY <1>1, <1>4, <1>6, <1>7, InPlace
<1>9. StakesFine(x) /\ ThawFine(x, a)
  BY <1>1, <1>4, StakesOfTheSame DEF ThawFine
<1> QED BY <1>6, <1>8, <1>9, FineIs

LEMMA RegisterKeeps ==
  ASSUME NEW c, NEW m, NEW d, NEW a, Fine(c, m, d, a),
         NEW k \in SensorKeys, NEW wallet \in Wallets, NEW site \in SensorCells,
         NEW x \in RegisterSensor(c, CallIn("register", k, wallet, site))
  PROVE  Fine(x, m, d, a) /\ (EarningsFine(c, d) => EarningsFine(x, d))
<1> DEFINE call == CallIn("register", k, wallet, site)
<1>1. c \in Chains /\ PlacesFine(c, m, d) /\ StakesFine(c) /\ ThawFine(c, a)
  BY FineIs
<1>2. call.key = k /\ call.cellId = site
  BY DEF CallIn
<1>3. k \notin DOMAIN c.sensors
  BY <1>2 DEF RegisterSensor
<1> HIDE DEF call
<1>4. PICK slot \in NextSlot(c, site) : x = RegisteredChain(c, call, slot)
  <2>1. x \in RegisterSensor(c, call)
    BY DEF call
  <2>2. \E slot \in NextSlot(c, call.cellId) : x = RegisteredChain(c, call, slot)
    BY <1>2, <1>3, <2>1 DEF RegisterSensor, RegisteredChain
  <2> QED BY <1>2, <2>2
<1>5. PICK r : r = NewSensor(call, slot)
  OBVIOUS
<1>6. /\ x \in Chains /\ x.vault = c.vault
      /\ DOMAIN x.sensors = DOMAIN c.sensors \cup {k} /\ x.sensors[k] = r
      /\ r.stake = 0 /\ r.unstaking = 0
      /\ \A j \in DOMAIN c.sensors : x.sensors[j] = c.sensors[j]
      /\ PlacesFine(x, m, d)
      /\ EarningsFine(c, d) => EarningsFine(x, d)
  <2>1. call = CallIn("register", k, wallet, site)
    BY DEF call
  <2> QED BY <1>1, <1>3, <1>4, <1>5, <2>1, RegisterKeepsPlaces
<1>7. StakesFine(x)
  BY <1>1, <1>3, <1>6, StakesOfANewRow
<1>8. ThawFine(x, a)
  BY <1>1, <1>6 DEF ThawFine
<1> QED BY <1>6, <1>7, <1>8, FineIs

LEMMA MoveKeeps ==
  ASSUME NEW c, NEW m, NEW d, NEW a, Fine(c, m, d, a),
         NEW k \in DOMAIN c.sensors, NEW wallet, NEW site \in SensorCells,
         NEW x \in MoveSensor(c, CallIn("move", k, wallet, site))
  PROVE  Fine(x, m, d, a) /\ (EarningsFine(c, d) => EarningsFine(x, d))
<1> DEFINE s == c.sensors[k]
<1>1. c \in Chains /\ PlacesFine(c, m, d) /\ StakesFine(c) /\ ThawFine(c, a)
  BY FineIs
<1>2. CheckMove(c, s, site)
  BY DEF MoveSensor, CallIn
<1> PICK slot \in NextSlot(c, site) : x = MovedChain(c, k, site, MovedRow(s, site, slot, c.today))
  BY <1>2 DEF MoveSensor, CallIn, MovedRow, MovedChain
<1> DEFINE r == MovedRow(s, site, slot, c.today)
<1>3. r = MovedRow(s, site, slot, c.today) /\ x = MovedChain(c, k, site, r)
  OBVIOUS
<1> HIDE DEF r
<1>4. s \in Row
  BY <1>1, RowType
<1>5. /\ r.stake = s.stake /\ r.unstaking = s.unstaking /\ r.unlockAtDay = s.unlockAtDay
  BY <1>3, <1>4 DEF Row, MovedRow
<1>6. x = [c EXCEPT !.taken[site] = @ + 1, !.sensors[k] = r]
  BY <1>3 DEF MovedChain
<1>7. /\ r \in Row /\ x \in Chains /\ PlacesFine(x, m, d)
      /\ EarningsFine(c, d) => EarningsFine(x, d)
  BY <1>1, <1>2, <1>3, MoveKeepsPlaces
<1>8. x.sensors = [c.sensors EXCEPT ![k] = r] /\ x.vault = c.vault
  BY <1>1, <1>6 DEF Chains
<1>9. /\ DOMAIN x.sensors = DOMAIN c.sensors /\ x.sensors[k] = r
      /\ \A j \in DOMAIN c.sensors : j # k => x.sensors[j] = c.sensors[j]
  BY <1>1, <1>7, <1>8, RowsType
<1>10. StakesFine(x)
  BY <1>1, <1>5, <1>8, <1>9, StakesOfTheSame
<1>11. ThawFine(x, a)
  BY <1>1, <1>5, <1>9 DEF ThawFine
<1> QED BY <1>7, <1>10, <1>11, FineIs

LEMMA ReinstateKeeps ==
  ASSUME NEW c, NEW m, NEW d, NEW a, Fine(c, m, d, a),
         NEW k \in DOMAIN c.sensors, NEW wallet,
         NEW x \in ReinstateSensor(c, Call("reinstate", k, wallet)),
         NEW e, e = d \cup Previous(c.sensors[k])
  PROVE  Fine(x, m, e, a) /\ (EarningsFine(c, d) => EarningsFine(x, e))
<1> DEFINE s == c.sensors[k]
<1>1. c \in Chains /\ PlacesFine(c, m, d) /\ StakesFine(c) /\ ThawFine(c, a)
  BY FineIs
<1>2. PICK r : r = ReinstatedRow(s) /\ x = ReinstatedChain(c, k, s, r)
  BY DEF ReinstateSensor, Call, ReinstatedRow, ReinstatedChain
<1>3. s \in Row
  BY <1>1, RowType
<1>4. r.stake = s.stake /\ r.unstaking = s.unstaking /\ r.unlockAtDay = s.unlockAtDay
  BY <1>2, <1>3 DEF Row, DropPrevious, ReinstatedRow
<1>5. /\ r \in Row /\ x \in Chains /\ PlacesFine(x, m, e)
      /\ EarningsFine(c, d) => EarningsFine(x, e)
  BY <1>1, <1>2, ReinstateKeepsPlaces
<1>6. x.sensors = [c.sensors EXCEPT ![k] = r] /\ x.vault = c.vault
  BY <1>1, <1>2 DEF Chains, ReinstatedChain
<1>7. /\ DOMAIN x.sensors = DOMAIN c.sensors /\ x.sensors[k] = r
      /\ \A j \in DOMAIN c.sensors : j # k => x.sensors[j] = c.sensors[j]
  BY <1>1, <1>5, <1>6, RowsType
<1>8. StakesFine(x)
  BY <1>1, <1>4, <1>6, <1>7, StakesOfTheSame
<1>9. ThawFine(x, a)
  BY <1>1, <1>4, <1>7 DEF ThawFine
<1> QED BY <1>5, <1>8, <1>9, FineIs

-----------------------------------------------------------------------------
(***************************************************************************)
(* Whole transactions.                                                     *)
(***************************************************************************)

(* What each call does. *)
LEMMA ExecuteRegister ==
  ASSUME NEW c, NEW k, NEW wallet, NEW site, NEW call, call = CallIn("register", k, wallet, site)
  PROVE  Execute(c, call) = RegisterSensor(c, call)
BY DEF Execute, CallIn

LEMMA ExecuteMove ==
  ASSUME NEW c, NEW k, NEW wallet, NEW site, NEW call, call = CallIn("move", k, wallet, site)
  PROVE  Execute(c, call) =
           IF k \in DOMAIN c.sensors /\ c.sensors[k].operator = wallet THEN MoveSensor(c, call) ELSE {}
BY DEF Execute, CallIn, ByOperator, Registered

LEMMA ExecuteClaim ==
  ASSUME NEW c, NEW k, NEW wallet, NEW site, NEW call, call = CallIn("claim", k, wallet, site)
  PROVE  Execute(c, call) = IF k \in DOMAIN c.sensors THEN ClaimReward(c, call) ELSE {}
BY DEF Execute, CallIn, Registered

LEMMA ExecuteStake ==
  ASSUME NEW c, NEW k, NEW wallet, NEW amount, NEW call, call = CallFor("stake", k, wallet, amount)
  PROVE  Execute(c, call) =
           IF k \in DOMAIN c.sensors /\ c.sensors[k].operator = wallet THEN StakeSensor(c, call) ELSE {}
BY DEF Execute, CallFor, ByOperator, Registered

LEMMA ExecuteRequest ==
  ASSUME NEW c, NEW k, NEW wallet, NEW amount, NEW call, call = CallFor("request", k, wallet, amount)
  PROVE  Execute(c, call) =
           IF k \in DOMAIN c.sensors /\ c.sensors[k].operator = wallet THEN RequestUnstake(c, call) ELSE {}
BY DEF Execute, CallFor, ByOperator, Registered

LEMMA ExecuteWithdraw ==
  ASSUME NEW c, NEW k, NEW wallet, NEW call, call = Call("withdraw", k, wallet)
  PROVE  Execute(c, call) =
           IF k \in DOMAIN c.sensors /\ c.sensors[k].operator = wallet THEN WithdrawStake(c, call) ELSE {}
BY DEF Execute, Call, ByOperator, Registered

LEMMA ExecuteReinstate ==
  ASSUME NEW c, NEW k, NEW wallet, NEW call, call = Call("reinstate", k, wallet)
  PROVE  Execute(c, call) =
           IF k \in DOMAIN c.sensors /\ c.sensors[k].operator = wallet THEN ReinstateSensor(c, call) ELSE {}
BY DEF Execute, Call, ByOperator, Registered

LEMMA ExecuteExclude ==
  ASSUME NEW c, NEW k, NEW wallet, NEW call, call = Call("exclude", k, wallet)
  PROVE  Execute(c, call) = IF k \in DOMAIN c.sensors THEN ExcludeSensor(c, call) ELSE {}
BY DEF Execute, Call, Registered

(* A transaction of one call, and of two. *)
LEMMA RunOfOne ==
  ASSUME NEW c, NEW one, NEW tx, tx = <<one>>
  PROVE  Run(c, tx) = Execute(c, one)
BY DEF Run

LEMMA RunOfTwo ==
  ASSUME NEW c, NEW one, NEW two, NEW tx, tx = <<one, two>>
  PROVE  \A x : x \in Run(c, tx) <=> \E y \in Execute(c, one) : x \in Execute(y, two)
BY DEF Run

LEMMA PageCallKeeps ==
  ASSUME NEW c, NEW m, NEW d, NEW a, Fine(c, m, d, a),
         NEW call \in PageCalls, NEW x \in Execute(c, call)
  PROVE  Fine(x, m, d, a) /\ (EarningsFine(c, d) => EarningsFine(x, d))
<1>1. CASE \E k \in SensorKeys, wallet \in Wallets, site \in SensorCells :
             call = CallIn("register", k, wallet, site)
  <2>1. PICK k \in SensorKeys, wallet \in Wallets, site \in SensorCells :
          call = CallIn("register", k, wallet, site)
    BY <1>1
  <2>2. x \in RegisterSensor(c, CallIn("register", k, wallet, site))
    BY <2>1, ExecuteRegister
  <2> QED BY <2>2, RegisterKeeps
<1>2. CASE \E k \in SensorKeys, wallet \in Wallets, site \in SensorCells :
             call = CallIn("move", k, wallet, site)
  <2>1. PICK k \in SensorKeys, wallet \in Wallets, site \in SensorCells :
          call = CallIn("move", k, wallet, site)
    BY <1>2
  <2>2. k \in DOMAIN c.sensors /\ x \in MoveSensor(c, CallIn("move", k, wallet, site))
    BY <2>1, ExecuteMove
  <2> QED BY <2>2, MoveKeeps
<1>3. CASE \E k \in SensorKeys, wallet \in Wallets, site \in SensorCells :
             call = CallIn("claim", k, wallet, site)
  <2>1. PICK k \in SensorKeys, wallet \in Wallets, site \in SensorCells :
          call = CallIn("claim", k, wallet, site)
    BY <1>3
  <2>2. k \in DOMAIN c.sensors /\ x \in ClaimReward(c, CallIn("claim", k, wallet, site))
    BY <2>1, ExecuteClaim
  <2> QED BY <2>2, ClaimKeeps
<1>4. CASE \E k \in SensorKeys, wallet \in Wallets, amount \in Nat \ {0} :
             call = CallFor("stake", k, wallet, amount)
  <2>1. PICK k \in SensorKeys, wallet \in Wallets, amount \in Nat \ {0} :
          call = CallFor("stake", k, wallet, amount)
    BY <1>4
  <2>2. k \in DOMAIN c.sensors /\ x \in StakeSensor(c, CallFor("stake", k, wallet, amount))
    BY <2>1, ExecuteStake
  <2> QED BY <2>2, StakeKeeps
<1> QED BY <1>1, <1>2, <1>3, <1>4 DEF PageCalls

LEMMA PageTransactionKeeps ==
  ASSUME NEW c, NEW m, NEW d, NEW a, Fine(c, m, d, a),
         NEW tx \in PageTransactions, NEW x \in Run(c, tx)
  PROVE  Fine(x, m, d, a) /\ (EarningsFine(c, d) => EarningsFine(x, d))
<1>1. CASE \E one \in PageCalls : tx = <<one>>
  BY <1>1, RunOfOne, PageCallKeeps
<1>2. CASE \E one \in PageCalls, two \in PageCalls : tx = <<one, two>>
  <2>1. PICK one \in PageCalls, two \in PageCalls : tx = <<one, two>>
    BY <1>2
  <2>2. PICK y \in Execute(c, one) : x \in Execute(y, two)
    BY <2>1, RunOfTwo
  <2>3. Fine(y, m, d, a) /\ (EarningsFine(c, d) => EarningsFine(y, d))
    BY <2>2, PageCallKeeps
  <2> QED BY <2>2, <2>3, PageCallKeeps
<1> QED BY <1>1, <1>2 DEF PageTransactions

(* What a page plans is made of its calls. *)
LEMMA PlansAreOfPageCalls ==
  ASSUME NEW c \in Chains, NEW k \in SensorKeys, NEW wallet \in Wallets, NEW site \in SensorCells,
         NEW funded \in BOOLEAN
  PROVE  /\ PlanFor(c, k, wallet, site) # NoPlan => PlanFor(c, k, wallet, site) \in PageTransactions
         /\ MovePlanFor(c, k, wallet, site, funded) # NoPlan =>
              MovePlanFor(c, k, wallet, site, funded) \in PageTransactions
         /\ ClaimPlanFor(c, k, wallet, site, funded) # NoPlan =>
              ClaimPlanFor(c, k, wallet, site, funded) \in PageTransactions
<1> DEFINE s == c.sensors[k]
           register == CallIn("register", k, wallet, site)
           stake(n) == CallFor("stake", k, wallet, n)
           move     == CallIn("move", k, wallet, site)
           claim(x) == CallIn("claim", k, wallet, x)
<1>1. /\ register \in PageCalls /\ move \in PageCalls
      /\ \A x \in SensorCells : claim(x) \in PageCalls
      /\ \A n \in Nat \ {0} : stake(n) \in PageCalls
  BY DEF PageCalls
<1> HIDE DEF register, stake, move, claim
<1>2. ASSUME NEW one \in PageCalls, NEW two \in PageCalls
      PROVE  <<one>> \in PageTransactions /\ <<one, two>> \in PageTransactions
  BY DEF PageTransactions
<1>3. PlanFor(c, k, wallet, site) # NoPlan => PlanFor(c, k, wallet, site) \in PageTransactions
  <2>1. CASE k \notin DOMAIN c.sensors
    <3>1. PlanFor(c, k, wallet, site) \in {NoPlan, <<register, stake(MinStake)>>}
      BY <2>1 DEF PlanFor, register, stake
    <3>2. stake(MinStake) \in PageCalls
      BY <1>1, RegistryAssumption
    <3> QED BY <1>1, <1>2, <3>1, <3>2
  <2>2. CASE k \in DOMAIN c.sensors
    <3>1. PlanFor(c, k, wallet, site) # NoPlan => /\ PlanFor(c, k, wallet, site) = <<stake(MinStake - s.stake)>>
                                                  /\ ~(s.stake >= MinStake)
      BY <2>2 DEF PlanFor, stake
    <3>2. s.stake \in Nat
      BY <2>2, RowType
    <3>3. ~(s.stake >= MinStake) => stake(MinStake - s.stake) \in PageCalls
      BY <1>1, <3>2, RegistryAssumption
    <3> QED BY <1>2, <3>1, <3>3
  <2> QED BY <2>1, <2>2
<1>4. MovePlanFor(c, k, wallet, site, funded) # NoPlan => MovePlanFor(c, k, wallet, site, funded) \in PageTransactions
  <2>1. SUFFICES ASSUME MovePlanFor(c, k, wallet, site, funded) # NoPlan
                 PROVE  MovePlanFor(c, k, wallet, site, funded) \in PageTransactions
    OBVIOUS
  <2>2. k \in DOMAIN c.sensors
    BY <2>1 DEF MovePlanFor
  <2>4. MovePlanFor(c, k, wallet, site, funded) \in {<<move>>, <<claim(s.previousCellId), move>>}
    BY <2>1 DEF MovePlanFor, claim, move
  <2>5. claim(s.previousCellId) \in PageCalls
    BY <1>1, <2>2, RowType
  <2> QED BY <1>1, <1>2, <2>4, <2>5
<1>5. ClaimPlanFor(c, k, wallet, site, funded) # NoPlan =>
        ClaimPlanFor(c, k, wallet, site, funded) \in PageTransactions
  <2>1. ClaimPlanFor(c, k, wallet, site, funded) \in {NoPlan, <<claim(site)>>}
    BY DEF ClaimPlanFor, claim
  <2> QED BY <1>1, <1>2, <2>1
<1> QED BY <1>3, <1>4, <1>5

-----------------------------------------------------------------------------
(***************************************************************************)
(* The worker.                                                             *)
(***************************************************************************)

(* The slots that may be judged are the mirror's. *)
LEMMA VotersAreInTheMirror ==
  ASSUME NEW site, NEW date, NEW slot \in VotersOn(site, date)
  PROVE  \E k \in DOMAIN mirror : MayBeJudged(mirror[k], site, slot, date)
<1>1. PICK k \in DOMAIN mirror : \E at \in SlotsOf(mirror[k]) :
        /\ at[1] = site /\ at[2] = slot
        /\ mirror[k].movedAt # Never =>
             IF at = Held(mirror[k]) THEN date >= mirror[k].movedAt ELSE date <= mirror[k].movedAt
  BY DEF VotersOn
<1> PICK at \in SlotsOf(mirror[k]) :
        /\ at[1] = site /\ at[2] = slot
        /\ mirror[k].movedAt # Never =>
             IF at = Held(mirror[k]) THEN date >= mirror[k].movedAt ELSE date <= mirror[k].movedAt
  BY <1>1
<1>2. at = <<site, slot>> /\ Has(mirror[k], site, slot)
  BY PlacesOf
<1>3. at = Held(mirror[k]) <=> IsHeldAt(mirror[k], site, slot)
  BY <1>2 DEF Held, IsHeldAt
<1> QED BY <1>2, <1>3 DEF MayBeJudged

(* The mirror of a row says where the sensor is. *)
LEMMA MirrorOfARow ==
  ASSUME NEW s, NEW r, r = ChainSensorOf(s)
  PROVE  /\ r.movedAt = s.movedAt
         /\ IsHeldAt(r, s.cellId, s.slotInCell)
         /\ \A site, slot : Has(r, site, slot) <=> Has(s, site, slot)
         /\ SlotsOf(r) = SlotsOf(s)
BY DEF ChainSensorOf, IsHeldAt, Has, WasAt, SlotsOf, Held, Previous

(* A scan copies the rows it finds. *)
LEMMA ScanKeepsMirror ==
  ASSUME NEW c \in Chains, NEW m \in Mirrors, NEW d, SlotsFine(c), MirrorFine(c, m, d),
         NEW changed \in SUBSET DOMAIN c.sensors,
         NEW w, w = [k \in changed \cup DOMAIN m |->
                       IF k \in changed THEN ChainSensorOf(c.sensors[k]) ELSE m[k]]
  PROVE  w \in Mirrors /\ MirrorFine(c, w, d)
<1>1. PICK D \in SUBSET SensorKeys : m \in [D -> MirrorRow]
  BY DEF Mirrors
<1>2. \A k \in DOMAIN c.sensors : k \in SensorKeys /\ ChainSensorOf(c.sensors[k]) \in MirrorRow
  BY RowType DEF ChainSensorOf, Row, MirrorRow
<1>3. w \in Mirrors
  <2>1. w \in [changed \cup D -> MirrorRow] /\ changed \cup D \in SUBSET SensorKeys
    BY <1>1, <1>2
  <2> QED BY <2>1 DEF Mirrors
<1>4. ASSUME NEW k \in DOMAIN w
      PROVE  /\ k \in DOMAIN c.sensors
             /\ \/ c.sensors[k].movedAt = c.today
                \/ w[k].movedAt = c.sensors[k].movedAt /\ IsHeldAt(w[k], c.sensors[k].cellId, c.sensors[k].slotInCell)
             /\ \A site \in SensorCells, slot \in Slot : Has(w[k], site, slot) =>
                  /\ slot < c.taken[site]
                  /\ Has(c.sensors[k], site, slot) \/ <<site, slot>> \in d \/ LeftLongAgo(w[k], site, slot, c.today)
  <2>1. CASE k \in changed
    <3>1. w[k] = ChainSensorOf(c.sensors[k])
      BY <2>1
    <3>2. /\ w[k].movedAt = c.sensors[k].movedAt
          /\ IsHeldAt(w[k], c.sensors[k].cellId, c.sensors[k].slotInCell)
          /\ \A site, slot : Has(w[k], site, slot) <=> Has(c.sensors[k], site, slot)
      BY <3>1, MirrorOfARow
    <3> QED BY <2>1, <3>2 DEF SlotsFine
  <2>2. CASE k \notin changed
    <3>1. k \in DOMAIN m /\ w[k] = m[k]
      BY <1>4, <2>2
    <3> QED BY <3>1 DEF MirrorFine
  <2> QED BY <2>1, <2>2
<1>5. MirrorFine(c, w, d)
  BY <1>4 DEF MirrorFine
<1> QED BY <1>3, <1>5

-----------------------------------------------------------------------------
(***************************************************************************)
(* The invariant.                                                          *)
(***************************************************************************)

LEMMA SensorsStart == SensorsInit => SensorsInv /\ EarningsInv
<1> SUFFICES ASSUME SensorsInit PROVE SensorsInv /\ EarningsInv
  OBVIOUS
<1> USE DEF SensorsInit, RegistryStart
<1>1. DOMAIN chain.sensors = {} /\ chain.sensors = <<>>
  OBVIOUS
<1>2. chain \in Chains
  <2>1. <<>> \in [{} -> Row]
    OBVIOUS
  <2>2. NoRecord \in SlotRecord
    BY DEF NoRecord, SlotRecord
  <2>3. SlotsPerCell \in Nat
    BY RegistryAssumption
  <2>4. chain.sensors \in UNION {[D -> Row] : D \in SUBSET SensorKeys}
    BY <1>1, <2>1
  <2>5. Never \in DayOrNever
    BY DEF DayOrNever
  <2>6. /\ chain.today \in Nat /\ chain.vault \in Int
        /\ chain.taken \in [SensorCells -> 0 .. SlotsPerCell]
        /\ chain.lastDay \in [SensorCells -> DayOrNever]
        /\ chain.accrued \in [SensorCells -> [Slot -> Nat]]
    BY <2>3, <2>5
  <2>7. chain.record \in [SensorCells -> [Slot -> SlotRecord]]
    BY <2>2
  <2>8. chain = [today |-> chain.today, sensors |-> chain.sensors, taken |-> chain.taken,
                 lastDay |-> chain.lastDay, record |-> chain.record, accrued |-> chain.accrued,
                 vault |-> chain.vault]
    OBVIOUS
  <2> QED BY <2>4, <2>6, <2>7, <2>8 DEF Chains
<1>3. SlotsFine(chain) /\ MovesFine(chain) /\ ThawFine(chain, askedOn)
  BY <1>1 DEF SlotsFine, MovesFine, ThawFine
<1>4. StakesFine(chain)
  <2> DEFINE f == [k \in DOMAIN chain.sensors |-> chain.sensors[k].stake + chain.sensors[k].unstaking]
  <2>1. DOMAIN f = {}
    BY <1>1
  <2> HIDE DEF f
  <2>2. SumFunction(f) = 0 /\ IsFiniteSet({})
    BY <2>1, SumOfNone, FS_EmptySet DEF SumFunction
  <2> QED BY <1>1, <2>2 DEF StakesFine, f
<1>5. MirrorFine(chain, mirror, dropped) /\ mirror \in Mirrors
  <2>1. mirror \in [{} -> MirrorRow] /\ DOMAIN mirror = {}
    OBVIOUS
  <2> QED BY <2>1 DEF MirrorFine, Mirrors
<1>6. RecordsFine(chain) /\ EarningsFine(chain, dropped)
  BY SensorsAssumption DEF RecordsFine, EarningsFine
<1>7. sent \subseteq PageTransactions /\ askedOn \in [SensorKeys -> DayOrNever]
  BY DEF DayOrNever
<1> QED BY <1>2, <1>3, <1>4, <1>5, <1>6, <1>7 DEF SensorsInv, EarningsInv, Fine

(* What a step that leaves the pages and the mirror alone has to keep.     *)
LEMMA ChainStep ==
  ASSUME SensorsInv, UNCHANGED <<mirror, sent>>, askedOn' \in [SensorKeys -> DayOrNever],
         Fine(chain', mirror, dropped', askedOn'),
         EarningsFine(chain, dropped) => EarningsFine(chain', dropped')
  PROVE  SensorsInv' /\ (EarningsInv => EarningsInv')
BY DEF SensorsInv, EarningsInv

LEMMA SensorsPagesStep == SensorsInv /\ PagesStep => SensorsInv' /\ (EarningsInv => EarningsInv')
<1> SUFFICES ASSUME SensorsInv, PagesStep PROVE SensorsInv' /\ (EarningsInv => EarningsInv')
  OBVIOUS
<1>0. chain \in Chains /\ sent \subseteq PageTransactions /\ Fine(chain, mirror, dropped, askedOn)
  BY FineIs DEF SensorsInv
<1>1. ASSUME NEW plan \in PageTransactions, Send(plan)
      PROVE  SensorsInv' /\ (EarningsInv => EarningsInv')
  BY <1>1 DEF Send, SensorsInv, EarningsInv
<1>2. ASSUME NEW key \in SensorKeys \ Bystanders, NEW wallet \in Wallets, NEW cellId \in SensorCells,
             NEW funded \in BOOLEAN,
             \/ PressRegister(key, wallet, cellId, funded)
             \/ PressMove(key, wallet, cellId, funded)
             \/ PressClaim(key, wallet, cellId, funded)
      PROVE  SensorsInv' /\ (EarningsInv => EarningsInv')
  <2>1. CASE PressRegister(key, wallet, cellId, funded)
    <3>1. Send(PlanFor(chain, key, wallet, cellId)) /\ PlanFor(chain, key, wallet, cellId) # NoPlan
      BY <2>1 DEF PressRegister, Send
    <3> QED BY <1>0, <1>1, <3>1, PlansAreOfPageCalls
  <2>2. CASE PressMove(key, wallet, cellId, funded)
    <3>1. Send(MovePlanFor(chain, key, wallet, cellId, funded)) /\ MovePlanFor(chain, key, wallet, cellId, funded) # NoPlan
      BY <2>2 DEF PressMove, Send
    <3> QED BY <1>0, <1>1, <3>1, PlansAreOfPageCalls
  <2>3. CASE PressClaim(key, wallet, cellId, funded)
    <3>1. Send(ClaimPlanFor(chain, key, wallet, cellId, funded)) /\ ClaimPlanFor(chain, key, wallet, cellId, funded) # NoPlan
      BY <2>3 DEF PressClaim, Send
    <3> QED BY <1>0, <1>1, <3>1, PlansAreOfPageCalls
  <2> QED BY <1>2, <2>1, <2>2, <2>3
<1>3. ASSUME NEW tx \in sent, TransactionLands(tx)
      PROVE  SensorsInv' /\ (EarningsInv => EarningsInv')
  <2>1. /\ sent' \subseteq PageTransactions
        /\ UNCHANGED <<mirror, dropped, askedOn>>
        /\ chain' = chain \/ chain' \in Run(chain, tx)
    BY <1>0, <1>3 DEF TransactionLands
  <2>2. Fine(chain', mirror, dropped, askedOn)
        /\ (EarningsFine(chain, dropped) => EarningsFine(chain', dropped))
    BY <1>0, <2>1, PageTransactionKeeps
  <2> QED BY <2>1, <2>2 DEF SensorsInv, EarningsInv
<1>4. ASSUME NEW tx \in sent, TransactionExpires(tx)
      PROVE  SensorsInv' /\ (EarningsInv => EarningsInv')
  BY <1>4 DEF TransactionExpires, SensorsInv, EarningsInv
<1> QED BY <1>2, <1>3, <1>4 DEF PagesStep

LEMMA SensorsOperatorsStep == SensorsInv /\ OperatorsStep => SensorsInv' /\ (EarningsInv => EarningsInv')
<1> SUFFICES ASSUME SensorsInv, OperatorsStep PROVE SensorsInv' /\ (EarningsInv => EarningsInv')
  OBVIOUS
<1>0. /\ chain \in Chains /\ Fine(chain, mirror, dropped, askedOn)
      /\ askedOn \in [SensorKeys -> DayOrNever] /\ chain.today \in DayOrNever /\ Never \in DayOrNever
  BY FineIs DEF SensorsInv, Chains, DayOrNever
<1>1. ASSUME NEW key \in SensorKeys, NEW amount \in 1 .. MinStake, RequestsUnstake(key, amount)
      PROVE  SensorsInv' /\ (EarningsInv => EarningsInv')
  <2>1. key \in DOMAIN chain.sensors /\ amount \in Nat
    BY <1>1 DEF RequestsUnstake
  <2> DEFINE operator == chain.sensors[key].operator
             call     == CallFor("request", key, operator, amount)
  <2>2. chain' \in Run(chain, <<call>>)
    BY <1>1 DEF RequestsUnstake
  <2>3. chain' \in RequestUnstake(chain, call)
    <3>1. Run(chain, <<call>>) = Execute(chain, call)
      BY RunOfOne
    <3>2. Execute(chain, call)
            = IF key \in DOMAIN chain.sensors /\ operator = operator THEN RequestUnstake(chain, call) ELSE {}
      BY ExecuteRequest
    <3> QED BY <2>1, <2>2, <3>1, <3>2
  <2>4. /\ askedOn' = LastAsked(askedOn, key, chain.today)
        /\ askedOn' \in [SensorKeys -> DayOrNever]
        /\ UNCHANGED <<mirror, sent, dropped>>
    BY <1>0, <1>1 DEF RequestsUnstake, LastAsked
  <2>5. /\ Fine(chain', mirror, dropped, askedOn')
        /\ EarningsFine(chain, dropped) => EarningsFine(chain', dropped)
    BY <1>0, <2>1, <2>3, <2>4, RequestKeeps
  <2> HIDE DEF operator, call
  <2> QED BY <1>0, <2>4, <2>5, ChainStep
<1>2. ASSUME NEW key \in SensorKeys, NEW wallet \in Wallets, NEW cellId \in SensorCells,
             Joins(key, wallet, cellId)
      PROVE  SensorsInv' /\ (EarningsInv => EarningsInv')
  <2> DEFINE call == CallIn("register", key, wallet, cellId)
  <2>1. chain' \in Execute(chain, call) /\ UNCHANGED <<mirror, sent, dropped, askedOn>>
    BY <1>2, RunOfOne DEF Joins
  <2>2. call \in PageCalls
    BY DEF PageCalls
  <2> HIDE DEF call
  <2>3. Fine(chain', mirror, dropped, askedOn) /\ (EarningsFine(chain, dropped) => EarningsFine(chain', dropped))
    BY <1>0, <2>1, <2>2, PageCallKeeps
  <2> QED BY <1>0, <2>1, <2>3, ChainStep
<1>3. ASSUME NEW key \in SensorKeys, Withdraws(key)
      PROVE  SensorsInv' /\ (EarningsInv => EarningsInv')
  <2> DEFINE operator == chain.sensors[key].operator
             call     == Call("withdraw", key, operator)
  <2>1. /\ key \in DOMAIN chain.sensors
        /\ chain' \in Execute(chain, call)
        /\ askedOn' = LastAsked(askedOn, key, Never)
        /\ askedOn' \in [SensorKeys -> DayOrNever]
        /\ UNCHANGED <<mirror, sent, dropped>>
    BY <1>0, <1>3, RunOfOne DEF Withdraws, LastAsked
  <2>2. chain' \in WithdrawStake(chain, call)
    BY <2>1, ExecuteWithdraw
  <2>3. /\ Fine(chain', mirror, dropped, askedOn')
        /\ EarningsFine(chain, dropped) => EarningsFine(chain', dropped)
    BY <1>0, <2>1, <2>2, WithdrawKeeps
  <2> HIDE DEF operator, call
  <2> QED BY <1>0, <2>1, <2>3, ChainStep
<1>4. ASSUME NEW key \in SensorKeys, Reinstates(key)
      PROVE  SensorsInv' /\ (EarningsInv => EarningsInv')
  <2> DEFINE operator == chain.sensors[key].operator
             call     == Call("reinstate", key, operator)
  <2>1. /\ key \in DOMAIN chain.sensors
        /\ chain' \in Execute(chain, call)
        /\ dropped' = dropped \cup Previous(chain.sensors[key])
        /\ UNCHANGED <<mirror, sent, askedOn>>
    BY <1>4, RunOfOne DEF Reinstates
  <2>2. chain' \in ReinstateSensor(chain, call)
    BY <2>1, ExecuteReinstate
  <2>3. /\ Fine(chain', mirror, dropped', askedOn)
        /\ EarningsFine(chain, dropped) => EarningsFine(chain', dropped')
    BY <1>0, <2>1, <2>2, ReinstateKeeps
  <2> HIDE DEF operator, call
  <2> QED BY <1>0, <2>1, <2>3, ChainStep
<1>5. ASSUME NEW key \in SensorKeys, AnyoneExcludes(key)
      PROVE  SensorsInv' /\ (EarningsInv => EarningsInv')
  <2>1. PICK wallet \in Wallets : chain' \in Run(chain, <<Call("exclude", key, wallet)>>)
    BY <1>5 DEF AnyoneExcludes
  <2> DEFINE call == Call("exclude", key, wallet)
  <2>2. /\ key \in DOMAIN chain.sensors
        /\ chain' \in Execute(chain, call)
        /\ askedOn' = LastAsked(askedOn, key, Never)
        /\ askedOn' \in [SensorKeys -> DayOrNever]
        /\ UNCHANGED <<mirror, sent, dropped>>
    BY <1>0, <1>5, <2>1, RunOfOne DEF AnyoneExcludes, LastAsked
  <2>3. chain' \in ExcludeSensor(chain, call)
    BY <2>2, ExecuteExclude
  <2>4. /\ Fine(chain', mirror, dropped, askedOn')
        /\ EarningsFine(chain, dropped) => EarningsFine(chain', dropped)
    BY <1>0, <2>2, <2>3, ExcludeKeeps
  <2> HIDE DEF call
  <2> QED BY <1>0, <2>2, <2>4, ChainStep
<1> QED BY <1>1, <1>2, <1>3, <1>4, <1>5 DEF OperatorsStep

LEMMA SensorsWorkerStep ==
  SensorsInv /\ WorkerStep => SensorsInv' /\ (MaxLate <= OutlierWindow /\ EarningsInv => EarningsInv')
<1> SUFFICES ASSUME SensorsInv, WorkerStep
             PROVE  SensorsInv' /\ (MaxLate <= OutlierWindow /\ EarningsInv => EarningsInv')
  OBVIOUS
<1>0. /\ chain \in Chains /\ PlacesFine(chain, mirror, dropped) /\ StakesFine(chain) /\ ThawFine(chain, askedOn)
      /\ Fine(chain, mirror, dropped, askedOn) /\ mirror \in Mirrors /\ sent \subseteq PageTransactions
      /\ askedOn \in [SensorKeys -> DayOrNever] /\ Never \in DayOrNever
  BY FineIs DEF SensorsInv, DayOrNever
<1>1. ASSUME SyncIfDue PROVE SensorsInv' /\ (EarningsInv => EarningsInv')
  <2>1. PICK found \in SUBSET DOMAIN chain.sensors :
          LET scan    == [k \in found |-> chain.sensors[k]]
              changed == DiffRegistry(scan, mirror) IN
          /\ mirror' = [k \in changed \cup DOMAIN mirror |->
                          IF k \in changed THEN ChainSensorOf(scan[k]) ELSE mirror[k]]
          /\ UNCHANGED <<chain, sent, dropped, askedOn>>
    BY <1>1 DEF SyncIfDue
  <2> DEFINE scan    == [k \in found |-> chain.sensors[k]]
             changed == DiffRegistry(scan, mirror)
  <2>2. changed \in SUBSET DOMAIN chain.sensors /\ changed \subseteq found
    BY DEF DiffRegistry
  <2>3. mirror' = [k \in changed \cup DOMAIN mirror |->
                     IF k \in changed THEN ChainSensorOf(chain.sensors[k]) ELSE mirror[k]]
    <3>1. \A k \in changed : scan[k] = chain.sensors[k]
      BY <2>2
    <3>2. mirror' = [k \in changed \cup DOMAIN mirror |->
                       IF k \in changed THEN ChainSensorOf(scan[k]) ELSE mirror[k]]
      BY <2>1
    <3> HIDE DEF scan, changed
    <3> QED BY <3>1, <3>2
  <2> HIDE DEF changed
  <2>4. SlotsFine(chain) /\ MirrorFine(chain, mirror, dropped)
    BY <1>0 DEF PlacesFine
  <2>5. mirror' \in Mirrors /\ MirrorFine(chain, mirror', dropped)
    BY <1>0, <2>2, <2>3, <2>4, ScanKeepsMirror
  <2>6. PlacesFine(chain, mirror', dropped)
    BY <1>0, <2>5 DEF PlacesFine
  <2>7. Fine(chain, mirror', dropped, askedOn)
    BY <1>0, <2>6, FineIs
  <2> QED BY <1>0, <2>1, <2>5, <2>7 DEF SensorsInv, EarningsInv
<1>2. ASSUME NEW cellId \in SensorCells, DayIsWritten(cellId)
      PROVE  SensorsInv' /\ (MaxLate <= OutlierWindow /\ EarningsInv => EarningsInv')
  <2> DEFINE date == chain.lastDay[cellId] + 1
  <2>1. PICK judged \in SUBSET VotersOn(cellId, date) : \E verdicts \in [judged -> {"kept", "outlier"}] :
          chain' \in SubmitDayReputation(chain, cellId, date, verdicts)
    BY <1>2 DEF DayIsWritten
  <2>2. PICK verdicts \in [judged -> {"kept", "outlier"}] :
          chain' \in SubmitDayReputation(chain, cellId, date, verdicts)
    BY <2>1
  <2>3. \A slot \in DOMAIN verdicts : \E k \in DOMAIN mirror : MayBeJudged(mirror[k], cellId, slot, date)
    BY <2>1, <2>2, VotersAreInTheMirror
  <2>4. UNCHANGED <<mirror, sent, dropped, askedOn>>
    BY <1>2 DEF DayIsWritten
  <2> PICK on : on = date
    OBVIOUS
  <2>5. /\ chain' \in Chains
        /\ chain'.sensors = chain.sensors /\ chain'.vault = chain.vault
        /\ PlacesFine(chain', mirror, dropped)
        /\ MaxLate <= OutlierWindow /\ EarningsFine(chain, dropped) => EarningsFine(chain', dropped)
    <3> HIDE DEF date
    <3>1. on = chain.lastDay[cellId] + 1
      BY DEF date
    <3> QED BY <1>0, <2>2, <2>3, <3>1, DayKeepsPlaces
  <2>6. StakesFine(chain') /\ ThawFine(chain', askedOn)
    BY <1>0, <2>5, StakesOfTheSame DEF ThawFine
  <2>7. Fine(chain', mirror, dropped, askedOn)
    BY <2>5, <2>6, FineIs
  <2> QED BY <1>0, <2>4, <2>5, <2>7 DEF SensorsInv, EarningsInv
<1>3. ASSUME NEW cellId \in SensorCells, WorkerExcludes(cellId)
      PROVE  SensorsInv' /\ (EarningsInv => EarningsInv')
  <2>1. PICK k \in Breaching(cellId), wallet \in Wallets :
          /\ chain' \in Run(chain, <<Call("exclude", k, wallet)>>)
          /\ askedOn' = [askedOn EXCEPT ![k] = Never]
    BY <1>3 DEF WorkerExcludes
  <2> DEFINE call == Call("exclude", k, wallet)
  <2>2. k \in DOMAIN chain.sensors
    BY <1>0, <2>1 DEF Breaching, PlacesFine, MirrorFine
  <2>3. /\ chain' \in Execute(chain, call)
        /\ askedOn' = LastAsked(askedOn, k, Never)
        /\ askedOn' \in [SensorKeys -> DayOrNever]
        /\ UNCHANGED <<mirror, sent, dropped>>
    BY <1>0, <1>3, <2>1, RunOfOne DEF WorkerExcludes, LastAsked
  <2>4. chain' \in ExcludeSensor(chain, call)
    BY <2>2, <2>3, ExecuteExclude
  <2>5. /\ Fine(chain', mirror, dropped, askedOn')
        /\ EarningsFine(chain, dropped) => EarningsFine(chain', dropped)
    BY <1>0, <2>2, <2>3, <2>4, ExcludeKeeps
  <2> HIDE DEF call
  <2> QED BY <1>0, <2>3, <2>5, ChainStep
<1> QED BY <1>1, <1>2, <1>3 DEF WorkerStep

LEMMA SensorsDayStep == SensorsInv /\ DayPasses => SensorsInv' /\ (EarningsInv => EarningsInv')
<1> SUFFICES ASSUME SensorsInv, DayPasses PROVE SensorsInv' /\ (EarningsInv => EarningsInv')
  OBVIOUS
<1>0. /\ chain \in Chains /\ PlacesFine(chain, mirror, dropped) /\ StakesFine(chain) /\ ThawFine(chain, askedOn)
      /\ mirror \in Mirrors /\ sent \subseteq PageTransactions /\ askedOn \in [SensorKeys -> DayOrNever]
  BY FineIs DEF SensorsInv
<1>1. /\ \A c \in SensorCells : chain.lastDay[c] >= chain.today - MaxLate
      /\ mirror = [k \in DOMAIN chain.sensors |-> ChainSensorOf(chain.sensors[k])]
      /\ chain' = NextDay(chain)
      /\ UNCHANGED <<mirror, sent, dropped, askedOn>>
  BY DEF DayPasses, MirrorIsTheChain
<1>2. /\ chain' \in Chains
      /\ chain'.sensors = chain.sensors /\ chain'.vault = chain.vault
      /\ PlacesFine(chain', mirror, dropped)
      /\ EarningsFine(chain, dropped) => EarningsFine(chain', dropped)
  BY <1>0, <1>1, NextDayKeepsPlaces
<1>3. StakesFine(chain') /\ ThawFine(chain', askedOn)
  BY <1>0, <1>2, StakesOfTheSame DEF ThawFine
<1>4. Fine(chain', mirror, dropped, askedOn)
  BY <1>2, <1>3, FineIs
<1> QED BY <1>0, <1>1, <1>2, <1>4 DEF SensorsInv, EarningsInv

LEMMA SensorsSteps ==
  SensorsInv /\ [SensorsNext]_sensorVars =>
    SensorsInv' /\ (MaxLate <= OutlierWindow /\ EarningsInv => EarningsInv')
<1>1. ASSUME SensorsInv, UNCHANGED sensorVars PROVE SensorsInv' /\ (EarningsInv => EarningsInv')
  BY <1>1 DEF sensorVars, SensorsInv, EarningsInv
<1> QED BY <1>1, SensorsPagesStep, SensorsOperatorsStep, SensorsWorkerStep, SensorsDayStep DEF SensorsNext

(* What a sensor's row, its mirror and its stake always are to each other. *)
THEOREM SensorsAreKept == SensorsSpec => []SensorsInv
<1>1. SensorsInit => SensorsInv
  BY SensorsStart
<1>2. SensorsInv /\ [SensorsNext]_sensorVars => SensorsInv'
  BY SensorsSteps
<1> QED BY <1>1, <1>2, PTL DEF SensorsSpec

(* Whatever is registered, moved, excluded or reinstated, no slot has two  *)
(* owners, and one not given out yet has no past (next_slot).              *)
THEOREM SlotsAreNeverShared == SensorsSpec => []SlotsNeverShared
<1>1. SensorsInv => SlotsNeverShared
  <2> SUFFICES ASSUME SensorsInv PROVE SlotsNeverShared
    OBVIOUS
  <2>1. chain \in Chains /\ SlotsFine(chain)
    BY DEF SensorsInv, Fine
  <2>2. ASSUME NEW j \in OnChain, NEW k \in OnChain, j # k,
               NEW at \in SlotsOf(chain.sensors[j]), at \in SlotsOf(chain.sensors[k])
        PROVE  FALSE
    <3>1. at = <<at[1], at[2]>> /\ at[1] \in SensorCells /\ at[2] \in Slot
      BY <2>1, PlacesOf, PlacesArePlaces DEF OnChain
    <3>2. Has(chain.sensors[j], at[1], at[2]) /\ Has(chain.sensors[k], at[1], at[2])
      BY <2>2, <3>1, PlacesOf
    <3> QED BY <2>1, <2>2, <3>1, <3>2 DEF SlotsFine, OnChain
  <2>3. ASSUME NEW c \in SensorCells, NEW slot \in chain.taken[c] .. (SlotsPerCell - 1)
        PROVE  chain.record[c][slot] = NoRecord /\ chain.accrued[c][slot] = 0
    <3>1. chain.taken[c] \in Nat
      BY <2>1 DEF Chains
    <3>2. slot \in Slot /\ slot >= chain.taken[c]
      BY <3>1, RegistryAssumption DEF Slot
    <3> QED BY <2>1, <3>2 DEF SlotsFine
  <2>4. ASSUME NEW k \in OnChain, NEW at \in SlotsOf(chain.sensors[k])
        PROVE  at[2] < chain.taken[at[1]]
    <3>1. at = <<at[1], at[2]>> /\ at[1] \in SensorCells /\ at[2] \in Slot
      BY <2>1, PlacesOf, PlacesArePlaces DEF OnChain
    <3>2. Has(chain.sensors[k], at[1], at[2])
      BY <3>1, PlacesOf
    <3> QED BY <2>1, <3>1, <3>2 DEF SlotsFine, OnChain
  <2> QED BY <2>2, <2>3, <2>4 DEF SlotsNeverShared
<1> QED BY <1>1, SensorsAreKept, PTL

(* The stake vault holds the stakes and what is leaving them, and nothing  *)
(* else: requests, withdrawals and burns move it by what they move.        *)
THEOREM StakesAreAlwaysInTheVault == SensorsSpec => []StakesAreInTheVault
<1>1. SensorsInv => StakesAreInTheVault
  BY DEF SensorsInv, Fine, StakesFine, StakesAreInTheVault, OnChain
<1> QED BY <1>1, SensorsAreKept, PTL

(* Provided days are recorded before their sensor can move twice, every    *)
(* slot has one owner, every stake is in the vault, and every earning has  *)
(* somebody who can claim it, or was dropped by a reinstatement.           *)
THEOREM NothingIsEverStranded ==
  ASSUME MaxLate <= OutlierWindow PROVE SensorsSpec => []NothingIsStranded
<1>1. SensorsInit => SensorsInv /\ EarningsInv
  BY SensorsStart
<1>2. (SensorsInv /\ EarningsInv) /\ [SensorsNext]_sensorVars => (SensorsInv /\ EarningsInv)'
  BY SensorsSteps
<1>3. SensorsInv /\ EarningsInv => MovesStrandNothing
  <2> SUFFICES ASSUME EarningsInv, NEW c \in SensorCells, NEW slot \in Slot, chain.accrued[c][slot] > 0
               PROVE  (\E k \in OnChain : <<c, slot>> \in SlotsOf(chain.sensors[k])) \/ <<c, slot>> \in dropped
    BY DEF MovesStrandNothing
  <2>1. (\E k \in DOMAIN chain.sensors : Has(chain.sensors[k], c, slot)) \/ <<c, slot>> \in dropped
    BY DEF EarningsInv, EarningsFine
  <2> QED BY <2>1, PlacesOf DEF OnChain
<1>4. SensorsSpec => [](SensorsInv /\ EarningsInv)
  BY <1>1, <1>2, PTL DEF SensorsSpec
<1>5. SensorsSpec => []MovesStrandNothing
  BY <1>3, <1>4, PTL
<1>6. SlotsNeverShared /\ StakesAreInTheVault /\ MovesStrandNothing => NothingIsStranded
  BY DEF NothingIsStranded
<1> QED BY <1>5, <1>6, SlotsAreNeverShared, StakesAreAlwaysInTheVault, PTL

(* A stake that has thawed was last asked for so long ago that no day of   *)
(* the time before is still in the window an exclusion counts.             *)
THEOREM ThawAlwaysOutlastsVerdicts == SensorsSpec => []ThawOutlastsVerdicts
<1>1. SensorsInv => ThawOutlastsVerdicts
  <2> SUFFICES ASSUME SensorsInv, NEW k \in OnChain, Thawed(chain, chain.sensors[k])
               PROVE  chain.today - OutlierWindow > askedOn[k]
    BY DEF ThawOutlastsVerdicts
  <2>1. chain \in Chains /\ ThawFine(chain, askedOn) /\ askedOn \in [SensorKeys -> DayOrNever]
    BY DEF SensorsInv, Fine
  <2>2. /\ askedOn[k] \in Int /\ chain.today \in Nat
        /\ chain.sensors[k].unlockAtDay = askedOn[k] + UnstakeDelay
    BY <2>1, RowType DEF ThawFine, Thawed, OnChain, Chains, DayOrNever
  <2> QED BY <2>2, RegistryAssumption DEF Thawed
<1> QED BY <1>1, SensorsAreKept, PTL

-----------------------------------------------------------------------------
(***************************************************************************)
(* Exclusion and reinstatement.                                            *)
(***************************************************************************)

(* No sensor that was out is in. *)
NoneRevived(c, x) ==
  \A j \in DOMAIN c.sensors : j \in DOMAIN x.sensors /\ (x.sensors[j].active => c.sensors[j].active)

LEMMA NobodyRevived == ASSUME NEW c, NEW x, x.sensors = c.sensors PROVE NoneRevived(c, x)
BY DEF NoneRevived

(* A row that stays as active as it was revives nobody. *)
LEMMA RowRevivesNobody ==
  ASSUME NEW c \in Chains, NEW k \in DOMAIN c.sensors, NEW r \in Row, r.active => c.sensors[k].active,
         NEW x, SetsRow(c, x, k, r)
  PROVE  NoneRevived(c, x)
BY RowsType DEF NoneRevived, SetsRow

LEMMA PageCallRevivesNobody ==
  ASSUME NEW c \in Chains, NEW call \in PageCalls, NEW x \in Execute(c, call)
  PROVE  NoneRevived(c, x)
<1>1. ASSUME NEW k \in SensorKeys, NEW wallet \in Wallets, NEW site \in SensorCells,
             call = CallIn("register", k, wallet, site)
      PROVE  NoneRevived(c, x)
  <2>1. x \in RegisterSensor(c, call) /\ call.key = k
    BY <1>1, ExecuteRegister DEF CallIn
  <2>2. k \notin DOMAIN c.sensors
    BY <2>1 DEF RegisterSensor
  <2>3. \E slot \in NextSlot(c, call.cellId) : x = RegisteredChain(c, call, slot)
    BY <2>1, <2>2 DEF RegisterSensor, RegisteredChain
  <2>4. PICK r : x.sensors = [j \in DOMAIN c.sensors \cup {k} |-> IF j = k THEN r ELSE c.sensors[j]]
    BY <2>1, <2>3 DEF RegisteredChain, Chains
  <2> QED BY <2>2, <2>4 DEF NoneRevived
<1>2. ASSUME NEW k \in SensorKeys, NEW wallet \in Wallets, NEW site \in SensorCells,
             call = CallIn("move", k, wallet, site)
      PROVE  NoneRevived(c, x)
  <2>1. k \in DOMAIN c.sensors /\ x \in MoveSensor(c, call) /\ call.key = k /\ call.cellId = site
    BY <1>2, ExecuteMove DEF CallIn
  <2>2. CheckMove(c, c.sensors[k], site)
    BY <2>1 DEF MoveSensor
  <2>3. PICK slot \in NextSlot(c, site) : x = MovedChain(c, k, site, MovedRow(c.sensors[k], site, slot, c.today))
    BY <2>1, <2>2 DEF MoveSensor, MovedChain, MovedRow
  <2>4. PICK r : r = MovedRow(c.sensors[k], site, slot, c.today) /\ x = MovedChain(c, k, site, r)
    BY <2>3
  <2>5. r \in Row /\ r.active = c.sensors[k].active
    <3>1. c.sensors[k] \in Row /\ slot \in Slot /\ c.today \in Nat
      BY <2>1, RowType, SlotIsGiven DEF Chains
    <3> QED BY <2>4, <3>1 DEF Row, MovedRow, DayOrNever
  <2>6. SetsRow(c, x, k, r)
    BY <2>4 DEF MovedChain, Chains, SetsRow
  <2> QED BY <2>1, <2>5, <2>6, RowRevivesNobody
<1>3. ASSUME NEW k \in SensorKeys, NEW wallet \in Wallets, NEW site \in SensorCells,
             call = CallIn("claim", k, wallet, site)
      PROVE  NoneRevived(c, x)
  <2>1. x \in ClaimReward(c, call)
    BY <1>3, ExecuteClaim
  <2>2. x.sensors = c.sensors
    BY <2>1 DEF ClaimReward, Chains
  <2> QED BY <2>2, NobodyRevived
<1>4. ASSUME NEW k \in SensorKeys, NEW wallet \in Wallets, NEW amount \in Nat \ {0},
             call = CallFor("stake", k, wallet, amount)
      PROVE  NoneRevived(c, x)
  <2>1. k \in DOMAIN c.sensors /\ x \in StakeSensor(c, call) /\ call.key = k /\ call.amount = amount
    BY <1>4, ExecuteStake DEF CallFor
  <2>2. PICK r : r = [c.sensors[k] EXCEPT !.stake = @ + amount] /\ x.sensors = [c.sensors EXCEPT ![k] = r]
    BY <2>1 DEF StakeSensor, Chains
  <2>3. r \in Row /\ r.active = c.sensors[k].active
    <3>1. c.sensors[k] \in Row /\ c.sensors[k].stake + amount \in Nat
      BY <2>1, RowType
    <3> QED BY <2>2, <3>1 DEF Row
  <2>4. SetsRow(c, x, k, r)
    BY <2>2 DEF SetsRow
  <2> QED BY <2>1, <2>3, <2>4, RowRevivesNobody
<1> QED BY <1>1, <1>2, <1>3, <1>4 DEF PageCalls

(* A slot whose record was cleared has nothing to exclude a sensor on.     *)
LEMMA ClearedIsNotExcludable ==
  ASSUME NEW c \in Chains, NEW m, NEW d, NEW a, Fine(c, m, d, a), NEW k \in DOMAIN c.sensors, NEW wallet,
         NEW x \in ReinstateSensor(c, Call("reinstate", k, wallet))
  PROVE  /\ ~Excludable(x, x.sensors[k])
         /\ DOMAIN x.sensors = DOMAIN c.sensors
         /\ \A j \in DOMAIN c.sensors : j # k => x.sensors[j] = c.sensors[j]
<1> DEFINE s == c.sensors[k]
           at == <<s.cellId, s.slotInCell>>
<1>1. PICK r : r = ReinstatedRow(s) /\ x = ReinstatedChain(c, k, s, r)
  BY DEF ReinstateSensor, Call, ReinstatedRow, ReinstatedChain
<1>2. s \in Row /\ s.cellId \in SensorCells /\ s.slotInCell \in Slot
  BY RowType
<1>3. /\ r \in Row
      /\ r.cellId = s.cellId /\ r.slotInCell = s.slotInCell
      /\ r.previousCellId = s.cellId /\ r.previousSlot = s.slotInCell
  BY <1>1, <1>2 DEF Row, DropPrevious, ReinstatedRow
<1>4. /\ x.sensors = [c.sensors EXCEPT ![k] = r]
      /\ x.record = [c.record EXCEPT ![s.cellId] = ClearSlot(@, s.slotInCell)]
  BY <1>1 DEF Chains, ReinstatedChain
<1>5. /\ DOMAIN x.sensors = DOMAIN c.sensors /\ x.sensors[k] = r
      /\ \A j \in DOMAIN c.sensors : j # k => x.sensors[j] = c.sensors[j]
  BY <1>3, <1>4, RowsType
<1>6. SlotsOf(r) = {at}
  BY <1>3 DEF SlotsOf, Held, Previous
<1>7. x.record[s.cellId][s.slotInCell] = NoRecord
  BY <1>2, <1>4 DEF ClearSlot, Chains
<1>8. InWindow(NoRecord.judged, x.today) = 0
  <2>1. NoRecord.judged \cap (x.today - OutlierWindow) .. (x.today - 1) = {}
    BY DEF NoRecord
  <2> QED BY <2>1, FS_EmptySet DEF InWindow
<1>9. JudgedIn(x, {at}) = 0
  <2> DEFINE f == [y \in {at} |-> InWindow(x.record[y[1]][y[2]].judged, x.today)]
  <2>1. f[at] = 0
    BY <1>7, <1>8
  <2>2. SumFunctionOnSet(f, {at}) = 0
    <3> HIDE DEF f, at
    <3> QED BY <2>1, SumOfOne
  <2> QED BY <2>2 DEF JudgedIn
<1>10. ~Breaches(JudgedIn(x, SlotsOf(r)), OutlierIn(x, SlotsOf(r)))
  <2>1. JudgedIn(x, SlotsOf(r)) = 0
    BY <1>6, <1>9
  <2> QED BY <2>1, RegistryAssumption DEF Breaches
<1> QED BY <1>5, <1>10 DEF Excludable

(* The sensors a step changes: none comes back but by a reinstatement, and *)
(* that one is clean.                                                      *)
RevivedAreClean ==
  \A k \in OnChain :
    ~chain.sensors[k].active /\ chain'.sensors[k].active => ~Excludable(chain', chain'.sensors[k])

LEMMA RevivesNobodyIsClean ==
  ASSUME NoneRevived(chain, chain') PROVE RevivedAreClean
BY DEF NoneRevived, RevivedAreClean, OnChain

LEMMA RevivedStepIsClean == SensorsInv /\ [SensorsNext]_sensorVars => RevivedAreClean
<1> SUFFICES ASSUME SensorsInv, [SensorsNext]_sensorVars PROVE RevivedAreClean
  OBVIOUS
<1>0. /\ chain \in Chains /\ Fine(chain, mirror, dropped, askedOn) /\ sent \subseteq PageTransactions
      /\ PlacesFine(chain, mirror, dropped)
  BY FineIs DEF SensorsInv
<1>1. CASE chain'.sensors = chain.sensors
  BY <1>1, NobodyRevived, RevivesNobodyIsClean
<1>2. ASSUME NEW tx \in sent, TransactionLands(tx) PROVE RevivedAreClean
  <2>1. chain' = chain \/ chain' \in Run(chain, tx)
    BY <1>2 DEF TransactionLands
  <2>2. CASE chain' = chain
    BY <1>1, <2>2
  <2>3. CASE chain' \in Run(chain, tx)
    <3>1. CASE \E one \in PageCalls : tx = <<one>>
      BY <1>0, <2>3, <3>1, RunOfOne, PageCallRevivesNobody, RevivesNobodyIsClean
    <3>2. CASE \E one \in PageCalls, two \in PageCalls : tx = <<one, two>>
      <4>1. PICK one \in PageCalls, two \in PageCalls : tx = <<one, two>>
        BY <3>2
      <4>2. PICK y \in Execute(chain, one) : chain' \in Execute(y, two)
        BY <2>3, <4>1, RunOfTwo
      <4>3. y \in Chains
        BY <1>0, <4>2, PageCallKeeps, FineIs
      <4>4. NoneRevived(chain, y) /\ NoneRevived(y, chain')
        BY <1>0, <4>2, <4>3, PageCallRevivesNobody
      <4>5. NoneRevived(chain, chain')
        BY <4>4 DEF NoneRevived
      <4> QED BY <4>5, RevivesNobodyIsClean
    <3> QED BY <1>0, <3>1, <3>2 DEF PageTransactions
  <2> QED BY <2>1, <2>2, <2>3
<1>3. ASSUME NEW key \in SensorKeys, NEW amount \in 1 .. MinStake, RequestsUnstake(key, amount)
      PROVE  RevivedAreClean
  <2> DEFINE operator == chain.sensors[key].operator
             call     == CallFor("request", key, operator, amount)
  <2>1. key \in DOMAIN chain.sensors /\ chain' \in Execute(chain, call)
    BY <1>3, RunOfOne DEF RequestsUnstake
  <2>2. chain' \in RequestUnstake(chain, call)
    BY <2>1, ExecuteRequest
  <2>3. PICK r : /\ r = [chain.sensors[key] EXCEPT !.stake = @ - amount, !.unstaking = @ + amount,
                                                   !.unlockAtDay = chain.today + UnstakeDelay]
                 /\ chain'.sensors = [chain.sensors EXCEPT ![key] = r]
                 /\ amount \in 1 .. chain.sensors[key].stake
    BY <1>0, <2>2 DEF RequestUnstake, CallFor, ThawEnds, Chains
  <2>4. r \in Row /\ r.active = chain.sensors[key].active
    <3>1. chain.sensors[key] \in Row /\ chain.sensors[key].stake \in Nat /\ chain.sensors[key].unstaking \in Nat
          /\ chain.today \in Nat
      BY <1>0, <2>1, RowType DEF Chains
    <3>2. /\ chain.sensors[key].stake - amount \in Nat /\ chain.sensors[key].unstaking + amount \in Nat
          /\ chain.today + UnstakeDelay \in DayOrNever
      BY <2>3, <3>1, RegistryAssumption DEF DayOrNever
    <3> QED BY <2>3, <3>1, <3>2 DEF Row
  <2>5. SetsRow(chain, chain', key, r)
    BY <2>3 DEF SetsRow
  <2> QED BY <1>0, <2>1, <2>4, <2>5, RowRevivesNobody, RevivesNobodyIsClean
<1>4. ASSUME NEW key \in SensorKeys, NEW wallet \in Wallets, NEW cellId \in SensorCells,
             Joins(key, wallet, cellId)
      PROVE  RevivedAreClean
  <2> DEFINE call == CallIn("register", key, wallet, cellId)
  <2>1. chain' \in Execute(chain, call) /\ call \in PageCalls
    BY <1>4, RunOfOne DEF Joins, PageCalls
  <2> HIDE DEF call
  <2> QED BY <1>0, <2>1, PageCallRevivesNobody, RevivesNobodyIsClean
<1>5. ASSUME NEW key \in SensorKeys, Withdraws(key) PROVE RevivedAreClean
  <2> DEFINE operator == chain.sensors[key].operator
             call     == Call("withdraw", key, operator)
  <2>1. key \in DOMAIN chain.sensors /\ chain' \in Execute(chain, call)
    BY <1>5, RunOfOne DEF Withdraws
  <2>2. chain' \in WithdrawStake(chain, call)
    BY <2>1, ExecuteWithdraw
  <2>3. PICK r : /\ r = [chain.sensors[key] EXCEPT !.unstaking = 0, !.unlockAtDay = Never]
                 /\ chain'.sensors = [chain.sensors EXCEPT ![key] = r]
    BY <1>0, <2>2 DEF WithdrawStake, Call, Chains
  <2>4. r \in Row /\ r.active = chain.sensors[key].active
    <3>1. chain.sensors[key] \in Row
      BY <1>0, <2>1, RowType
    <3> QED BY <2>3, <3>1 DEF Row, DayOrNever
  <2>5. SetsRow(chain, chain', key, r)
    BY <2>3 DEF SetsRow
  <2> QED BY <1>0, <2>1, <2>4, <2>5, RowRevivesNobody, RevivesNobodyIsClean
<1>6. ASSUME NEW key \in SensorKeys, Reinstates(key) PROVE RevivedAreClean
  <2> DEFINE operator == chain.sensors[key].operator
             call     == Call("reinstate", key, operator)
  <2>1. key \in DOMAIN chain.sensors /\ chain' \in Execute(chain, call)
    BY <1>6, RunOfOne DEF Reinstates
  <2>2. chain' \in ReinstateSensor(chain, call)
    BY <2>1, ExecuteReinstate
  <2>3. /\ ~Excludable(chain', chain'.sensors[key])
        /\ \A j \in DOMAIN chain.sensors : j # key => chain'.sensors[j] = chain.sensors[j]
    BY <1>0, <2>1, <2>2, ClearedIsNotExcludable
  <2> QED BY <2>3 DEF RevivedAreClean, OnChain
<1>7. ASSUME NEW k \in DOMAIN chain.sensors, NEW wallet, chain' \in Run(chain, <<Call("exclude", k, wallet)>>)
      PROVE  RevivedAreClean
  <2> DEFINE call == Call("exclude", k, wallet)
  <2>1. chain' \in ExcludeSensor(chain, call)
    BY <1>7, RunOfOne, ExecuteExclude
  <2> DEFINE r == [chain.sensors[k] EXCEPT !.stake = 0, !.unstaking = 0, !.unlockAtDay = Never,
                                           !.active = FALSE]
  <2>2. chain'.sensors = [chain.sensors EXCEPT ![k] = r]
    BY <1>0, <2>1 DEF ExcludeSensor, Call, Chains
  <2>3. r \in Row /\ r.active = FALSE
    <3>1. chain.sensors[k] \in Row
      BY <1>0, RowType
    <3> QED BY <3>1 DEF Row, DayOrNever
  <2>4. SetsRow(chain, chain', k, r)
    BY <2>2 DEF SetsRow
  <2> HIDE DEF r
  <2> QED BY <1>0, <2>3, <2>4, RowRevivesNobody, RevivesNobodyIsClean
<1>8. ASSUME OperatorsStep PROVE RevivedAreClean
  <2>1. ASSUME NEW key \in SensorKeys, AnyoneExcludes(key) PROVE RevivedAreClean
    BY <1>7, <2>1 DEF AnyoneExcludes
  <2> QED BY <1>3, <1>4, <1>5, <1>6, <1>8, <2>1 DEF OperatorsStep
<1>9. ASSUME PagesStep PROVE RevivedAreClean
  BY <1>1, <1>2, <1>9 DEF PagesStep, PressRegister, PressMove, PressClaim, Send, TransactionExpires
<1>10. ASSUME WorkerStep PROVE RevivedAreClean
  <2>1. ASSUME SyncIfDue PROVE RevivedAreClean
    BY <1>1, <2>1 DEF SyncIfDue
  <2>2. ASSUME NEW cellId \in SensorCells, DayIsWritten(cellId) PROVE RevivedAreClean
    <3>1. chain'.sensors = chain.sensors
      BY <1>0, <2>2 DEF DayIsWritten, SubmitDayReputation, Chains
    <3> QED BY <1>1, <3>1
  <2>3. ASSUME NEW cellId \in SensorCells, WorkerExcludes(cellId) PROVE RevivedAreClean
    <3>1. PICK k \in Breaching(cellId), wallet \in Wallets : chain' \in Run(chain, <<Call("exclude", k, wallet)>>)
      BY <2>3 DEF WorkerExcludes
    <3>2. k \in DOMAIN chain.sensors
      BY <1>0, <3>1 DEF Breaching, PlacesFine, MirrorFine
    <3> QED BY <1>7, <3>1, <3>2
  <2> QED BY <1>10, <2>1, <2>2, <2>3 DEF WorkerStep
<1>11. ASSUME DayPasses PROVE RevivedAreClean
  <2>1. chain'.sensors = chain.sensors
    BY <1>0, <1>11 DEF DayPasses, NextDay, Chains
  <2> QED BY <1>1, <2>1
<1>12. ASSUME UNCHANGED sensorVars PROVE RevivedAreClean
  BY <1>1, <1>12 DEF sensorVars
<1> QED BY <1>8, <1>9, <1>10, <1>11, <1>12 DEF SensorsNext

(* A reinstated sensor cannot be excluded on the record that excluded it.  *)
THEOREM ReinstatedAlwaysStartsClean == SensorsSpec => ReinstatedStartsClean
<1>1. SensorsInv /\ SensorsInv' /\ [SensorsNext]_sensorVars => [RevivedAreClean]_sensorVars
  BY RevivedStepIsClean
<1>2. [][RevivedAreClean]_sensorVars => ReinstatedStartsClean
  BY PTL DEF RevivedAreClean, ReinstatedStartsClean
<1> QED BY <1>1, <1>2, SensorsAreKept, PTL DEF SensorsSpec

-----------------------------------------------------------------------------
(***************************************************************************)
(* Plans.                                                                  *)
(***************************************************************************)

(* A stake of something, by the operator, is taken. *)
LEMMA StakeLands ==
  ASSUME NEW c, NEW k \in DOMAIN c.sensors, NEW wallet, c.sensors[k].operator = wallet,
         NEW amount \in Nat \ {0}, NEW call, call = CallFor("stake", k, wallet, amount)
  PROVE  Execute(c, call) # {}
<1>1. Execute(c, call) = StakeSensor(c, call) /\ call.amount = amount
  BY ExecuteStake DEF CallFor
<1>2. [c EXCEPT !.vault = @ + call.amount, !.sensors[call.key].stake = @ + call.amount] \in StakeSensor(c, call)
  BY <1>1 DEF StakeSensor
<1> QED BY <1>1, <1>2

(* A new sensor takes a slot while there is one, and is its operator's. *)
LEMMA RegistrationLands ==
  ASSUME NEW c \in Chains, NEW k, k \notin DOMAIN c.sensors, NEW wallet, NEW site \in SensorCells,
         c.taken[site] < SlotsPerCell, NEW call, call = CallIn("register", k, wallet, site)
  PROVE  \E x \in Execute(c, call) : k \in DOMAIN x.sensors /\ x.sensors[k].operator = wallet
<1> DEFINE slot == c.taken[site]
           x    == RegisteredChain(c, call, slot)
<1>1. call.key = k /\ call.cellId = site /\ call.wallet = wallet
  BY DEF CallIn
<1>2. x \in RegisterSensor(c, call)
  <2>1. slot \in NextSlot(c, call.cellId)
    BY <1>1 DEF NextSlot
  <2> QED BY <1>1, <2>1 DEF RegisterSensor, RegisteredChain
<1>3. x.sensors = [j \in DOMAIN c.sensors \cup {k} |-> IF j = k THEN NewSensor(call, slot) ELSE c.sensors[j]]
  BY <1>1 DEF RegisteredChain, Chains
<1>4. NewSensor(call, slot).operator = wallet
  BY <1>1 DEF NewSensor
<1>5. x \in Execute(c, call)
  BY <1>2, ExecuteRegister
<1> HIDE DEF x
<1> QED BY <1>3, <1>4, <1>5

(* A move that is allowed finds a slot while there is one, and no other    *)
(* move is made.                                                           *)
LEMMA MoveLands ==
  ASSUME NEW c, NEW k \in DOMAIN c.sensors, NEW wallet, c.sensors[k].operator = wallet,
         NEW site, NEW call, call = CallIn("move", k, wallet, site)
  PROVE  Execute(c, call) # {} <=> CheckMove(c, c.sensors[k], site) /\ c.taken[site] < SlotsPerCell
<1>1. Execute(c, call) = MoveSensor(c, call) /\ call.key = k /\ call.cellId = site
  BY ExecuteMove DEF CallIn
<1>2. CheckMove(c, c.sensors[k], site) /\ c.taken[site] < SlotsPerCell <=>
        (IF CheckMove(c, c.sensors[k], site) THEN NextSlot(c, site) ELSE {}) # {}
  BY DEF NextSlot
<1>3. MoveSensor(c, call) # {} <=> (IF CheckMove(c, c.sensors[k], site) THEN NextSlot(c, site) ELSE {}) # {}
  <2> DEFINE s        == c.sensors[call.key]
             slots    == IF CheckMove(c, s, call.cellId) THEN NextSlot(c, call.cellId) ELSE {}
             moved(n) == MovedChain(c, call.key, call.cellId, MovedRow(s, call.cellId, n, c.today))
  <2>1. MoveSensor(c, call) = {moved(n) : n \in slots}
    BY Zenon DEF MoveSensor, MovedChain, MovedRow
  <2>2. MoveSensor(c, call) # {} <=> slots # {}
    <3> HIDE DEF slots, moved
    <3> QED BY <2>1
  <2> QED BY <1>1, <2>2
<1> QED BY <1>1, <1>2, <1>3

(* What a slot has earned is paid to the sensor that has the slot.         *)
LEMMA ClaimLands ==
  ASSUME NEW c \in Chains, NEW k \in DOMAIN c.sensors, c.sensors[k].active,
         NEW site, NEW slot, Has(c.sensors[k], site, slot), c.accrued[site][slot] > 0,
         NEW wallet, NEW call, call = CallIn("claim", k, wallet, site)
  PROVE  [c EXCEPT !.accrued[site][slot] = 0] \in Execute(c, call)
<1> DEFINE s == c.sensors[k]
           at == <<site, slot>>
<1>1. Execute(c, call) = ClaimReward(c, call) /\ call.key = k /\ call.cellId = site
  BY ExecuteClaim DEF CallIn
<1>2. at \in SlotIn(s, site) /\ at[1] = site /\ at[2] = slot
  BY PlacesOf DEF SlotIn
<1>3. at \in {y \in SlotIn(s, call.cellId) : s.active /\ c.accrued[y[1]][y[2]] > 0}
  BY <1>1, <1>2
<1>4. [c EXCEPT !.accrued[at[1]][at[2]] = 0] \in ClaimReward(c, call)
  BY <1>1, <1>3 DEF ClaimReward
<1> QED BY <1>1, <1>2, <1>4

(* An unclaimed earning is in the cell a sensor left, and once it is       *)
(* claimed there is none.                                                  *)
LEMMA ClaimLetsMove ==
  ASSUME NEW c, NEW m, NEW d, NEW a, Fine(c, m, d, a), NEW k \in DOMAIN c.sensors,
         c.sensors[k].active, Unclaimed(c, c.sensors[k]) > 0, NEW wallet,
         NEW call, call = CallIn("claim", k, wallet, c.sensors[k].previousCellId)
  PROVE  \E x \in Execute(c, call) :
           /\ x.sensors = c.sensors /\ x.today = c.today /\ x.taken = c.taken
           /\ Unclaimed(x, c.sensors[k]) = 0
<1> DEFINE s    == c.sensors[k]
           site == s.previousCellId
           slot == s.previousSlot
           x    == [c EXCEPT !.accrued[site][slot] = 0]
<1>1. c \in Chains /\ site \in SensorCells /\ slot \in Slot
  BY RowType, FineIs
<1>2. WasAt(s, site, slot) /\ Has(s, site, slot)
  BY DEF WasAt, Has
<1>3. ~IsHeldAt(s, site, slot) /\ c.accrued[site][slot] > 0
  BY <1>1, <1>2, UnclaimedIs
<1>4. x \in Execute(c, call)
  BY <1>1, <1>2, <1>3, ClaimLands
<1>5. /\ x.sensors = c.sensors /\ x.today = c.today /\ x.taken = c.taken
      /\ x.accrued[site][slot] = 0
  BY <1>1 DEF Chains
<1>6. x \in Chains
  <2>1. x.accrued \in [SensorCells -> [Slot -> Nat]]
    BY <1>1 DEF Chains
  <2> QED BY <1>1, <2>1 DEF Chains
<1>7. Unclaimed(x, s) = 0
  <2> HIDE DEF x
  <2> QED BY <1>1, <1>2, <1>3, <1>5, <1>6, UnclaimedIs
<1> QED BY <1>4, <1>5, <1>7

(* A plan to register or to stake lands. *)
LEMMA RegisterPlanLands ==
  ASSUME NEW c \in Chains, NEW k, NEW wallet, NEW site \in SensorCells,
         NEW plan, plan = PlanFor(c, k, wallet, site), plan # NoPlan
  PROVE  Run(c, plan) # {}
<1>1. CASE k \notin DOMAIN c.sensors
  <2>1. PICK one, two : /\ one = CallIn("register", k, wallet, site)
                        /\ two = CallFor("stake", k, wallet, MinStake)
    OBVIOUS
  <2>2. plan = <<one, two>> /\ ~(c.taken[site] >= SlotsPerCell)
    BY <1>1, <2>1 DEF PlanFor
  <2>3. c.taken[site] < SlotsPerCell
    BY <2>2, RegistryAssumption DEF Chains
  <2>4. PICK x \in Execute(c, one) : k \in DOMAIN x.sensors /\ x.sensors[k].operator = wallet
    BY <1>1, <2>1, <2>3, RegistrationLands
  <2>5. Execute(x, two) # {}
    BY <2>1, <2>4, StakeLands, RegistryAssumption
  <2> QED BY <2>2, <2>5, RunOfTwo
<1>2. CASE k \in DOMAIN c.sensors
  <2> DEFINE amount == MinStake - c.sensors[k].stake
  <2>1. PICK one : one = CallFor("stake", k, wallet, amount)
    OBVIOUS
  <2>2. plan = <<one>> /\ c.sensors[k].operator = wallet /\ ~(c.sensors[k].stake >= MinStake)
    BY <1>2, <2>1 DEF PlanFor
  <2>3. amount \in Nat \ {0}
    BY <1>2, <2>2, RowType, RegistryAssumption
  <2> HIDE DEF amount
  <2> QED BY <1>2, <2>1, <2>2, <2>3, StakeLands, RunOfOne
<1> QED BY <1>1, <1>2

(* A plan to move lands, and where a funded wallet has none the program    *)
(* refuses too.                                                            *)
LEMMA MovePlanLands ==
  ASSUME NEW c, NEW m, NEW d, NEW a, Fine(c, m, d, a), NEW k, NEW wallet, NEW site \in SensorCells,
         NEW plan, plan = MovePlanFor(c, k, wallet, site, TRUE),
         NEW move, move = CallIn("move", k, wallet, site)
  PROVE  /\ plan # NoPlan => Run(c, plan) # {}
         /\ plan = NoPlan => Run(c, <<move>>) = {}
<1> DEFINE s       == c.sensors[k]
           mine    == k \in DOMAIN c.sensors /\ s.operator = wallet
           allowed == /\ s.active /\ s.cellId # site
                      /\ s.movedAt # Never => c.today >= s.movedAt + OutlierWindow + 1
           room    == c.taken[site] < SlotsPerCell
<1>1. c \in Chains /\ c.today \in Nat /\ c.taken[site] \in Nat
  BY FineIs DEF Chains
<1>2. CASE ~mine
  <2>1. plan = NoPlan
    BY <1>2 DEF MovePlanFor
  <2>2. Execute(c, move) = {}
    BY <1>2, ExecuteMove
  <2> QED BY <2>1, <2>2, RunOfOne
<1>3. CASE mine
  <2>1. s.movedAt \in DayOrNever /\ s.active \in BOOLEAN
    BY <1>1, <1>3, RowType
  <2>2. CheckMove(c, s, site) <=> allowed /\ Unclaimed(c, s) = 0
    BY DEF CheckMove
  <2>3. \A x : x.sensors = c.sensors /\ x.today = c.today =>
          (CheckMove(x, s, site) <=> allowed /\ Unclaimed(x, s) = 0)
    BY DEF CheckMove
  <2>4. PICK claim : claim = CallIn("claim", k, wallet, s.previousCellId)
    OBVIOUS
  <2>5. plan = IF allowed /\ room THEN IF Unclaimed(c, s) > 0 THEN <<claim, move>> ELSE <<move>> ELSE NoPlan
    <3>1. ~(c.taken[site] >= SlotsPerCell) <=> room
      BY <1>1, RegistryAssumption
    <3>2. s.movedAt # Never => (~(c.today < s.movedAt + MoveSpacingDays) <=> c.today >= s.movedAt + OutlierWindow + 1)
      BY <1>1, <2>1, RegistryAssumption DEF MoveSpacingDays, DayOrNever
    <3> QED BY <1>3, <2>4, <3>1, <3>2 DEF MovePlanFor
  <2>6. Unclaimed(c, s) \in Nat
    <3>1. s.previousCellId \in SensorCells /\ s.previousSlot \in Slot
      BY <1>1, <1>3, RowType
    <3>2. WasAt(s, s.previousCellId, s.previousSlot)
      BY DEF WasAt
    <3>3. c.accrued[s.previousCellId][s.previousSlot] \in Nat
      BY <1>1, <3>1 DEF Chains
    <3> QED BY <1>1, <3>1, <3>2, <3>3, UnclaimedIs
  <2>7. NoPlan # <<move>> /\ NoPlan # <<claim, move>>
    BY DEF NoPlan
  <2>8. CASE ~(allowed /\ room)
    <3>1. Execute(c, move) = {}
      BY <1>3, <2>2, <2>8, MoveLands
    <3> QED BY <2>5, <2>8, <3>1, RunOfOne
  <2>9. CASE allowed /\ room /\ Unclaimed(c, s) = 0
    <3>1. Execute(c, move) # {}
      BY <1>3, <2>2, <2>9, MoveLands
    <3>2. plan = <<move>>
      <4>1. ~(Unclaimed(c, s) > 0)
        BY <2>6, <2>9
      <4> HIDE DEF allowed, room, s
      <4> QED BY <2>5, <2>9, <4>1
    <3> QED BY <2>7, <3>1, <3>2, RunOfOne
  <2>10. CASE allowed /\ room /\ Unclaimed(c, s) > 0
    <3>1. plan = <<claim, move>>
      <4> HIDE DEF allowed, room, s
      <4> QED BY <2>5, <2>10
    <3>2. PICK x \in Execute(c, claim) : /\ x.sensors = c.sensors /\ x.today = c.today /\ x.taken = c.taken
                                         /\ Unclaimed(x, s) = 0
      BY <1>3, <2>4, <2>10, ClaimLetsMove
    <3>3. Execute(x, move) # {}
      <4>1. CheckMove(x, s, site) /\ x.taken[site] < SlotsPerCell
        BY <2>3, <2>10, <3>2
      <4>2. k \in DOMAIN x.sensors /\ x.sensors[k] = s
        BY <1>3, <3>2
      <4> HIDE DEF s
      <4> QED BY <1>3, <4>1, <4>2, MoveLands
    <3> QED BY <2>7, <3>1, <3>3, RunOfTwo
  <2>11. Unclaimed(c, s) = 0 \/ Unclaimed(c, s) > 0
    BY <2>6
  <2> HIDE DEF allowed, room, s
  <2> QED BY <2>8, <2>9, <2>10, <2>11
<1> QED BY <1>2, <1>3

(* A plan to claim lands. *)
LEMMA ClaimPlanLands ==
  ASSUME NEW c \in Chains, NEW k, NEW wallet, NEW site, NEW funded,
         NEW plan, plan = ClaimPlanFor(c, k, wallet, site, funded), plan # NoPlan
  PROVE  Run(c, plan) # {}
<1>1. PICK claim : claim = CallIn("claim", k, wallet, site)
  OBVIOUS
<1>2. /\ k \in DOMAIN c.sensors /\ c.sensors[k].active /\ plan = <<claim>>
      /\ \E at \in Claimable(c, c.sensors[k]) : at[1] = site
  BY <1>1 DEF ClaimPlanFor
<1>3. PICK at \in SlotsOf(c.sensors[k]) : at[1] = site /\ c.accrued[at[1]][at[2]] > 0
  BY <1>2 DEF Claimable
<1>4. Has(c.sensors[k], site, at[2])
  <2>1. at = <<at[1], at[2]>>
    BY <1>2, PlacesOf
  <2> QED BY <1>3, <2>1, PlacesOf
<1>5. Execute(c, claim) # {}
  BY <1>1, <1>2, <1>3, <1>4, ClaimLands
<1> QED BY <1>2, <1>5, RunOfOne

(* A mirror that is the chain breaches where the chain does.               *)
LEMMA MirrorBreachesAlike ==
  ASSUME NEW k \in DOMAIN chain.sensors, MirrorIsTheChain, chain.sensors[k].active,
         NEW at \in SlotsOf(chain.sensors[k]), RingIsOpen(chain, at[1])
  PROVE  k \in Breaching(at[1]) <=> Excludable(chain, chain.sensors[k])
<1>1. k \in DOMAIN mirror /\ mirror[k] = ChainSensorOf(chain.sensors[k])
  BY DEF MirrorIsTheChain
<1>2. SlotsOf(mirror[k]) = SlotsOf(chain.sensors[k])
  BY <1>1, MirrorOfARow
<1> QED BY <1>1, <1>2 DEF Breaching, Excludable

(* A sensor to be excluded has been judged in a cell that has a ring.      *)
LEMMA JudgedInARing ==
  ASSUME NEW c, NEW m, NEW d, NEW a, Fine(c, m, d, a), NEW k \in DOMAIN c.sensors, Excludable(c, c.sensors[k])
  PROVE  \E at \in SlotsOf(c.sensors[k]) : RingIsOpen(c, at[1])
<1> DEFINE s == c.sensors[k]
           slots == SlotsOf(s)
           judged == [at \in slots |-> InWindow(c.record[at[1]][at[2]].judged, c.today)]
<1>1. c \in Chains /\ RecordsFine(c)
  BY FineIs DEF PlacesFine
<1>2. \A at \in slots : at[1] \in SensorCells /\ at[2] \in Slot
  <2>1. /\ s.cellId \in SensorCells /\ s.slotInCell \in Slot
        /\ s.previousCellId \in SensorCells /\ s.previousSlot \in Slot
    BY <1>1, RowType
  <2> HIDE DEF s
  <2> QED BY <2>1 DEF SlotsOf, Held, Previous
<1>3. IsFiniteSet(slots)
  <2>1. slots \subseteq {<<s.cellId, s.slotInCell>>, <<s.previousCellId, s.previousSlot>>}
    BY DEF SlotsOf, Held, Previous
  <2>2. IsFiniteSet({<<s.cellId, s.slotInCell>>} \cup {<<s.previousCellId, s.previousSlot>>})
    BY FS_EmptySet, FS_AddElement, FS_Singleton
  <2> QED BY <2>1, <2>2, FS_Subset
<1>4. SUFFICES ASSUME \A at \in slots : ~RingIsOpen(c, at[1]) PROVE FALSE
  OBVIOUS
<1>5. \A at \in slots : judged[at] = 0
  <2>1. InWindow({}, c.today) = 0
    <3>1. {} \cap (c.today - OutlierWindow) .. (c.today - 1) = {}
      OBVIOUS
    <3> QED BY <3>1, FS_EmptySet DEF InWindow
  <2>2. \A at \in slots : c.record[at[1]][at[2]].judged = {}
    BY <1>1, <1>2, <1>4 DEF RecordsFine, NoRecord
  <2> QED BY <2>1, <2>2
<1> HIDE DEF judged, slots
<1>6. SumFunctionOnSet(judged, slots) = 0
  <2>1. Units(judged, slots) = {}
    BY <1>5 DEF Units
  <2> QED BY <1>3, <1>5, <2>1, SumIsUnits, FS_EmptySet
<1>7. JudgedIn(c, SlotsOf(s)) = 0
  BY <1>6 DEF JudgedIn, judged, slots
<1> QED BY <1>7, RegistryAssumption DEF Excludable, Breaches

(* Whoever plans from the chain as it is plans what the program does: what *)
(* a page plans lands, where it sees no move there is none, and a worker   *)
(* whose mirror is the chain finds the sensors the program would exclude.  *)
THEOREM PlansAlwaysLand == SensorsSpec => []PlansLand
<1>1. SensorsInv => PlansLand
  <2> SUFFICES ASSUME SensorsInv PROVE PlansLand
    OBVIOUS
  <2>1. Fine(chain, mirror, dropped, askedOn) /\ chain \in Chains
    BY FineIs DEF SensorsInv
  <2>2. PagesPlanWhatLands
    <3> SUFFICES ASSUME NEW key \in SensorKeys, NEW wallet \in Wallets \cup Strangers, NEW cellId \in SensorCells
                 PROVE  /\ \A funded \in BOOLEAN :
                             \A plan \in {PlanFor(chain, key, wallet, cellId),
                                         MovePlanFor(chain, key, wallet, cellId, funded),
                                         ClaimPlanFor(chain, key, wallet, cellId, funded)} \ {NoPlan} :
                               Run(chain, plan) # {}
                        /\ MovePlanFor(chain, key, wallet, cellId, TRUE) = NoPlan =>
                             Run(chain, <<CallIn("move", key, wallet, cellId)>>) = {}
      BY DEF PagesPlanWhatLands
    <3>1. MovePlanFor(chain, key, wallet, cellId, FALSE) = NoPlan
      BY DEF MovePlanFor
    <3>2. PlanFor(chain, key, wallet, cellId) # NoPlan => Run(chain, PlanFor(chain, key, wallet, cellId)) # {}
      BY <2>1, RegisterPlanLands
    <3>3. /\ MovePlanFor(chain, key, wallet, cellId, TRUE) # NoPlan =>
               Run(chain, MovePlanFor(chain, key, wallet, cellId, TRUE)) # {}
          /\ MovePlanFor(chain, key, wallet, cellId, TRUE) = NoPlan =>
               Run(chain, <<CallIn("move", key, wallet, cellId)>>) = {}
      BY <2>1, MovePlanLands
    <3>4. \A funded \in BOOLEAN : ClaimPlanFor(chain, key, wallet, cellId, funded) # NoPlan =>
            Run(chain, ClaimPlanFor(chain, key, wallet, cellId, funded)) # {}
      BY <2>1, ClaimPlanLands
    <3> QED BY <3>1, <3>2, <3>3, <3>4
  <2>3. DispatcherAgrees
    <3> SUFFICES ASSUME MirrorIsTheChain, NEW k \in OnChain, chain.sensors[k].active
                 PROVE  /\ \A at \in SlotsOf(chain.sensors[k]) : RingIsOpen(chain, at[1]) =>
                             (k \in Breaching(at[1]) <=> Excludable(chain, chain.sensors[k]))
                        /\ Excludable(chain, chain.sensors[k]) =>
                             \E at \in SlotsOf(chain.sensors[k]) : k \in Breaching(at[1])
      BY DEF DispatcherAgrees
    <3> QED BY <2>1, MirrorBreachesAlike, JudgedInARing DEF OnChain
  <2> QED BY <2>2, <2>3 DEF PlansLand
<1> QED BY <1>1, SensorsAreKept, PTL
=============================================================================
