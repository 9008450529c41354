--------------------------- MODULE DayRingProofs ---------------------------
(***************************************************************************)
(* What record_day does to a ring, for every length of the ring and every  *)
(* gap between records.  The lemmas are about the operators alone; the     *)
(* state machines that use them cite these by name.                        *)
(***************************************************************************)
EXTENDS DayRing, FunctionTheorems, FiniteSetTheorems, TLAPS

(* Days less than a ring apart never share a slot: what lets one slot      *)
(* stand for one day of the window.                                        *)
LEMMA SlotsApart ==
  ASSUME NEW a \in Nat, NEW b \in Nat, a < b, b < a + LogLen
  PROVE  RingSlot(a) # RingSlot(b)
<1> SUFFICES ASSUME RingSlot(a) = RingSlot(b) PROVE FALSE
  OBVIOUS
<1> DEFINE p == a \div LogLen
           q == b \div LogLen
<1>1. a = LogLen * p + (a % LogLen) /\ p \in Int /\ a % LogLen \in Int
  BY LogLenAssumption
<1>2. b = LogLen * q + (b % LogLen) /\ q \in Int /\ b % LogLen \in Int
  BY LogLenAssumption
<1>3. a % LogLen = b % LogLen
  BY DEF RingSlot
<1> HIDE DEF p, q
<1>4. LogLen * (q - p) = b - a
  BY <1>1, <1>2, <1>3, LogLenAssumption
<1>5. CASE q - p <= 0
  <2>1. LogLen * (q - p) <= 0
    BY <1>5, <1>1, <1>2, LogLenAssumption
  <2> QED BY <2>1, <1>4
<1>6. CASE q - p >= 1
  <2>1. LogLen * (q - p) >= LogLen
    BY <1>6, <1>1, <1>2, LogLenAssumption
  <2> QED BY <2>1, <1>4, LogLenAssumption
<1> QED BY <1>5, <1>6, <1>1, <1>2

(* Every day has a slot of the ring. *)
LEMMA SlotInRing ==
  ASSUME NEW day \in Nat
  PROVE  RingSlot(day) \in RingSlots
BY LogLenAssumption DEF RingSlot, RingSlots

(* An account that was just opened is a well-formed ring. *)
LEMMA EmptyCellWellFormed ==
  EmptyCell \in Cells /\ TracksLast(EmptyCell) /\ OnlyWindowFilled(EmptyCell)
BY DEF EmptyCell, Cells, TracksLast, OnlyWindowFilled, NoDay, DayStates

(* advance_window moves the first day to where the new last day puts it.   *)
(* The window of a well-formed ring is always full once it has wrapped, so *)
(* a newer day always moves it.                                            *)
LEMMA WindowMoves ==
  ASSUME NEW cell \in Cells, NEW day \in Nat, TracksLast(cell), IsNewer(cell, day)
  PROVE  /\ day < cell.first + LogLen => day < LogLen /\ cell.first = 0
         /\ day >= cell.first + LogLen => day >= LogLen /\ cell.first < day - LogLen + 1
BY LogLenAssumption DEF Cells, TracksLast, IsNewer, NoDay

(* The ring after advance_window, field by field. *)
LEMMA AdvanceWindowFields ==
  ASSUME NEW cell \in Cells, NEW day \in Nat, TracksLast(cell), IsNewer(cell, day)
  PROVE  /\ AdvanceWindow(cell, day) \in Cells
         /\ AdvanceWindow(cell, day).last = cell.last
         /\ AdvanceWindow(cell, day).first = IF day < LogLen THEN 0 ELSE day - LogLen + 1
         /\ AdvanceWindow(cell, day).first >= cell.first
<1>1. CASE day < cell.first + LogLen
  BY <1>1, WindowMoves, LogLenAssumption DEF AdvanceWindow, Cells
<1>2. CASE day >= cell.first + LogLen
  <2> DEFINE f == day - LogLen + 1
             log == [s \in RingSlots |->
                       IF s \in SlotsLeft(cell, f) THEN "NoCoverage" ELSE cell.log[s]]
             con == [s \in RingSlots |->
                       IF s \in SlotsLeft(cell, f) THEN {} ELSE cell.contributors[s]]
  <2>1. AdvanceWindow(cell, day) = [first |-> f, last |-> cell.last, log |-> log, contributors |-> con]
    <3>1. ~(day < cell.first + LogLen)
      BY <1>2, LogLenAssumption DEF Cells
    <3>2. AdvanceWindow(cell, day) =
            [cell EXCEPT !.first = f, !.log = log, !.contributors = con]
      BY <3>1 DEF AdvanceWindow
    <3> HIDE DEF f, log, con
    <3> QED BY <3>2 DEF Cells
  <2>2. f \in Nat /\ f = (IF day < LogLen THEN 0 ELSE day - LogLen + 1) /\ f >= cell.first
    BY <1>2, WindowMoves, LogLenAssumption DEF Cells
  <2>3. log \in [RingSlots -> DayStates] /\ con \in [RingSlots -> SUBSET SensorSlots]
    BY DEF Cells, DayStates
  <2> HIDE DEF f, log, con
  <2> QED BY <2>1, <2>2, <2>3 DEF Cells
<1> QED BY <1>1, <1>2, LogLenAssumption DEF Cells

(* advance_window keeps every day still in the window and leaves no slot   *)
(* filled that none of them owns.  A gap of a whole ring and a shorter one *)
(* take different branches in the code; both come to this.                 *)
LEMMA AdvanceWindowSlots ==
  ASSUME NEW cell \in Cells, NEW day \in Nat,
         TracksLast(cell), OnlyWindowFilled(cell), IsNewer(cell, day),
         NEW c, c = AdvanceWindow(cell, day)
  PROVE  /\ \A d \in c.first .. cell.last :
              /\ c.log[RingSlot(d)] = cell.log[RingSlot(d)]
              /\ c.contributors[RingSlot(d)] = cell.contributors[RingSlot(d)]
         /\ \A s \in RingSlots :
              \/ \E d \in c.first .. cell.last : RingSlot(d) = s
              \/ c.log[s] = "NoCoverage" /\ c.contributors[s] = {}
<1> cell.first \in Nat /\ cell.last \in Int /\ day \in Int /\ LogLen \in Nat /\ LogLen > 0
  BY LogLenAssumption DEF Cells, NoDay
<1>1. CASE day < cell.first + LogLen
  <2>1. c = cell
    BY <1>1 DEF AdvanceWindow
  <2> QED BY <2>1 DEF OnlyWindowFilled
<1>2. CASE ~(day < cell.first + LogLen)
  <2> DEFINE f == day - LogLen + 1
             log == [s \in RingSlots |->
                       IF s \in SlotsLeft(cell, f) THEN "NoCoverage" ELSE cell.log[s]]
             con == [s \in RingSlots |->
                       IF s \in SlotsLeft(cell, f) THEN {} ELSE cell.contributors[s]]
  <2>1. c.first = f /\ c.log = log /\ c.contributors = con
    <3>1. c = [cell EXCEPT !.first = f, !.log = log, !.contributors = con]
      BY <1>2 DEF AdvanceWindow
    <3> HIDE DEF f, log, con
    <3> QED BY <3>1 DEF Cells
  <2>2. f \in Int /\ cell.first < f /\ cell.last < cell.first + LogLen
    BY <1>2, WindowMoves, LogLenAssumption DEF TracksLast, NoDay
  <2>3. ASSUME NEW d \in f .. cell.last
        PROVE  RingSlot(d) \in RingSlots /\ RingSlot(d) \notin SlotsLeft(cell, f)
    <3>1. d \in Nat /\ f <= d /\ d <= cell.last
      BY <2>2
    <3>2. ~(f - cell.first >= LogLen)
      BY <2>2, <3>1
    <3>3. \A x \in cell.first .. f - 1 : RingSlot(x) # RingSlot(d)
      BY <2>2, <3>1, SlotsApart
    <3> QED BY <3>1, <3>2, <3>3, SlotInRing DEF SlotsLeft
  <2>4. ASSUME NEW s \in RingSlots, s \notin SlotsLeft(cell, f),
               ~ \E d \in f .. cell.last : RingSlot(d) = s
        PROVE  cell.log[s] = "NoCoverage" /\ cell.contributors[s] = {}
    <3>1. ASSUME NEW d \in cell.first .. cell.last PROVE RingSlot(d) # s
      <4>1. CASE d \in f .. cell.last
        BY <4>1, <2>4
      <4>2. CASE d \in cell.first .. f - 1
        BY <4>2, <2>4, SlotInRing DEF SlotsLeft
      <4> QED BY <4>1, <4>2, <2>2
    <3> QED BY <3>1 DEF OnlyWindowFilled
  <2> HIDE DEF f
  <2> QED BY <2>1, <2>3, <2>4
<1> QED BY <1>1, <1>2

(* record_day: the ring stays well formed, and answers for the day what    *)
(* was written, for a day it held what it held, and "no coverage" for a    *)
(* day that was passed over.                                               *)
LEMMA RecordDayReads ==
  ASSUME NEW cell \in Cells, NEW day \in Nat, NEW state \in DayStates,
         NEW voters \in SUBSET SensorSlots,
         TracksLast(cell), OnlyWindowFilled(cell), IsNewer(cell, day),
         NEW c, c = RecordDay(cell, day, state, voters)
  PROVE  /\ c \in Cells
         /\ TracksLast(c)
         /\ OnlyWindowFilled(c)
         /\ c.last = day
         /\ c.first >= cell.first
         /\ \A d \in c.first .. day :
              /\ DayStateOf(c, d) = IF d = day THEN state
                                    ELSE IF HoldsDay(cell, d) THEN DayStateOf(cell, d)
                                    ELSE "NoCoverage"
              /\ ContributorsOf(c, d) = IF d = day THEN voters
                                        ELSE IF HoldsDay(cell, d) THEN ContributorsOf(cell, d)
                                        ELSE {}
<1> DEFINE a == AdvanceWindow(cell, day)
<1>0. cell.first \in Nat /\ cell.last \in Int /\ day \in Int /\ LogLen \in Nat /\ LogLen > 0
  BY LogLenAssumption DEF Cells, NoDay
<1>1. /\ a \in Cells /\ a.last = cell.last /\ a.first >= cell.first
      /\ a.first = IF day < LogLen THEN 0 ELSE day - LogLen + 1
  BY AdvanceWindowFields
<1>2. /\ \A d \in a.first .. cell.last :
           /\ a.log[RingSlot(d)] = cell.log[RingSlot(d)]
           /\ a.contributors[RingSlot(d)] = cell.contributors[RingSlot(d)]
      /\ \A s \in RingSlots :
           \/ \E d \in a.first .. cell.last : RingSlot(d) = s
           \/ a.log[s] = "NoCoverage" /\ a.contributors[s] = {}
  BY AdvanceWindowSlots
<1>3. /\ c.first = a.first /\ c.last = day
      /\ c.log = [a.log EXCEPT ![RingSlot(day)] = state]
      /\ c.contributors = [a.contributors EXCEPT ![RingSlot(day)] = voters]
      /\ c \in Cells
  <2> DEFINE log == [a.log EXCEPT ![RingSlot(day)] = state]
             con == [a.contributors EXCEPT ![RingSlot(day)] = voters]
  <2>1. c = [a EXCEPT !.log = log, !.contributors = con, !.last = day]
    BY DEF RecordDay
  <2>2. log \in [RingSlots -> DayStates] /\ con \in [RingSlots -> SUBSET SensorSlots]
    BY <1>1, SlotInRing DEF Cells
  <2> HIDE DEF a, log, con
  <2>3. c = [first |-> a.first, last |-> day, log |-> log, contributors |-> con]
    BY <2>1, <1>1 DEF Cells
  <2>4. c \in Cells /\ c.first = a.first /\ c.last = day /\ c.log = log /\ c.contributors = con
    BY <2>2, <2>3, <1>1 DEF Cells
  <2> QED BY <2>4 DEF log, con
<1> HIDE DEF a
<1>4. cell.last < day /\ a.first <= day /\ day < a.first + LogLen
  BY <1>0, <1>1 DEF IsNewer
<1>5. TracksLast(c)
  BY <1>0, <1>1, <1>3 DEF TracksLast, NoDay
<1>6. ASSUME NEW d \in a.first .. day, d # day
      PROVE  RingSlot(d) # RingSlot(day) /\ RingSlot(d) \in RingSlots /\ d \in Nat
  <2>1. d \in Nat /\ d < day /\ day < d + LogLen
    BY <1>6, <1>4, <1>0, <1>1 DEF Cells
  <2> QED BY <2>1, SlotsApart, SlotInRing
<1>7. OnlyWindowFilled(c)
  <2> SUFFICES ASSUME NEW s \in RingSlots, ~ \E d \in c.first .. c.last : RingSlot(d) = s
               PROVE  c.log[s] = "NoCoverage" /\ c.contributors[s] = {}
    BY DEF OnlyWindowFilled
  <2>1. s # RingSlot(day)
    BY <1>0, <1>1, <1>3, <1>4 DEF Cells
  <2>2. ~ \E d \in a.first .. cell.last : RingSlot(d) = s
    BY <1>0, <1>1, <1>3, <1>4 DEF Cells
  <2> QED BY <2>1, <2>2, <1>1, <1>2, <1>3 DEF Cells
<1>8. ASSUME NEW d \in c.first .. day
      PROVE  /\ DayStateOf(c, d) = IF d = day THEN state
                                   ELSE IF HoldsDay(cell, d) THEN DayStateOf(cell, d)
                                   ELSE "NoCoverage"
             /\ ContributorsOf(c, d) = IF d = day THEN voters
                                       ELSE IF HoldsDay(cell, d) THEN ContributorsOf(cell, d)
                                       ELSE {}
  <2>1. HoldsDay(c, d) /\ d \in Nat
    BY <1>3, <1>1, <1>0 DEF HoldsDay, NoDay, Cells
  <2>2. /\ DayStateOf(c, d) = c.log[RingSlot(d)]
        /\ ContributorsOf(c, d) = c.contributors[RingSlot(d)]
    BY <2>1 DEF DayStateOf, ContributorsOf
  <2>3. CASE d = day
    BY <2>3, <2>2, <1>1, <1>3, SlotInRing DEF Cells
  <2>4. CASE d # day /\ HoldsDay(cell, d)
    <3>1. d \in a.first .. cell.last
      BY <2>4, <1>3, <1>0, <1>1 DEF HoldsDay, Cells
    <3>2. /\ DayStateOf(cell, d) = cell.log[RingSlot(d)]
          /\ ContributorsOf(cell, d) = cell.contributors[RingSlot(d)]
      BY <2>4 DEF DayStateOf, ContributorsOf
    <3> QED BY <2>4, <2>2, <3>1, <3>2, <1>1, <1>2, <1>3, <1>6 DEF Cells
  <2>5. CASE d # day /\ ~HoldsDay(cell, d)
    <3>1. cell.last < d
      BY <2>5, <2>1, <1>3, <1>1, <1>0 DEF HoldsDay, NoDay, Cells
    <3>2. ASSUME NEW x \in a.first .. cell.last PROVE RingSlot(x) # RingSlot(d)
      <4>1. x \in Nat /\ x < d /\ d < x + LogLen
        BY <3>1, <1>0, <1>1, <1>3, <1>4 DEF Cells
      <4> QED BY <4>1, <2>1, SlotsApart
    <3>3. a.log[RingSlot(d)] = "NoCoverage" /\ a.contributors[RingSlot(d)] = {}
      BY <3>2, <2>1, <1>2, SlotInRing
    <3> QED BY <2>5, <2>2, <3>3, <1>1, <1>3, <1>6 DEF Cells
  <2> QED BY <2>3, <2>4, <2>5
<1> QED BY <1>1, <1>3, <1>5, <1>7, <1>8

(* In a well-formed ring the slots holding one of some measured labels are *)
(* as many as the days of the window it answers those labels for.          *)
LEMMA SlotsCountDays ==
  ASSUME NEW cell \in Cells, TracksLast(cell), OnlyWindowFilled(cell),
         NEW labels \in SUBSET {"Dry", "Wet"}
  PROVE  Cardinality({s \in RingSlots : cell.log[s] \in labels}) =
           Cardinality({d \in cell.first .. cell.last : DayStateOf(cell, d) \in labels})
<1> DEFINE Slots == {s \in RingSlots : cell.log[s] \in labels}
           Held  == {d \in cell.first .. cell.last : DayStateOf(cell, d) \in labels}
           at    == [d \in Held |-> RingSlot(d)]
<1>0. cell.first \in Nat /\ cell.last \in Int /\ LogLen \in Nat
  BY LogLenAssumption DEF Cells, NoDay
<1>1. ASSUME NEW d \in cell.first .. cell.last
      PROVE  d \in Nat /\ RingSlot(d) \in RingSlots /\ DayStateOf(cell, d) = cell.log[RingSlot(d)]
  <2>1. d \in Nat /\ cell.last # NoDay
    BY <1>0 DEF NoDay
  <2>2. HoldsDay(cell, d)
    BY <1>0, <2>1 DEF HoldsDay
  <2> QED BY <2>1, <2>2, SlotInRing DEF DayStateOf
<1>2. cell.last < cell.first + LogLen
  BY <1>0, LogLenAssumption DEF TracksLast, NoDay
<1>3. at \in [Held -> Slots]
  BY <1>1
<1>4. ASSUME NEW a \in Held, NEW b \in Held, at[a] = at[b]
      PROVE  a = b
  <2>1. RingSlot(a) = RingSlot(b)
    BY <1>4
  <2>2. a \in Nat /\ b \in Nat /\ a < b + LogLen /\ b < a + LogLen
    BY <1>0, <1>1, <1>2
  <2> QED BY <2>1, <2>2, SlotsApart
<1>5. ASSUME NEW s \in Slots
      PROVE  \E d \in Held : at[d] = s
  <2>1. cell.log[s] # "NoCoverage"
    OBVIOUS
  <2>2. PICK d \in cell.first .. cell.last : RingSlot(d) = s
    BY <2>1 DEF OnlyWindowFilled
  <2>3. d \in Held
    BY <1>1, <2>2
  <2> QED BY <2>2, <2>3
<1>6. IsFiniteSet(Held)
  <2>1. IsFiniteSet(cell.first .. cell.last)
    BY <1>0, FS_Interval
  <2>2. Held \in SUBSET (cell.first .. cell.last)
    OBVIOUS
  <2> HIDE DEF Held
  <2> QED BY <2>1, <2>2, FS_Subset
<1> HIDE DEF Slots, Held, at
<1>7. at \in Bijection(Held, Slots)
  <2>1. at \in Injection(Held, Slots)
    BY <1>3, <1>4, Fun_IsInj
  <2>2. at \in Surjection(Held, Slots)
    BY <1>3, <1>5, Fun_IsSurj
  <2> QED BY <2>1, <2>2 DEF Bijection
<1>8. ExistsBijection(Held, Slots)
  BY <1>7, Fun_ExistsBij
<1>9. Cardinality(Slots) = Cardinality(Held)
  BY <1>6, <1>8, FS_Bijection
<1> QED BY <1>9 DEF Slots, Held
=============================================================================
