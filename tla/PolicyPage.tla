----------------------------- MODULE PolicyPage -----------------------------
(***************************************************************************)
(* What the owner of a policy is shown: its state, read from the chain,    *)
(* over the run of dry days, read from the database (GET /v1/policies/:id  *)
(* and /v1/cells/:id/days, drawn by apps/web/src/data).  The two know the  *)
(* same days only if Worker's writes make them.                            *)
(*                                                                         *)
(* The page reads the policy first and the days after it.  Both reads are  *)
(* of one state here: a policy that is closed stays as it is, and so does  *)
(* a signed row.                                                           *)
(***************************************************************************)
EXTENDS Worker, SequencesExt

(* The rows of the window, signed or not.                                  *)
DayRecords(c, from, to) == {d \in from .. to : d \in Days /\ rows[c][d] # NoRow}

(* Mutant: the window's end is the day after it.                           *)
DaysInWindowAndOne(c, from, to) ==
  [i \in 1 .. to - from + 2 |->
     IF from + i - 1 \in DayRecords(c, from, to + 1) THEN rows[c][from + i - 1].label ELSE "NoCoverage"]

(* A day without a row is a day without coverage.                          *)
DaysInWindow(c, from, to) ==
  [i \in 1 .. to - from + 1 |->
     IF from + i - 1 \in DayRecords(c, from, to) THEN rows[c][from + i - 1].label ELSE "NoCoverage"]

DrySpell(days) ==
  FoldLeft(LAMBDA s, day : IF day = "Dry" THEN [run |-> s.run + 1, best |-> Max({s.best, s.run + 1})]
                           ELSE [s EXCEPT !.run = 0],
           [run |-> 0, best |-> 0], days).best

SpellInWindow(c, from, to) == DrySpell(DaysInWindow(c, from, to))

(* The names of the program's states; a settled policy is paid or waits.   *)
StateNames(p) ==
  CASE policy[p] = "Active"  -> {"active"}
    [] policy[p] = "Settled" -> {"paidOut", "unclaimed"}
    [] policy[p] = "Closed"  -> {"closedNoEvent"}

(* What GET /v1/policies/:pubkey answers.                                  *)
PolicyWires(p) ==
  LET cover == Cover[p] IN
  {[state        |-> name,
    threshold    |-> cover.threshold,
    spell        |-> SpellInWindow(cover.cell, cover.start, cover.end),
    recordedDays |-> Cardinality(DayRecords(cover.cell, cover.start, cover.end))] : name \in StateNames(p)}

(* The squares: a day without a row is drawn apart, and counted the same.  *)
PolicyWindow(p) ==
  LET cover == Cover[p] IN
  [i \in 1 .. cover.end - cover.start + 1 |->
     LET row == rows[cover.cell][cover.start + i - 1] IN
     IF row = NoRow THEN "future"
     ELSE CASE row.label = "Dry" -> "dry"
            [] row.label = "Wet" -> "wet"
            [] OTHER             -> "none"]

(* Where the bracket goes: the first of the longest runs.                  *)
LongestDryRun(squares) ==
  FoldLeft(LAMBDA s, i :
             IF squares[i] # "dry" THEN [s EXCEPT !.run = 0]
             ELSE IF s.run + 1 > s.best
                  THEN [run |-> s.run + 1, best |-> s.run + 1, end |-> i]
                  ELSE [s EXCEPT !.run = @ + 1],
           [run |-> 0, best |-> 0, end |-> 0], [i \in DOMAIN squares |-> i])

JournalMissing(wire) == wire.recordedDays = 0 /\ wire.state # "active"

(* What the caption says of the money.                                     *)
RunCaption(wire) ==
  IF wire.state = "active"
  THEN IF wire.spell >= wire.threshold THEN "the threshold is met" ELSE "more days and you are paid"
  ELSE CASE wire.state = "paidOut"       -> "paid out"
         [] wire.state = "unclaimed"     -> "waiting to be claimed"
         [] wire.state = "closedNoEvent" -> "closed without paying"

(* Words, when the run is not on record.                                   *)
RunFigure(wire) == IF JournalMissing(wire) THEN {} ELSE {wire.spell}

(* The figure, the caption under it, and the bracket under the squares.    *)
PolicyView(wire, squares) ==
  [figure |-> RunFigure(wire), caption |-> RunCaption(wire), bracket |-> LongestDryRun(squares).best]

PolicyScreen(p) == {PolicyView(wire, PolicyWindow(p)) : wire \in PolicyWires(p)}

(***************************************************************************)
(* Properties.                                                             *)
(***************************************************************************)
(* The page of a closed policy adds up: under the bracket is the run the   *)
(* figure says, and it explains the outcome the chain decided from a log   *)
(* of its own, whatever crashed and whoever settled.  Words stand for a    *)
(* run of none, and never on the page of a policy that paid.  A day the    *)
(* chain has passed whose row is unsigned is excepted: its answer was lost *)
(* and its row may be computed again from other readings, or it was given  *)
(* up after its row was saved.                                             *)
PagesExplainOutcomes ==
  \A p \in PolicyIds : \A view \in PolicyScreen(p) :
    LET c == Cover[p].cell
        answered == \A d \in Cover[p].start .. Cover[p].end :
                      rows[c][d] # NoRow /\ d <= chain[c].last => Signed(c, d) IN
    /\ \A run \in view.figure : view.bracket = run
    /\ answered /\ policy[p] # "Active" =>
         (view.caption = "closed without paying" <=> \A run \in view.figure : run < Cover[p].threshold)
=============================================================================
