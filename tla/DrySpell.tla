------------------------------ MODULE DrySpell ------------------------------
(***************************************************************************)
(* spell_in_window of programs/pumpking/src/index.rs, the loop that reads  *)
(* one policy's window out of the cell's day log: one day a step, the run  *)
(* so far, the longest run, and whether every day had an answer.  What it  *)
(* answers is compared with HasDrySpell and IsComplete of DayRing, the     *)
(* quantified form Policies settles and closes on.                         *)
(***************************************************************************)
EXTENDS DayRing

CONSTANTS
  StartDays,  (* the days a window may start on: a set of naturals *)
  EndDays,    (* the days a window may end on                      *)
  Readable    (* the cells whose log is read: a subset of Cells    *)

ASSUME DrySpellAssumption ==
  StartDays \subseteq Nat /\ EndDays \subseteq Nat /\ Readable \subseteq Cells

VARIABLES
  spellCell, start, end,   (* the arguments                            *)
  day,                     (* the next day the loop looks at           *)
  run, best, complete      (* the current run, the longest, no gap yet *)

arguments == <<spellCell, start, end>>
spellVars == <<spellCell, start, end, day, run, best, complete>>

SpellInit ==
  /\ spellCell \in Readable /\ start \in StartDays /\ end \in EndDays
  /\ day = start
  /\ run = 0 /\ best = 0 /\ complete = TRUE

(* Mutant: a day without coverage, or without an answer, is passed over    *)
(* and does not break the run.                                             *)
ReadDayOverGaps ==
  /\ day <= end
  /\ LET state == DayStateOf(spellCell, day) IN
     /\ complete' = (complete /\ state # Unknown)
     /\ IF state = "Dry"
          THEN /\ run' = run + 1
               /\ best' = IF run + 1 > best THEN run + 1 ELSE best
          ELSE run' = (IF state = "Wet" THEN 0 ELSE run) /\ UNCHANGED best
  /\ day' = day + 1
  /\ UNCHANGED arguments

(* step: anything but a dry day breaks the run, an unanswered day too. *)
ReadDay ==
  /\ day <= end
  /\ LET state == DayStateOf(spellCell, day) IN
     /\ complete' = (complete /\ state # Unknown)
     /\ IF state = "Dry"
          THEN /\ run' = run + 1
               /\ best' = IF run + 1 > best THEN run + 1 ELSE best
          ELSE run' = 0 /\ UNCHANGED best
  /\ day' = day + 1
  /\ UNCHANGED arguments

SpellNext == ReadDay

SpellSpec == SpellInit /\ [][SpellNext]_spellVars

Done == day > end

-----------------------------------------------------------------------------
SpellTypeOK ==
  /\ spellCell \in Cells /\ start \in Nat /\ end \in Nat /\ day \in Nat
  /\ run \in Nat /\ best \in Nat /\ complete \in BOOLEAN

(* The run is the dry days just read, no fewer and no more. *)
RunIsCurrent ==
  /\ run <= day - start
  /\ day - run .. day - 1 \subseteq DryDays(spellCell)
  /\ day - run - 1 \in start .. day - 1 => day - run - 1 \notin DryDays(spellCell)

(* The best is a run that was read, and no run that was read is longer: a  *)
(* longer one would begin with one day more than the best.                 *)
BestIsLongest ==
  /\ best > 0 => HasDrySpell(DryDays(spellCell), start, day - 1, best)
  /\ ~HasDrySpell(DryDays(spellCell), start, day - 1, best + 1)

(* Settlement: the loop's longest run reaches a threshold exactly when the *)
(* window holds that many dry days in a row, wherever they are in it and   *)
(* wherever the window lies on the ring.                                   *)
SettlesOnTheSpell ==
  Done => \A n \in 1 .. end + 1 : best >= n <=> HasDrySpell(DryDays(spellCell), start, end, n)

(* Closure: the loop calls the window complete exactly when the log        *)
(* answers for every day of it, the first and the last included.           *)
ClosesOnACompleteWindow == Done => (complete <=> IsComplete(spellCell, start, end))

(* One pass of the loop answers both questions the program asks of a       *)
(* window, on a ring that has wrapped, has gaps in it or lies beside it.   *)
AnswersForTheWindow == SettlesOnTheSpell /\ ClosesOnACompleteWindow
=============================================================================
