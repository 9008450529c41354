----------------------------- MODULE DayWindow -----------------------------
(***************************************************************************)
(* What a cell's day log promises, with no ring in it: a sheet of days     *)
(* that is only ever written after its last line, keeps its last LogLen    *)
(* lines, and says "no coverage" on a line that was skipped.               *)
(***************************************************************************)
EXTENDS Integers

CONSTANTS
  Days,     (* the days that can be written: a set of naturals *)
  LogLen,   (* the lines the sheet keeps                       *)
  Entries,  (* what a line may say                             *)
  NoEntry,  (* what a skipped line says                        *)
  NoDay     (* the last line of a sheet with no line           *)

VARIABLES
  last,     (* the newest day written, or NoDay                *)
  sheet     (* day |-> entry, for the days still on the sheet  *)

sheetVars == <<last, sheet>>

Kept(day) == {d \in 0 .. day : d > day - LogLen}

Init ==
  /\ last = NoDay
  /\ sheet = [d \in {} |-> NoEntry]

Write(day, entry) ==
  /\ day > last
  /\ last' = day
  /\ sheet' = [d \in Kept(day) |->
                 IF d = day THEN entry
                 ELSE IF d \in DOMAIN sheet THEN sheet[d] ELSE NoEntry]

Next == \E day \in Days, entry \in Entries : Write(day, entry)

Spec == Init /\ [][Next]_sheetVars
=============================================================================
