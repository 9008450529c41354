------------------------------- MODULE Intake -------------------------------
(***************************************************************************)
(* A reading from the phone it is signed on to the day it counts in.       *)
(*                                                                         *)
(* The phone (apps/web/src/sensor) keeps its last counter and the reading  *)
(* it has no answer for in a vault that outlives the page; the pages open  *)
(* on it hold copies.  The door (POST /v1/readings) asks the registry's    *)
(* mirror for the sensor's cell, classes the reading by its age and lets   *)
(* the unique index on the counter decide whether it is new.  The worker   *)
(* reads a day's accepted readings once the day is over, and sweeps the    *)
(* rows that are past their retention.  Requests and answers are late or   *)
(* lost, pages are reloaded at any moment, and the phone's clock is wrong. *)
(*                                                                         *)
(* One phone, which is one sensor; Worker has the days' way to the chain,  *)
(* and here a closed day is on it (final) or open still.                   *)
(***************************************************************************)
EXTENDS Integers, FiniteSets

CONSTANTS
  Pages,       (* pages of the browser that can be open on the phone      *)
  MaxMoves,    (* the cells the sensor is registered in are 0 .. MaxMoves *)
  Values,      (* what a rain gauge may read                              *)
  Absent,
  DayLen,      (* a day of the pool, in ticks of the clock                *)
  MaxAge,      (* maxAgeMs: how late a reading may arrive                 *)
  Retention,   (* READINGS_RETENTION_DAYS                                 *)
  Backlog,     (* the days the worker still closes                        *)
  Skew,        (* how wrong the phone's clock may be                      *)
  MaxCounter,  (* the bound on readings                                   *)
  MaxRequests, (* the bound on requests on their way                      *)
  MaxTime      (* the bound on the clock                                  *)

ASSUME IntakeAssumption ==
  /\ {DayLen, Backlog} \subseteq Nat \ {0}
  /\ {MaxMoves, MaxAge, Retention, Skew, MaxCounter, MaxRequests, MaxTime} \subseteq Nat
  /\ MaxAge < Retention
  /\ Absent \notin Pages

CellIds == 0 .. MaxMoves

VARIABLES
  vault,      (* the SensorRecord on the phone's disk                     *)
  page,       (* what each open page holds                                *)
  requests,   (* readings on their way to the door, or inside it          *)
  mirror,     (* the sensor's row in the registry's mirror: its cell      *)
  readings,   (* the readings table                                       *)
  days,       (* the readings each day was closed from, and whether the   *)
              (* day is on the chain                                      *)
  now,
  (* History, read by no action. *)
  sent,       (* every reading that left the phone                        *)
  accepted,   (* every reading the table ever held as accepted            *)
  told,       (* what the pages were told of a reading                    *)
  crowded     (* two pages have been open at once                         *)

history == <<sent, accepted, told, crowded>>
intakeVars == <<vault, page, requests, mirror, readings, days, now, history>>

Times    == 0 .. MaxTime
Counters == 1 .. MaxCounter
DayOf(t) == t \div DayLen
Days     == 0 .. DayOf(MaxTime)
Today    == DayOf(now)

(* A signed reading: its bytes, and so its signature, are these fields. *)
Bodies   == [counter : Counters, measuredAt : Times, cell : CellIds, value : Values]
Statuses == {"accepted", "late"}

NoPage   == [open |-> FALSE, record |-> [lastCounter |-> 0, pending |-> Absent],
             cell |-> Absent, busy |-> FALSE]
Open     == {p \in Pages : page[p].open}

IntakeInit ==
  /\ vault = [lastCounter |-> 0, pending |-> Absent]
  /\ page = [p \in Pages |-> NoPage]
  /\ requests = {}
  /\ mirror = 0
  /\ readings = {}
  /\ days = [d \in Days |-> [from |-> {}, final |-> FALSE]]
  /\ now = 0
  /\ sent = {} /\ accepted = {} /\ told = {} /\ crowded = FALSE

(***************************************************************************)
(* The phone.                                                              *)
(***************************************************************************)

(* A page loads the record once, and can sign when the registry answered;  *)
(* one it has not answered yet is a page that does nothing.                *)
LoadPage(p) ==
  /\ p \notin Open
  /\ page' = [page EXCEPT ![p] = [open |-> TRUE, record |-> vault, cell |-> mirror, busy |-> FALSE]]
  /\ crowded' = (crowded \/ Open # {})
  /\ UNCHANGED <<vault, requests, mirror, readings, days, now, sent, accepted, told>>

(* "Ask again", and the poll after a move. *)
LookUp(p) ==
  /\ p \in Open /\ page[p].cell # mirror
  /\ page' = [page EXCEPT ![p].cell = mirror]
  /\ UNCHANGED <<vault, requests, mirror, readings, days, now, history>>

Post(p, body) ==
  /\ Cardinality(requests) < MaxRequests
  /\ requests' = requests \cup {[page |-> p, body |-> body, step |-> "sent"]}

(* The counter moves here and only here, and is on disk before the request *)
(* leaves.  What the page signs, it signs from its own copy of the record. *)
SignNext(record, cell, value, at) ==
  LET counter == record.lastCounter + 1 IN
  [lastCounter |-> counter,
   pending     |-> [counter |-> counter, measuredAt |-> at, cell |-> cell, value |-> value]]

SendNext(p) ==
  LET it == page[p] IN
  /\ it.open /\ ~it.busy
  /\ it.record.lastCounter < MaxCounter
  /\ \E value \in Values, at \in Times \cap (now - Skew .. now + Skew) :
       LET next == SignNext(it.record, it.cell, value, at) IN
       /\ vault' = next
       /\ page' = [page EXCEPT ![p].record = next, ![p].busy = TRUE]
       /\ Post(p, next.pending)
       /\ sent' = sent \cup {next.pending}
  /\ UNCHANGED <<mirror, readings, days, now, accepted, told, crowded>>

Resend(p) ==
  /\ page[p].open /\ ~page[p].busy /\ page[p].record.pending # Absent
  /\ page' = [page EXCEPT ![p].busy = TRUE]
  /\ Post(p, page[p].record.pending)
  /\ UNCHANGED <<vault, mirror, readings, days, now, history>>

(* Only an answer that says what happened ends the pending reading. *)
Settle(p, answer) ==
  LET settled == IF answer = "retry" THEN page[p].record
                 ELSE [page[p].record EXCEPT !.pending = Absent] IN
  /\ page' = [page EXCEPT ![p].record = settled, ![p].busy = FALSE]
  /\ vault' = IF answer = "retry" THEN vault ELSE settled

(* The connection gives up; the request may arrive nevertheless. *)
NoAnswer(p) ==
  /\ p \in Open /\ page[p].busy
  /\ Settle(p, "retry")
  /\ requests' = {[q EXCEPT !.page = IF @ = p THEN Absent ELSE @] : q \in requests}
  /\ UNCHANGED <<mirror, readings, days, now, history>>

Reload(p) ==
  /\ p \in Open
  /\ page' = [page EXCEPT ![p] = NoPage]
  /\ requests' = {[q EXCEPT !.page = IF @ = p THEN Absent ELSE @] : q \in requests}
  /\ UNCHANGED <<vault, mirror, readings, days, now, history>>

(* The answer to q; nobody hears it when its page has gone. *)
Answer(q, answer) ==
  /\ requests' = requests \ {q}
  /\ IF q.page = Absent
       THEN UNCHANGED <<vault, page, told>>
       ELSE /\ Settle(q.page, answer)
            /\ told' = IF answer = "retry" THEN told ELSE told \cup {<<q.body, answer>>}

(* A request, or its answer, is lost; its page waits until NoAnswer. *)
Lose(q) ==
  /\ q.step = "sent"
  /\ requests' = requests \ {q}
  /\ UNCHANGED <<vault, page, mirror, readings, days, now, history>>

(***************************************************************************)
(* The door.                                                               *)
(***************************************************************************)
(* Mutant: a reading may be of any age.                                    *)
ClassifyWithoutAge(measuredAt, receivedAt) == IF receivedAt >= measuredAt THEN "accepted" ELSE "late"

ClassifyArrival(measuredAt, receivedAt) ==
  IF receivedAt - measuredAt \in 0 .. MaxAge THEN "accepted" ELSE "late"

RowsOf(counter) == {r \in readings : r.body.counter = counter}

(* The cell comes from the registration, never from the reading. *)
RefuseCell(q) ==
  /\ q.step = "sent" /\ q.body.cell # mirror
  /\ Answer(q, "refused")
  /\ UNCHANGED <<mirror, readings, days, now, sent, accepted, crowded>>

(* onConflictDoNothing: the unique index on (sensor, counter) decides. *)
Save(q) ==
  /\ q.step = "sent" /\ q.body.cell = mirror
  /\ RowsOf(q.body.counter) = {}
  /\ LET status == ClassifyArrival(q.body.measuredAt, now) IN
     /\ readings' = readings \cup {[body |-> q.body, status |-> status, receivedAt |-> now]}
     /\ accepted' = IF status = "accepted" THEN accepted \cup {q.body} ELSE accepted
     /\ Answer(q, status)
  /\ UNCHANGED <<mirror, days, now, sent, crowded>>

Conflict(q) ==
  /\ q.step = "sent" /\ q.body.cell = mirror
  /\ RowsOf(q.body.counter) # {}
  /\ requests' = (requests \ {q}) \cup {[q EXCEPT !.step = "conflict"]}
  /\ UNCHANGED <<vault, page, mirror, readings, days, now, history>>

(* Mutant: the same counter is taken for the same reading.                 *)
SameCounter(row, body) == row.body.counter = body.counter

(* The same signature is the retry of a reading whose answer was lost. *)
SameReading(row, body) == row.body = body

AnswerConflict(q) ==
  /\ q.step = "conflict"
  /\ \/ \E r \in RowsOf(q.body.counter) :
          Answer(q, IF SameReading(r, q.body) THEN r.status ELSE "refused")
     \/ (* swept between the insert and the read: an error, which says to try again *)
        RowsOf(q.body.counter) = {} /\ Answer(q, "retry")
  /\ UNCHANGED <<mirror, readings, days, now, sent, accepted, crowded>>

(***************************************************************************)
(* The worker and the world.                                               *)
(***************************************************************************)
OldestBacklogDay == IF Today < Backlog THEN 0 ELSE Today - Backlog
BacklogHorizon   == DayLen * OldestBacklogDay

(* A day is read as soon as it is over, from what has arrived by then.  It *)
(* is read again until its record is on the chain: this is the last time.  *)
(* A day waits for the ones before it.                                     *)
AcceptedReadings(d) ==
  {r.body : r \in {x \in readings : x.status = "accepted" /\ DayOf(x.body.measuredAt) = d}}

CloseIntakeDay(d) ==
  /\ d \in OldestBacklogDay .. Today - 1 /\ ~days[d].final
  /\ \A e \in OldestBacklogDay .. d - 1 : days[e].final
  /\ days' = [days EXCEPT ![d] = [from |-> AcceptedReadings(d), final |-> TRUE]]
  /\ UNCHANGED <<vault, page, requests, mirror, readings, now, history>>

(* Mutant: the retention alone decides.                                    *)
CutoffOfTheRetention == now - Retention

(* retentionCutoffs pulled back by cutoffsBefore: by when the row arrived, *)
(* and never past the oldest day that can still be closed.                 *)
Cutoff == IF now - Retention < BacklogHorizon THEN now - Retention ELSE BacklogHorizon

Sweep ==
  /\ \E r \in readings : r.receivedAt < Cutoff
  /\ readings' = {r \in readings : r.receivedAt >= Cutoff}
  /\ UNCHANGED <<vault, page, requests, mirror, days, now, history>>

(* The sensor has moved and the mirror has caught up. *)
Mirrored ==
  /\ mirror < MaxMoves
  /\ mirror' = mirror + 1
  /\ UNCHANGED <<vault, page, requests, readings, days, now, history>>

IntakeTick ==
  /\ now < MaxTime
  /\ now' = now + 1
  /\ UNCHANGED <<vault, page, requests, mirror, readings, days, history>>

IntakeNext ==
  \/ \E p \in Pages : LoadPage(p) \/ LookUp(p) \/ SendNext(p) \/ Resend(p) \/ NoAnswer(p) \/ Reload(p)
  \/ \E q \in requests : Lose(q) \/ RefuseCell(q) \/ Save(q) \/ Conflict(q) \/ AnswerConflict(q)
  \/ \E d \in Days : CloseIntakeDay(d)
  \/ Sweep \/ Mirrored \/ IntakeTick

IntakeSpec == IntakeInit /\ [][IntakeNext]_intakeVars

(***************************************************************************)
(* Properties.                                                             *)
(***************************************************************************)
(* A page that says a reading was accepted says it of a reading the table  *)
(* has held as accepted, through every retry, conflict, late request and   *)
(* sweep (readings.ts, the answers 201, 200 and 409; publish.ts, Sent).    *)
AnswersAreTrue ==
  \A b \in Bodies : <<b, "accepted">> \in told => b \in accepted

(* The index that stops a counter from being used twice is emptied by the  *)
(* sweep, and a reading sent once more is stored once more; but it never   *)
(* becomes accepted a second time (retention.ts, "A reading swept is not a *)
(* replay reopened").                                                      *)
NeverAcceptedAgain ==
  [][\A r \in readings' \ readings : r.status = "accepted" => r.body \notin accepted]_intakeVars

(* As long as one page at a time is open, no two readings are ever signed  *)
(* under one counter, whatever page is reloaded in the middle of whatever  *)
(* request (vault.ts, "written before the reading is sent").               *)
OneReadingPerCounter ==
  ~crowded => \A b, c \in sent : b.counter = c.counter => b = c

(* What an operator is told can be acted on: the answer is true, and it is *)
(* about the one reading its counter was ever given to.                    *)
AnswersCanBeTrusted == AnswersAreTrue /\ OneReadingPerCounter

(* The sweep takes no accepted reading of a day that may still be closed:  *)
(* swept first, the day would be closed without it (cutoffsBefore).        *)
SweepSparesOpenDays ==
  [][\A r \in readings \ readings' :
       r.status = "accepted" =>
         LET d == DayOf(r.body.measuredAt) IN days[d].final \/ d < OldestBacklogDay]_intakeVars
=============================================================================
