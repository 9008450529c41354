# Parametric Harvest Shield: a verification project

Parametric Harvest Shield sells drought cover to smallholders. Ground rain
sensors report to a service; an aggregator closes each day of each H3 cell into
one label (dry, wet, no coverage) and writes it to a Solana program; a policy
pays out when its window holds a run of dry days at least as long as its
threshold. No person decides a claim. What has to be right is therefore the
arithmetic on days and money, the way from a reading to a day, and the order in
which independent callers may act.

This directory holds TLA+ modules translated from the code, TLC runs on small
instances, and TLAPS proofs that hold for every value of the constants.
`FR-…` and `SC-…` are the numbers the code's comments cite.

## The system

| part | code | state it keeps | operations |
|---|---|---|---|
| Day log | `programs/pumpking/src/state.rs` (`CellState`), `instructions/day.rs` | a ring of `DAY_LOG_LEN` day labels and voter masks, first and last day | `record_day`/`advance_window` under `submit_day_record`; reads by day |
| Policy index | `index.rs` | none (a loop) | `spell_in_window` |
| Pool and cover | `state.rs` (`Pool`, `Policy`), `instructions/pool.rs`, `policy.rs`, `investigation.rs`, `premium.rs` | capital, reservations, shares, policies, per-cell reservations and flag, the vault | deposit, parameters, issue, settle, claim unclaimed, close, open/close investigation |
| Reward ledger | `state.rs` (`CellRewards`), `instructions/rewards.rs`, `reputation.rs` | per cell: a ring of `REWARD_SCHEDULE_DAYS` budgets, accruals per sensor slot, the reserve, the next day | lay a window out, pay a day, claim, forfeit |
| Sensors | `instructions/sensor.rs`, `reputation.rs` (verdicts), `outlier.rs` | stake, thawing stake, slot, previous slot, verdict ring | register, stake, unstake, withdraw, move, exclude, reinstate |
| Worker | `apps/worker/src` | timers; rows of intervals, verdicts and days in Postgres | the cycle: close due days, settle, close, exclude, compare with a reference, investigate, mirror registry and rewards, sweep |
| Stores | `packages/db/src` | tables of readings, intervals, days, verdicts, sensors, reference hours, slot rewards, faucet grants | statements and transactions behind the worker and the API |
| Intake | `apps/api/src/routes/readings.ts`, `apps/web/src/sensor` | the phone's vault; the readings table | sign, send, retry; accept once per counter |
| Registration and earnings | `apps/web/src/sensor` | the page's plan and what it sent | register, stake, move, claim |
| Client | `packages/anchor-client` | none | the accounts of every instruction |
| Faucet | `apps/api/src/routes/faucet.ts`, `db/src/faucet-store.ts` | grants; the operator's key on the phone | claim, send, settle, release |
| Policy page | `apps/api/src/routes/policies.ts`, `cells.ts`, `apps/web/src/data` | none | the run of dry days and the outcome, drawn |
| Demo networks | `apps/worker/src/scenario.ts`, `feeder.ts` and their routes | the run in flight; the readings published | play a scenario, one tick of the feeder |
| Shared algorithms | `packages/shared/src` | none | boundaries, median, outliers, weights, index, reference verdicts, Merkle tree, price of a lie |
| Operations | `scripts`, configuration, health, landing page | none that matters | – |

**How they interact.** A phone signs readings and posts them to the intake,
which stores them under a unique counter. Every cycle the worker reads the
stored readings, closes each day that is over, and sends one transaction with
two instructions: the day record (the cell's ring) and the day's reputation
(verdicts, and the day's reward budget). It then sends settlement and closure
for the policies of the cells that changed, excludes breaching sensors, compares
days on chain with a public reference and opens investigations. But *anybody*
may settle, close and exclude, and deposits, purchases, moves and claims come
from other wallets at any moment. On chain all of it meets in shared accounts:
one pool, one vault, one ring and one reward ledger per cell. A transaction is
atomic; between two of them anything may happen. Off chain the database is
shared: the worker's mirror of the registry decides which readings the intake
takes and which of them vote; its rows are what the pages show.

**What is hard.**

* *Rings.* Three structures are indexed by `day % length` and outlive many laps:
  a slot cleared one day too late answers for a day it was not written for.
  Days may be skipped, in gaps shorter or longer than the ring.
* *Money in two books.* One token account holds capital and every cell's reward
  reserve; only the books separate them. Premium shares and day budgets are
  divided with remainders, and skipped or unearned days return to capital.
* *Obligations.* A payout is reserved twice (pool and cell) when sold and
  released once, by whichever of settlement, claim or closure comes first.
* *Staleness.* Limits are checked at the sale and owed months later. The
  registry's mirror, a page's plan and a client's addresses are as old as their
  last read, and sensors move, are excluded and come back in between.
* *Slots.* A slot of a cell is a bit of every mask ever written: it is never
  given again, a sensor that moves holds two, and records and earnings arrive
  in the old one after the move.
* *Crash between two writes.* The worker writes intervals, verdicts and a row,
  sends the transaction and then stores the signature; the faucet takes a row,
  sends, and settles it; a scenario and a feeder's tick publish one reading
  after another. Each may stop anywhere and be done again.
* *Lost and late messages.* A transaction without an answer may still land, a
  confirmed one may be abandoned with its fork; a reading's request may arrive
  after its retry, or after the sweep has removed the row it would conflict with.
* *One chance.* The day log grows only forwards, so a day passed over is lost;
  and a day's record is also what triggers the worker's follow-ups.

**What makes each part correct.** Day log: it answers exactly what was
published, for exactly the days of its window, and never changes an answer.
Index: the loop finds the longest run and knows a gap from a wet day. Pool: it
never owes more than it holds, its reservations are its open obligations, an
owed payout is never refused, every outcome can be re-derived from the public
events. Reward ledger: reserve = scheduled + earned, no unit lost or paid to a
later policy. Sensors: a stake leaves only after the window in which its
verdicts count; every earning has somebody who can claim it; a reinstated sensor
starts clean. Worker: every day the chain can take is written in order, whatever
crashes; its rows explain the chain; a signed day can be computed again from
what is stored; no sensor votes twice, no operator counts for more than one.
Intake: an answer is true, a counter is used once, no reading is swept from
under an open day. Client and pages: what is planned from the chain as it is
lands, and a stale call never does its work elsewhere. Faucet: no key is paid
twice unless an answer was lost, and none the phone has not kept.

## The modules

| module | what it is |
|---|---|
| `DayRing` | operators of `CellState` on a record: window, slots, reads, `RecordDay`; the index in quantified form |
| `DayWindow` | the abstract specification: a sheet of days, no ring, no modulo |
| `DayLog` | one ring, its writer and the clock; `ImplementsSheet` maps it to `DayWindow` |
| `DrySpell` | `spell_in_window` as the loop it is, against `HasDrySpell` and `IsComplete` |
| `RewardSchedule` | operators of `CellRewards` on a record |
| `Policies` | pool, vault, policies, a ring and a ledger per cell, and every instruction over them |
| `Exposure` | `Policies`, and on which minimum stake each cell's cover was last sold |
| `Registry`, `Sensors` | the instructions of the sensors as operators on the chain; the pages, the mirror, late days and exclusions around them |
| `Worker` | `runCycle` between the `cell_days` table and the chain: days, settlement, closure, faults, lost answers, crashes, the clock |
| `WorkerForks` | `Worker` on a cluster that may give up a block it had confirmed |
| `PolicyPage` | what the owner is shown, over the state of `Worker` |
| `Aggregate`, `DayClose` | the arithmetic of a day; `closeCellDay`, one write an action, with a registry that changes |
| `Intake` | the phone's vault, its pages, requests on their way, the door, the table, the sweep |
| `Reference` | the public reference, its budget and cursor, disputes, investigations |
| `RewardMirror` | what each slot earned, read out of transactions |
| `Faucet` | the operator's key and the grants |
| `Demo` | scenario runs and the feeder |
| `Merkle` | the tree and its proofs, with a free hash |
| `Collusion` | the price of a cell's value, what a minority can do, and what is published of both |
| `Client`, `Calls` | the nineteen instructions: the IDL's accounts and their resolution, and the program's side; calls in flight while the accounts change |
| `MCPolicies`, `MCBooks`, `MCWorker`, `MCWorkerForks`, `MCChain`, `MCServices` | instances for TLC |
| `DayRingProofs`, `CellProofs`, `PolicyProofs`, `WorkerProofs`, `CloseProofs`, `CallProofs`, `ServiceProofs` | theorems and proofs; `CellProofs` has the day log, its loop and the sensors, `WorkerProofs` the policy page too, `CloseProofs` the tree and the price of a lie, `CallProofs` the client, `ServiceProofs` the demo networks too |
| `Sums` | lemmas for the proofs: finite sums, folds over sequences, ranks in an order |

**On chain.** An instruction is an action; its guard is the account constraints
and `require!`s, its updates the assignments and the token transfers. In
`Policies` a checked operation that fails reverts the transaction, so an action
whose result would leave the type of an account is disabled (`pool' \in Pools`,
`rewards'[c] \in Ledgers`); `MaxMoney` is the scaled `u64::MAX`.
`policies[p] = NoPolicy` is an account not yet created, `vault` the balance of
the pool's token account. `cells[c]` is `CellState` without its money,
`cellReserved[c]` its `reserved` field and `flagged` its investigation flag.
`published` is not an account: it is the history of `DayRecorded` events, kept
so that properties can compare what the program did with what it said. `frozen`
and `today` belong to the world. In `Registry` an instruction takes the chain to
the set of chains it may leave, none when it is refused, so that a transaction
of several calls is all or nothing (`Run`) and a page's plan can be tried on the
chain as it is. `Policies` takes an exclusion for the money it moves, at any
time and for any slots; `Sensors` has who holds a slot and which verdicts
justify it, with earnings abstracted to whether there is any.

**The worker.** In `Worker` the actions are the places where the code waits for
the database or the chain: `pc` is where the cycle is, `todo` the rest of
`openDays`' answer, `current` the day `closeCellDay` is at, `fresh` the cells
with an outcome `submitted`, `left` and `looking` what the loops of `settle.ts`
and `close.ts` still hold. `rows` is the `cell_days` table, `flight` holds
transactions whose answer was lost. `faults`, `missed`, `dirty` and `swept`
count, and are read by no action of the worker. A crash forgets the memory and
keeps the table, the chain and the transactions on their way. There, what a day
is measured from is the set of labels it may give, and with `Relabels` a day
closed again may get another; `DayClose` says why: readings that are late, a
registry that is mirrored late, a pass that stops and starts over. `DayClose`
closes days in any order; the order is `Worker`'s.

**The services.** Each module keeps the tables its code writes and the memory of
its process; requests, answers and crashes are actions of their own. In `Intake`
`page` is what an open page holds, `vault` what is on the phone's disk,
`requests` what is on its way or inside the door between the two statements of
`save`. `sent`, `accepted`, `told` and `crowded` are history. In `Faucet` `asking`
holds the requests with what each has read so far; `blind` and `estranged` are
history. In `Demo` a run is where its request is (`checking`, `counted`,
`signing`, `running`), and `active` is the variable of the route. In
`RewardMirror` a cycle is atomic. In `Reference` `checking` is the pass, and what
a source says is free.

**What is abstracted.** A label stands in `Policies` and `Worker` for the
rainfall and counts it must agree with; `Aggregate` computes them. A mask is a
set of slots, with its width where the width matters (`Encodable`). Hashes are
free and signatures perfect. An address is the sequence of its seeds. All
policies belong to one buyer with several token accounts. Left out because they
only refuse a transaction or touch nothing else: the buyer's price bound, the
legacy `rewards_reserve`, donations to the vault, body checks of requests. There
is one worker, as deployed. `WorkerForks` abandons a cell's last record only, on
a ring that has not wrapped. The record and the reputation of a day are separate
calls in `Policies`, as they are on chain, although the worker sends them
together.

## The runs

`CHECK_DEADLOCK FALSE` everywhere: clocks and queues are bounded and loops end,
so these systems do stop. On chain and in the services no fairness is assumed:
nothing there promises that anybody calls anything. `WorkerFair` assumes weak
fairness of `WorkerStep`, because `schedule` starts a cycle after every other
one, failed or not, and of `Tick`, because time passes. It assumes none of
faults (at most `MaxFaults`, at any moment), of transactions on their way, or of
anybody else's calls. `Tick` lets at most `MaxMissed` days go by without a whole
cycle free of faults, since a cycle takes seconds and a day hours: without that
bound the clock could outrun a worker that never stops working.

| run | asks | bounds and why they are enough |
|---|---|---|
| `Cover` | outcomes, published events, what stays due | one policy, ring of 3, six days: a window can be settled, closed, left unclaimed, or pushed out of the ring |
| `Books` | reservations, solvency, refusals, the collusion limit | two policies whose payouts together exceed the cell's limit (2 + 2 against half a floor of 6), premiums and payouts that move the share price between deposits, and an exposure share and a minimum stake that go down and up again after sales |
| `Rewards` | the vault, the reserve, the schedule ring | two slots, ring of 3, five days, windows that overlap; weights 0 and 1 leave dust and unearned days |
| `Worker` | rows against the chain, lost days, isolation of cells, closures, the owner's page | two cells, backlog 2, clock to 3, two faults and a missed day: a stuck day leaves the backlog, an answer lost on one day lands on another, a row is computed again in between; the ring of 2 forgets the first day of the policy's window |
| `WorkerFair` | liveness | one cell, backlog 2, six days, one fault: `DaysReachTheChain` is claimed of the days that can leave the backlog within the clock, `OwedIsSettled` of windows that end `2 * Backlog + MaxFaults` days before the clock does, and both have such days |
| `Chain` | the ring and its refinement, the loop, the client, the sensors, the tree, the price of a lie | see below |
| `Services` | closing a day, taking a reading, the reference, scenarios, the feeder, the faucet, the reward history | see below |
| `Deferral` | a comment of `policy.rs` (violated) | two accounts, one frozen |
| `Finished` | a comment of `close.ts` (violated) | one cell, clock to 4, one fault |
| `Forks` | a comment of `chain.ts` (violated) | one cell, one record rolled back |
| `DaysCanBeSent` | a test of `day.rs` (violated) | as `Services`, with a mask as wide as the cell is full |
| `OneRun` | a comment of `routes/scenario.ts` (violated) | as `Services` |

`Chain` and `Services` each hold several parts that share no state; `part` says
which one a behaviour is of, and the others stand still in it. Their modules say
what each part is bounded to. Enough for what they ask:

* *Day log*: ring of 3, clock to 7: gaps shorter, equal and longer than the
  ring, from windows that have wrapped and not. *Loop*: every well-formed ring
  of 3 up to day 4; windows before, inside, across both ends and after it, empty
  ones too.
* *Client*: one operator, one sensor that moves between two cells and is
  reinstated, one policy, and a pool opened with either of two aggregators. What
  a caller knows goes stale by moves and reinstatements alone; no instruction
  changes the pool's authority or aggregator.
* *Sensors*: one sensor with a stake and one that takes slots, two cells of two
  slots (a cell fills), a verdict window of a day, a thaw of two, days that may
  wait one day for their record, one transaction in flight, and a wallet whose
  vault was lost.
* *Tree*: up to five leaves, so that a level is odd twice. *Price*: cells of up
  to five slots with stakes under, at and over the minimum, a capital share that
  one of the two floors covers and the other does not, and five votes.
* *Closing a day*: four sensors of three operators, two intervals of one tick
  and of two, values that are outliers of each other; days closed, stopped and
  closed again on other readings; a backlog of one day, and a sensor that moves
  once: it may not move again before the clock ends, and a second move is left
  to the theorem.
* *Intake*: a phone, two pages, two values of the counter, a retention of two
  ticks against a clock of four: a reading is swept and its request comes back.
* *Reference*: a cell with three days on both sides of the threshold and one
  without coverage, totals on both sides of the tolerance, a window of three.
* *Demo*: two requests for runs of two days, one of them half silent, each
  counted from the pool's genesis or from its own instant, and signing that
  takes longer than estimated; once two requests have met, the clock stands
  still, for nothing is claimed of the days after. Two feeder sensors at
  different ticks of the hour, a tick in batches, a lookback of two hours.
* *Faucet*: two pages, two keys, two requests inside, a grant that goes stale.
* *Rewards*: backlog of two days, moves three days apart, a retry of a tick.

`Books` and `Rewards` use the symmetry of policies, `Chain` of the sensors'
cells, `Services` of the phone's pages; no property or constant tells them apart.
In `Books` and `Rewards` the rate is pinned by `MinRateBps`, because their
questions do not depend on it; `Cover` lets the ring price the policy.

**Conditions of properties, and what they leave out.**

* `CollusionNeverPays` speaks of two floors. Under the minimum stake of the
  cell's last sale, what the cell owes is at most half the floor whatever is set
  afterwards. Under the stake of now it is so unless that was lowered since:
  `set_pool_params` may lower it at any time, the limit then applies to new
  sales only, and no instruction looks back at cover already sold. In `Books`
  the stake does go down after sales, so the exception is met, and the first
  part is what holds there.
* `NoDayIsLost`: with one clean cycle a day no number of faults loses a day,
  since a stuck day is on chain already and the next are still in the backlog
  when it leaves; an outage shorter than the backlog loses none either. The two
  together do.
* `OwedIsSettled` needs a row's label to be the one on chain (`Relabels` FALSE).
  A row computed again after its transaction was lost may say "wet" of a day the
  chain has as dry, and stays unsigned; the worker then sees no event and leaves
  the settlement to somebody else.
* `ThawOutlastsVerdicts` and `NothingIsStranded` (its part on moves) suppose
  that days are recorded before their sensor can move twice, here within
  `MaxLate` days, and that the registry is mirrored once a day. What a
  reinstatement drops is excepted: a day of the old cell written afterwards
  accrues to a slot nobody holds.
* `AnswersCanBeTrusted` promises unique counters only to a phone with one page
  open at a time. Two pages hold copies of one vault and can sign two readings
  under one counter; the door then accepts one, and the other is told of the
  conflict.
* `PagesExplainOutcomes` supposes a threshold that fits the policy's window
  (`WorkerAssumption`), which `issue_policy` checks (`policy.rs:86`). It excepts
  a day the chain has passed whose row is not signed. With a backlog of one day
  TLC shows why: the worker gives the day up, and the owner's page goes on
  counting its row as any other (`policies.ts:34`, `day-window.ts:16`).
* `RunsContinueEachOther` supposes no two requests begin unaware of each other,
  which is what `OneRun` shows they can. Its part on days is of runs counted
  from one genesis. A request that names none is counted from its own instant
  (`routes/scenario.ts:323`), and begins at day zero of that count: it may write
  in days of the pool that have readings, which `devnet-show.mjs:28` warns of
  and the comment at `routes/scenario.ts:352` ("no day is written twice") passes
  over. Counters go on from one another in every case. Two requests at the very
  same instant that are each counted from it are left out: a run takes longer.
* `FeederLeavesNoHole` excepts readings the intake turned away, which a later
  hour it takes then hides, and hours from before the network was first whole.
  It rests on `BatchesAssumption`, that the
  seconds at which two successive hours of a sensor fall are far enough apart
  for every other sensor to be served in between: with the code's sensors at
  least twenty readings against batches of eight.
* `GrantsAreNotWasted` lets a key be paid again after a transaction nobody saw
  the end of, which the code's comment accepts, and excepts keys made by two
  pages at once or after a read of the vault that failed.
* `HistoryIsKept` supposes that moves are further apart than the backlog and the
  mirror's age together (`RewardMirrorAssumption`). With days of two seconds, as
  the demo pools have, a mirror five minutes old is older than that.
* `NoVoteInTwoCells` compares votes of days that were each closed on a mirror
  read since the interval began. The door compares a reading's cell with the
  mirror and its age with a limit; the time itself is the phone's word
  (`readings.ts:96`), so only the mirror's row keeps a sensor that moved from
  voting where it was. A mirror is read every five minutes, and on a failure
  again after its retry; if it cannot be read for longer than an interval, the
  cell the sensor left counts it still, and the other, closed later on a mirror
  that was read, counts it too. TLC finds that behaviour as soon as the
  condition is dropped. The theorem also needs the backlog to be shorter than
  the wait between two moves, because the registry remembers one move: the
  code's seven days against fifteen leave room.
* `DaysAreTaken` excepts a day that sums below zero. `readingWireSchema` takes
  any `i32` (`reading.ts:85`), and `day.rs:146` refuses a rainfall below zero; a
  cell whose medians say so is stuck until the day leaves the backlog. The run
  has gauges below zero, and the property says that nothing else stops a day
  and that this takes a reading below zero.
* `PlansLand` takes a page at its word on the wallet's balance: a page that finds
  too little plans nothing (`register.ts:445`), and one that finds enough has
  the fee covered when it sends. A cell whose ring no day has opened yet has
  nobody to exclude (`exclude.ts:107`), so the worker's conclusion is compared
  with the program's in the cells that have one, and for every sensor the
  program would exclude there is such a cell.
* `VerdictsReachTheProgram` supposes that no day passes between the reading of
  the disputes and the call; the call is then refused, and made again later.

## What the runs found

Disagreements that a run shows:

* `policy.rs:520`: "no caller can choose to defer a payout that would have gone
  through". The caller chooses among the owner's accounts, and a frozen one
  defers. The obligation stays recorded and claimable, so nothing is lost but
  time (`Deferral`).
* `close.ts:40`: `windowIsFinished` is "whether the chain can answer for every
  day of the window". It asks for signatures: one that was never stored keeps
  the policy's capacity reserved until somebody else closes it (`Finished`).
* `chain.ts:30`: "a record that ends up rolled back costs a retry". It is
  signed by then, and a signed day is never open again (`Forks`).
* `interval.ts:210`: `1 << 31` is negative, and the client's encoder of a `u32`
  refuses it: a day the thirty-second sensor of a full cell voted in is never
  sent, and its cell waits until the day leaves the backlog (`DaysCanBeSent`).
* `routes/scenario.ts:307`: the check for a run in flight comes three awaits
  before the assignment, so that two requests can both pass it (`OneRun`).

Met while modelling, and not counted as findings because no line of the
repository promises otherwise clearly enough, or because it says so itself:

* `settle.ts:166` has "a cell whose record failed or was already on chain has
  nothing new to settle". A record whose answer was lost is reported as failed
  and may have landed; the settlement waits for the cell's next day.
* A due policy nobody settles can no longer be settled, or closed, once its days
  leave the ring (`close.ts:31`, "only a grace period"): `DueIsKept` says until
  when it can. And a day whose signature was not stored is refused for ever,
  never signed, and stops its cell until it leaves the backlog (`run.ts:323`,
  "recoverable, but by hand").
* An investigation the authority closes is opened again by the next pass on the
  same disputed days, as long as they are in the window (`investigate.ts:75`).
* `ThisPhone.tsx:87` says that a reading that arrives within 90 minutes of its
  hour counts. The last hour of a day has no such grace: the day is closed as
  soon as a cycle finds it over (`interval.ts:691`).
* The rows of `cell_days` are read by the pages signed or not
  (`daysInWindow`), so a page may run ahead of the chain by the days still to
  be sent.
* A later answer of the reference replaces the hours a verdict was made on
  (`reference-store.ts:155`) when the cell is asked again for a neighbouring
  day; the day's total is kept as it was judged.
* The faucet counts grants before it claims one, so its two limits can be passed
  by requests that meet between the two; the one-grant-per-key limit cannot.
* `Register.tsx:346` takes a vault that cannot be read for one that is empty,
  makes a key and saves it over the old one.
* A day whose earnings were not read before it left the backlog is never read;
  the history then has a hole, and the claim does not.

**Mutants.** Each property of a passing run has a definition ending in a bug a
programmer could write (an off-by-one in the slots cleared, a reservation
released in one book, dust not returned, a page's stale plan, verdicts merged
instead of replaced, a cursor that starts again with the cell it stopped at…),
kept next to the definition it would replace and marked "Mutant". They are used
by nothing in the specification.

## What is proved

Assumptions: rings and schedules have at least one slot, the sensors' slots are
a finite set, `MinSensors` positive, the reward share at most the premium, and
`MaxCoverage < LogLen`, as the program's constants and `validate` have it
(`LogLenAssumption`, `SensorSlotsAssumption`, `DayLogAssumption`,
`DrySpellAssumption`, `PoliciesAssumption`); cells and policies are finitely
many (`AccountsAssumption`); for the worker, that cells and days are numbers and
the backlog is positive (`WorkerAssumption`). For the closing of a day: days of
at least one tick and one interval, a positive minimum of votes and weight unit,
natural thresholds (`AggregateAssumption`); finitely many sensors, registered
under distinct slots below their cell's `sensor_count`, which is at most
`MaxSlots`, and a positive backlog (`DayCloseAssumption`). The services'
assumptions compare periods as the code's constants do: an answer is given up no
later than a row may be taken over (`AnswerLimit <= Stale`), a move waits longer
than the backlog and the mirror's age together (`MoveSpacing > RewardBacklog +
MirrorLag`), and a reading is kept for longer than it may be late (`MaxAge <
Retention`). For the demo networks, the two on the feeder's timing above
(`DemoAssumption`, `BatchesAssumption`); for the price of a lie, integers for
the column's bounds, votes within them, and minimum stakes above zero
(`CollusionAssumption`); for the client, that no wallet or key is the absent
account (`CallsAssumption`).

* **`DayRingProofs`**: lemmas on `day % LogLen`: two days of one window never
  share a slot; advancing empties exactly the slots that left; recording keeps
  every other answer of the window.
* **`CellProofs`**: for the ring, the invariant is the type, the exact window,
  empty stale slots and the voters; no one of them is inductive alone (that
  recording keeps answers needs the window no longer than the ring, which needs
  first and last in step). From it: the price counts the window, answers never
  change, and every step of the ring is a line of the sheet or none, so `Spec =>
  Sheet!Spec`. For the loop of the index, invariants for the current and the
  longest run; the step is that a run longer than the best would have to end at
  the day just read and so is the current run. From them, what settlement and
  closure read, and with both `LoopAnswersForTheWindow`.
  For the sensors, `SensorsInv` relates four things: each sensor's row on
  chain, the worker's mirror of it, which may lag, the slots that reinstatements
  dropped, and the stakes. A transaction of several calls is taken apart with
  `Run`'s two cases. The slots of a cell have one owner each, at present or
  before its last move, because a move hands out the next number and never an
  old one. From it: the vault holds the stakes; every earning can be claimed by
  somebody or was dropped by a reinstatement, provided that days are late by no
  more than the window (`MaxLate <= OutlierWindow`: a later day could pay a slot
  that its sensor has left twice since, and the chain remembers one move); a
  stake that has thawed was asked for before every day that still counts; who is
  reinstated starts clean; and what a page plans on the chain as it is lands.
* **`PolicyProofs`**: `Inv` = types, solvency (`reserved <= capital`), the log
  agrees with what was published, ledgers behind the clock, policies' windows
  ordered, and outcomes agree with the events. Outcomes need the log's agreement
  (what was read was published) and that a published day is never republished; a
  closed policy needs in addition that the last record only grows, so that no
  dry day can appear in its window afterwards. From `Inv`: a policy ends once,
  only sales take capacity, what is due stays due, and each cell's log is a
  `DayLog`, so the theorems of `CellProofs` hold of it. `BooksInv` adds the
  totals, each as the sum it stands for: a sale or a settlement changes one
  summand, an advance empties the slots of the schedule it passes, and a sum
  over a ring of budgets must be read beyond the horizon too, since a slot freed
  by the clock is the one a later day will use. From it the vault is accounted
  for to the unit, whatever was rounded; a settlement or a claim cannot be
  refused for want of money. A cell's reservation grows by sales alone, and a sale
  is checked against the parameters of its moment; so, whatever the authority
  sets in between, a cell owes at most half of what taking it over costs on the
  stake of its last sale, and on the stake of now unless that was lowered since
  (`CollusionIsNoBargain`, over `Exposure`).
* **`Sums`**: what those totals rest on. A sum over a set is a recursive
  function; read as so many units, its value is a cardinality, and the library's
  facts about finite sets do the rest: how sums compare, and that the size of a
  whole is the sum of the sizes of its parts. Induction over a set is its
  well-founded form: among the subsets that are bad, one is least.
* **`WorkerProofs`**: `Inv` = types, the log agrees with what was published, the
  rows explain the chain, and two orders. `WrittenInOrder`: whatever is about to
  be sent or may still land has a row, and whatever is about to be signed has
  its label on chain; without it a signature could be put beside a label that a
  late transaction brought. `SentInOrder`: between a cell's last record and a
  day that is queued, about to be sent or on its way, every day is out of the
  backlog or queued before it; it is established by `openDays` (a day not on
  chain has no signature) and kept because a failure drops the whole cell. From
  `Inv`: the rows explain the chain, no record passes over a day that could
  still be written, and closures are not asked for in vain. `KeepsUp` counts:
  one clean cycle a day leaves the oldest day of the backlog on chain, so a day
  is lost only if its cell had no clean cycle while the day was in the backlog
  (`NoDayIsLost`); a cycle without a fault goes through every cell, and every
  cell that is kept from its days is charged to a fault of its own
  (`FaultsStopOneCellEach`). Each cell's log is a `DayLog` here too. The policy
  page reads rows where the program reads its ring, in two loops of its own:
  `spellInWindow` satisfies the recursion of the program's loop, and the bracket
  is a run that no run is longer than. Above them stands `Decided`: whatever
  ended a policy was counted over days that had been published, and those days
  stay as they are; so once every passed day is signed, figure, caption and
  bracket agree with what the chain did (`PagesAlwaysExplainOutcomes`).
* **`CloseProofs`**: the arithmetic first, for any votes. At least half of the
  operators lie on either side of their median, so fewer than half cannot bring
  it out of the others' range; an interval's worth is divided twice, so that
  operators differ by no more than the dust of two divisions
  (`OneOperatorOneVote`). Then the record: a slot of a cell is one sensor's, at
  present or before its last move, so what a slot is paid is bounded by the
  intervals it was judged in, and whatever is about to be sent passes the
  program's checks, or sums below zero, and then a vote of it is below zero: a
  median is not below the least of its votes, nor a sum below zero without one
  that is (`DaysPassTheProgram`). Then the writes: `RerunInv` says, for
  each step a pass may be at, which tables already hold what it will sign, and
  that no pass is of a signed day; the verdicts on chain are as many as the
  rows, because the rows are counted slot by slot (`StoredDaysCanBeRerun`). Last
  the moves: `VotesInv` follows a sensor's vote for as long as its day may be
  closed by the other cell. The mirror's row is the registry's as it was when it
  was read (`MirrorFollows`), and on a row read since the interval began
  `votesInInterval` takes a reading in the one cell the sensor stood in when it
  began and no other, whatever the reading says of its time; while the day is
  within the backlog the registry still knows that cell, so a second closing
  counts it there again or nowhere (`MoversVoteOnce`).
  The tree: the levels of `merkleRoot` have a closed form, and a proof climbs them
  as they are built, so the verifier's hash is the level's node at every step
  (`ProofsProve`); the other way, a hash that is free has one preimage, so a
  verifier that ended at the root took the tree's own siblings, and its leaf is
  the tree's (`ProofsBind`). Two days of as many intervals differ at a leaf and
  then at each of its ancestors; one interval more widens the tree up to a level
  whose last node had no sibling, and there a node was promoted in the one tree
  and hashed with another in the other: were they equal, the way down their left
  would reach a leaf at two depths at once (`RootsDiffer`).
  The price of a lie: what the worker publishes sorts stakes and sums a prefix,
  and a sorted prefix is the least any group of that size could cost; adding or
  spending votes is the least number that passes the test; so the paths that are
  published are the cheapest takeovers there are (`PricesAreRight`). What a
  minority can do is an argument about counts: of two ordered families of votes,
  one below the other, the medians are in that order, so whatever a group says
  lies between all of it saying the least and all of it saying the most.
* **`CallProofs`**: what a caller sends and what the program asks are two
  readings of one list. `buildInstruction` folds over the items of the IDL; as
  no two items of a list share a name, its accounts are the ones supplied and,
  for the others, what their seeds derive from the arguments and the accounts
  before them (`AllLaidOut`). That gives the accounts of each of the nineteen
  builders. The same items, read by the program, ask for addresses whose fields
  come from the chain (`ItemsAsk`), and the roles for wallets: on accounts that
  are well-formed every builder meets them. For a stale call the invariant
  `CallsInv` keeps what never changes of an account between the caller's copy
  and the chain: the operator of a sensor, the cell of a policy, the authority
  and the aggregator.
  Every other field a builder follows is asked for by a seed (the cells of a
  sensor, by its rings and its schedule) or by the handler (the cell claimed or
  moved to), and an address has one preimage, so a
  call that is taken has named what the chain holds. That a call which lands
  keeps accounts well-formed needs in turn that it was fresh, so the agreement
  is proved along with the invariant, not after it.
* **`ServiceProofs`**: six invariants, one for each service. `FaucetInv`: a
  request that owns an unsigned row is alone with it, and the row is too young
  to be taken over, because an answer is given up before; so a wallet is paid
  once, but for payments whose end nobody saw, and those are counted; and while
  there is one key, it is the one that was paid. `RewardInv`: the cells of each
  day within the worker's reach are among the two the account remembers and the
  mirror knows, and the next reading is due before the oldest of them leaves;
  this is where the spacing of moves is needed. `IntakeInv`: what a page holds
  and what the vault holds differ only in what its own pending reading explains,
  a counter that was signed is spent, and a row that was accepted is known to
  the table or past accepting; so an answer can be trusted after any retries,
  lost answers and sweeps. `ReferenceInv`: a day that has a total was judged by
  it and was on chain before, rows are of days that were over when the attempt
  began (so the log still answers for the days that are named), and the cells
  that passed a waiting one since it was last asked are those between the two,
  going round; so no cell waits longer than for each of the others once.
  `ScenarioInv`: as long as no two requests have met, the run under way is the
  only writer, every counter of the table lies below the ones it will use, and a
  day it will write in has nobody else's readings counted from the same genesis,
  because a run begins on a day after the last of those. `FeederInv`: a batch never holds two readings
  of one sensor, and below the last hour a sensor has stored no hour is missing
  that could still be published; a tick that dies leaves it so, because what it
  had published comes before what it had not, in the order the next tick takes.

Some theorems have no run of their own, because the proof covers every instance
a run could: `WindowIsExact`, `MeasuredDaysAreVoted`, `AnswersNeverChange`,
`PolicyEndsOnce`, `SalesAloneTakeCapacity`, `EveryLogIsADayLog` (of `Policies`
and of `Worker`), `CoverIsAlwaysAhead`, `SkipsOld`, `SlotsAreNeverShared`,
`StakesAreAlwaysInTheVault`, and the inductive invariants.

**Only model-checked.** Liveness under fairness (`OwedIsSettled`,
`DaysReachTheChain`) is beyond the provers, and so is what a recursive operator
computes. A fold over a sequence is not: `Sums` reads `FoldLeft` as the one
solution of its recursion. A sort is stated by the ranks of what it orders. No
safety property of a passing run is left to TLC alone.

## Plan

Done: the day log, the index, the pool with its cover and reward ledgers, the
sensors, the worker's cycle with all its follow-ups, the closing of a day, the
intake, the faucet, the policy page, the demo networks, the client's accounts
and the shared algorithms.

Proved: the day log, the index, the cover and its books, the worker's order, the
closing of a day, the policy page, the sensors, the intake, the faucet, the
reference, the reward history, the demo networks, the tree, the price of a lie
and the client's accounts.

Left, in this order:

1. *Composition*: `DayClose`'s labels under `Worker`'s order, and `Registry`'s
   exclusions under `Policies`' ledgers, each as a refinement.
2. The share price of deposits against payouts and premiums, with more than one
   depositor; it is nonlinear, and small numbers hide the rounding.

## Not modelled

Byte encoding and account layout (Borsh, bumps, discriminators), the H3 bit
arithmetic, the premium's second copy in `shared/src/premium.ts`, base58,
the dashboards' read-only queries, the landing page, configuration, health
reporting, scripts run by hand and deployment: they keep no state the
properties above speak of. `cell_hours` rows are written (`DayClose`) and their
sweep is left out, since nothing the worker decides reads them. Signatures and
hashes are taken as perfect. The token program is modelled from its use: a
transfer needs the balance, and a frozen account takes none.
