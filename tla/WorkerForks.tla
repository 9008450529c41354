---------------------------- MODULE WorkerForks ----------------------------
(***************************************************************************)
(* The worker on a cluster that may give up a block it had confirmed.      *)
(* rpcDaySubmitter (apps/worker/src/chain.ts) waits for "confirmed" and    *)
(* not for "finalized", so the row is signed before the record is safe.    *)
(***************************************************************************)
EXTENDS Worker, FiniteSetsExt

(* The block of a cell's last record is abandoned.  Only blocks with no    *)
(* later change to the cell, on a ring that has not wrapped: then the      *)
(* account is the one before the record.                                   *)
RollBack(c) ==
  LET cell == chain[c]
      slot == RingSlot(cell.last) IN
  /\ cell.last # NoDay /\ cell.first = 0
  /\ \A p \in PolicyIds : Cover[p].cell = c => policy[p] = "Active"
  /\ chain' = [chain EXCEPT ![c] =
                 [cell EXCEPT !.log[slot] = "NoCoverage",
                              !.contributors[slot] = {},
                              !.last = Max({NoDay} \cup
                                 {d \in Days : d < cell.last /\ published[c][d] # Unpublished})]]
  /\ published' = [published EXCEPT ![c][cell.last] = Unpublished]
  /\ UNCHANGED <<policy, flight, rows, memory, today, tally>>

SpecWithForks == Init /\ [][Next \/ \E c \in CellIds : RollBack(c)]_vars

(* "a record that ends up rolled back costs a retry": a day the chain does *)
(* not have is a day the next cycle will find open.                        *)
RolledBackIsRetried ==
  pc = "idle" =>
    \A c \in CellIds, d \in Days :
      d \in OldestBacklogDay .. today - 1 /\ published[c][d] = Unpublished => <<c, d>> \in OpenDays
=============================================================================
