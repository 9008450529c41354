------------------------------ MODULE Faucet -------------------------------
(***************************************************************************)
(* What a wallet is given to register one sensor with, once: the operator  *)
(* page and the key it makes (apps/web/src/sensor), POST                   *)
(* /v1/faucet/:pubkey (apps/api/src/routes/faucet.ts) and its ledger       *)
(* (packages/db/src/faucet-store.ts).                                      *)
(*                                                                         *)
(* A grant is a row taken, a transaction sent, and the row signed or given *)
(* back.  Requests interleave, the process dies between any two steps, and *)
(* a transaction may land without the sender's knowing.  What a grant is   *)
(* (SOL, and the pool's minimum stake) is abstracted; so is how a caller's *)
(* address is told from its headers.                                       *)
(***************************************************************************)
EXTENDS Integers, FiniteSets

CONSTANTS
  OperatorPages,         \* pages of the browser that may be open at once
  AddressOf,             \* the address the door sees a page's requests come from
  PerAddress, Daily,     \* FAUCET limits, within GrantDay
  GrantDay, Stale,       \* DAY_MS and STALE_MS, in ticks
  AnswerLimit,           \* how long a request lives: the send's blockhash expires
  MaxWallets, MaxAsking, MaxGrantTime   \* bounds

(* STALE_MS: "an unsettled grant older than this belongs to a process that *)
(* died sending it".                                                       *)
ASSUME FaucetAssumption ==
  /\ {PerAddress, Daily, GrantDay, Stale, AnswerLimit, MaxWallets, MaxAsking, MaxGrantTime} \subseteq Nat
  /\ AnswerLimit <= Stale

VARIABLES
  grantNow,
  operatorVault,   \* the key on the phone's disk, if any
  operatorPages,   \* page -> where it is, and the key it holds
  made,            \* keys made so far
  grants,          \* faucet_grants: wallet -> its row, if any
  asking,          \* requests inside the door
  paid,            \* wallet -> transactions that landed for it
  blind,           \* history: of those, the ones nobody saw the end of
  estranged        \* history: two pages made their key at once, or the disk could not be read

faucetVars == <<grantNow, operatorVault, operatorPages, made, grants, asking, paid, blind, estranged>>
phone      == <<operatorVault, operatorPages, made, estranged>>

Wallets  == 1 .. MaxWallets
Closed   == [step |-> "closed", key |-> 0]
Row(w, at) == [wallet |-> w, at |-> at, signed |-> FALSE]

FaucetInit ==
  /\ grantNow = 0
  /\ operatorVault = {} /\ operatorPages = [p \in OperatorPages |-> Closed] /\ made = 0
  /\ grants = {} /\ asking = {}
  /\ paid = [w \in Wallets |-> 0] /\ blind = [w \in Wallets |-> 0]
  /\ estranged = FALSE

(***************************************************************************)
(* The page: useOperator loads the key, or makes one and saves it, before  *)
(* it shows it.                                                            *)
(***************************************************************************)
Loading == {p \in OperatorPages : operatorPages[p].step = "loaded"}

OpenPage(p) ==
  /\ operatorPages[p] = Closed
  /\ \E read \in {operatorVault, {}} :
       /\ IF read # {} THEN /\ operatorPages' = [operatorPages EXCEPT ![p] =
                                                  [step |-> "shown", key |-> CHOOSE k \in read : TRUE]]
                            /\ UNCHANGED made
          ELSE /\ made < MaxWallets /\ made' = made + 1
               /\ operatorPages' = [operatorPages EXCEPT ![p] = [step |-> "loaded", key |-> made + 1]]
       /\ estranged' = (estranged \/ read # operatorVault \/ (read = {} /\ Loading # {}))
  /\ UNCHANGED <<grantNow, operatorVault, grants, asking, paid, blind>>

SaveOperator(p) ==
  /\ p \in Loading
  /\ operatorVault' = {operatorPages[p].key}
  /\ operatorPages' = [operatorPages EXCEPT ![p].step = "shown"]
  /\ UNCHANGED <<grantNow, made, grants, asking, paid, blind, estranged>>

ClosePage(p) ==
  /\ operatorPages[p] # Closed /\ operatorPages' = [operatorPages EXCEPT ![p] = Closed]
  /\ UNCHANGED <<grantNow, operatorVault, made, grants, asking, paid, blind, estranged>>

(* A wallet that holds too little asks, and asks again if it still does.   *)
AskFaucet(p) ==
  /\ operatorPages[p].step = "shown" /\ Cardinality(asking) < MaxAsking
  /\ LET w == operatorPages[p].key IN
     /\ asking' = asking \cup {[wallet |-> w, address |-> AddressOf[p], at |-> grantNow, step |-> "asked"]}
     /\ asking' # asking
  /\ UNCHANGED <<grantNow, phone, grants, paid, blind>>

(***************************************************************************)
(* The door.                                                               *)
(***************************************************************************)
Drop(r)     == asking' = asking \ {r}
To(r, step) == asking' = (asking \ {r}) \cup {[r EXCEPT !.step = step]}

CountsSince(since) == {g \in grants : g.row.at >= since}

Within(r) ==
  LET counted == CountsSince(r.at - GrantDay) IN
  /\ Cardinality({g \in counted : g.address = r.address}) < PerAddress
  /\ Cardinality(counted) < Daily

CountGrants(r) ==
  /\ r.step = "asked"
  /\ IF Within(r) THEN To(r, "counted") ELSE Drop(r)
  /\ UNCHANGED <<grantNow, phone, grants, paid, blind>>

GrantOf(w) == {g \in grants : g.row.wallet = w}

(* Mutant: a grant as old is taken over whether it is signed or not.       *)
TakenOverAtAnyAge(r) == {g \in GrantOf(r.wallet) : g.row.at < r.at - Stale}

(* A row nobody signed in time is taken over.                              *)
TakenOver(r) == {g \in GrantOf(r.wallet) : ~g.row.signed /\ g.row.at < r.at - Stale}

(* Delete and insert are two statements; the key decides between requests. *)
ClaimGrant(r) ==
  /\ r.step = "counted"
  /\ LET kept == grants \ TakenOver(r) IN
     IF \E g \in kept : g.row.wallet = r.wallet THEN Drop(r) /\ grants' = kept
     ELSE To(r, "claimed") /\ grants' = kept \cup {[row |-> Row(r.wallet, r.at), address |-> r.address]}
  /\ UNCHANGED <<grantNow, phone, paid, blind>>

Confirmed(r) ==
  /\ r.step = "claimed" /\ To(r, "confirmed")
  /\ paid' = [paid EXCEPT ![r.wallet] = @ + 1]
  /\ UNCHANGED <<grantNow, phone, grants, blind>>

(* It may have landed all the same, or land later.                         *)
LandsUnseen(ws) ==
  /\ paid'  = [w \in Wallets |-> paid[w]  + IF w \in ws THEN 1 ELSE 0]
  /\ blind' = [w \in Wallets |-> blind[w] + IF w \in ws THEN 1 ELSE 0]

NotConfirmed(r) ==
  /\ r.step = "claimed" /\ To(r, "failed")
  /\ \E ws \in SUBSET {r.wallet} : LandsUnseen(ws)
  /\ UNCHANGED <<grantNow, phone, grants>>

SettleGrant(r) ==
  /\ r.step = "confirmed" /\ Drop(r)
  /\ grants' = {IF g.row.wallet = r.wallet THEN [g EXCEPT !.row.signed = TRUE] ELSE g : g \in grants}
  /\ UNCHANGED <<grantNow, phone, paid, blind>>

(* Only an unsettled row.                                                  *)
ReleaseGrant(r) ==
  /\ r.step = "failed" /\ Drop(r)
  /\ grants' = grants \ {g \in GrantOf(r.wallet) : ~g.row.signed}
  /\ UNCHANGED <<grantNow, phone, paid, blind>>

(* Every request dies with the process, the ones it had sent land or not,  *)
(* and one that was confirmed is not seen to be.                           *)
CrashFaucet ==
  /\ asking # {} /\ asking' = {}
  /\ \E ws \in SUBSET {r.wallet : r \in {x \in asking : x.step = "claimed"}} :
       LET unsigned == {r.wallet : r \in {x \in asking : x.step = "confirmed"}} IN
       /\ paid'  = [w \in Wallets |-> paid[w]  + IF w \in ws THEN 1 ELSE 0]
       /\ blind' = [w \in Wallets |-> blind[w] + IF w \in ws \cup unsigned THEN 1 ELSE 0]
  /\ UNCHANGED <<grantNow, phone, grants>>

GrantTick ==
  /\ grantNow < MaxGrantTime /\ grantNow' = grantNow + 1
  /\ \A r \in asking : grantNow < r.at + AnswerLimit
  /\ UNCHANGED <<phone, grants, asking, paid, blind>>

FaucetNext ==
  \/ \E p \in OperatorPages : OpenPage(p) \/ SaveOperator(p) \/ ClosePage(p) \/ AskFaucet(p)
  \/ \E r \in asking : CountGrants(r) \/ ClaimGrant(r) \/ Confirmed(r) \/ NotConfirmed(r)
                       \/ SettleGrant(r) \/ ReleaseGrant(r)
  \/ CrashFaucet
  \/ GrantTick

FaucetSpec == FaucetInit /\ [][FaucetNext]_faucetVars

(***************************************************************************)
(* Properties.                                                             *)
(***************************************************************************)
(* However requests for one wallet race, and whatever dies between a send  *)
(* and its record, a grant is not wasted: a wallet is paid twice only when *)
(* the end of an earlier payment was not seen, and what is paid is paid to *)
(* the key the phone still has, as long as one page at a time made it and  *)
(* the disk could be read.                                                 *)
GrantsAreNotWasted ==
  /\ \A w \in Wallets : paid[w] <= 1 + blind[w]
  /\ ~estranged => \A w \in Wallets : paid[w] > 0 => operatorVault = {w}
=============================================================================
