--------------------------- MODULE ServiceProofs ----------------------------
(***************************************************************************)
(* What runs in the services, one after the other: the faucet, the history *)
(* of rewards, a reading's way from the phone into the table, the public   *)
(* reference, and the two networks of the demo, the scenario and the       *)
(* feeder.  Each is an invariant of its own, proved for every bound and    *)
(* every length of its days, retries, retentions and batches; none of them *)
(* reads another's state.                                                  *)
(***************************************************************************)
EXTENDS Intake, Faucet, RewardMirror, Reference, Demo, Sums, FiniteSetTheorems, SequenceTheorems, TLAPS

(***************************************************************************)
(* The faucet.                                                             *)
(***************************************************************************)
FaucetRows == [row : [wallet : Wallets, at : Nat, signed : BOOLEAN],
               address : {AddressOf[p] : p \in OperatorPages}]
FaucetRequests == [wallet : Wallets, address : {AddressOf[p] : p \in OperatorPages}, at : Nat,
                   step : {"asked", "counted", "claimed", "confirmed", "failed"}]

FaucetTypeOK ==
  /\ grantNow \in Nat /\ made \in Nat /\ estranged \in BOOLEAN
  /\ operatorVault \in SUBSET Wallets
  /\ operatorPages \in [OperatorPages -> {Closed} \cup [step : {"loaded", "shown"}, key : Wallets]]
  /\ grants \subseteq FaucetRows
  /\ asking \subseteq FaucetRequests
  /\ paid \in [Wallets -> Nat] /\ blind \in [Wallets -> Nat]

(* The requests that have taken a row and not yet signed it or given it    *)
(* back.                                                                   *)
Owns(r) == r.step \in {"claimed", "confirmed", "failed"}

(* A request that is answered is no older than its blockhash.  *)
AskedInTime == \A r \in asking : r.at <= grantNow /\ grantNow <= r.at + AnswerLimit

(* The key of the table: one row for a wallet. *)
OneRowPerWallet == \A g, h \in grants : g.row.wallet = h.row.wallet => g = h

(* A request that owns a row is alone with it, and the row is unsigned.  *)
OwnersHaveTheirRow ==
  \A r \in asking : Owns(r) =>
    /\ \E g \in grants : g.row = Row(r.wallet, r.at)
    /\ \A x \in asking : Owns(x) /\ x.wallet = r.wallet => x = r

(* The payment whose end was seen, or is about to be. *)
PaidInSight(w) ==
  \/ \E g \in grants : g.row.wallet = w /\ g.row.signed
  \/ \E r \in asking : r.wallet = w /\ r.step = "confirmed"

(* Every payment is in sight, or was counted when nobody saw its end.      *)
PaidOnce == \A w \in Wallets : paid[w] <= blind[w] + (IF PaidInSight(w) THEN 1 ELSE 0)

(* While two pages do not open at once and the disk is read, there is one  *)
(* key: it asks with no other, and no other wallet is ever paid.           *)
OneKey ==
  ~estranged =>
    /\ \A p, q \in Loading : p = q
    /\ Loading # {} => operatorVault = {}
    /\ \A w, x \in operatorVault : w = x
    /\ \A p \in OperatorPages : operatorPages[p].step = "shown" => operatorVault = {operatorPages[p].key}
    /\ \A r \in asking : operatorVault = {r.wallet}
    /\ \A w \in Wallets : paid[w] > 0 => operatorVault = {w}

DoorInv == FaucetTypeOK /\ AskedInTime /\ OneRowPerWallet /\ OwnersHaveTheirRow /\ PaidOnce

FaucetInv == DoorInv /\ OneKey

LEMMA FaucetInitInv == FaucetInit => FaucetInv
<1> SUFFICES ASSUME FaucetInit PROVE FaucetInv
  OBVIOUS
<1>1. FaucetTypeOK
  BY DEF FaucetInit, FaucetTypeOK
<1>2. AskedInTime /\ OneRowPerWallet /\ OwnersHaveTheirRow
  BY DEF FaucetInit, AskedInTime, OneRowPerWallet, OwnersHaveTheirRow
<1>3. PaidOnce
  BY DEF FaucetInit, PaidOnce
<1>4. OneKey
  BY DEF FaucetInit, OneKey, Loading, Closed
<1> QED BY <1>1, <1>2, <1>3, <1>4 DEF FaucetInv, DoorInv

(* A request that goes on is the same request. *)
LEMMA SteppedRequest ==
  ASSUME NEW r \in FaucetRequests, NEW s \in {"asked", "counted", "claimed", "confirmed", "failed"},
         NEW x, x = [r EXCEPT !.step = s]
  PROVE  x \in FaucetRequests /\ x.wallet = r.wallet /\ x.at = r.at /\ x.step = s
BY DEF FaucetRequests

LEMMA SignedGrant ==
  ASSUME NEW g \in FaucetRows, NEW h, h = [g EXCEPT !.row.signed = TRUE]
  PROVE  /\ h \in FaucetRows /\ h.row.wallet = g.row.wallet /\ h.row.at = g.row.at
         /\ h.row.signed = TRUE
BY DEF FaucetRows

(* Owners and their rows, when no request comes to own one. *)
LEMMA OwnersStay ==
  ASSUME OwnersHaveTheirRow,
         \A r \in asking' : Owns(r) => r \in asking,
         \A r \in asking' : Owns(r) => \A g \in grants : g.row = Row(r.wallet, r.at) => g \in grants'
  PROVE  OwnersHaveTheirRow'
BY DEF OwnersHaveTheirRow, Owns

LEMMA PaymentsStay ==
  ASSUME FaucetTypeOK, PaidOnce, paid' = paid, blind' = blind,
         \A w \in Wallets : PaidInSight(w) => PaidInSight(w)'
  PROVE  PaidOnce'
<1> SUFFICES ASSUME NEW w \in Wallets
             PROVE  paid[w] <= blind[w] + (IF PaidInSight(w)' THEN 1 ELSE 0)
  BY DEF PaidOnce
<1>1. paid[w] \in Nat /\ blind[w] \in Nat
  BY DEF FaucetTypeOK
<1>2. paid[w] <= blind[w] + (IF PaidInSight(w) THEN 1 ELSE 0)
  BY DEF PaidOnce
<1> QED BY <1>1, <1>2

(* A request that was counted, and one that was not. *)
LEMMA CountKeeps ==
  ASSUME DoorInv, NEW r \in asking, CountGrants(r)
  PROVE  DoorInv'
<1>1. FaucetTypeOK /\ AskedInTime /\ OneRowPerWallet /\ OwnersHaveTheirRow /\ PaidOnce
  BY DEF DoorInv
<1>2. /\ r.step = "asked" /\ UNCHANGED <<grantNow, operatorVault, operatorPages, made, estranged, grants, paid, blind>>
      /\ Drop(r) \/ To(r, "counted")
  BY DEF CountGrants, phone
<1>3. r \in FaucetRequests
  BY <1>1 DEF FaucetTypeOK
<1>4. PICK x : x = [r EXCEPT !.step = "counted"]
  OBVIOUS
<1>5. x \in FaucetRequests /\ x.wallet = r.wallet /\ x.at = r.at /\ x.step = "counted"
  BY <1>3, <1>4, SteppedRequest
<1>6. asking' \subseteq (asking \ {r}) \cup {x} /\ asking \ {r} \subseteq asking'
  BY <1>2, <1>4 DEF Drop, To
<1>7. FaucetTypeOK'
  BY <1>1, <1>2, <1>5, <1>6 DEF FaucetTypeOK
<1>8. AskedInTime'
  BY <1>1, <1>2, <1>5, <1>6 DEF AskedInTime
<1>9. OneRowPerWallet'
  BY <1>1, <1>2 DEF OneRowPerWallet
<1>10. OwnersHaveTheirRow'
  <2>1. ~Owns(x) /\ ~Owns(r)
    BY <1>2, <1>5 DEF Owns
  <2> QED BY <1>1, <1>2, <1>6, <2>1, OwnersStay
<1>11. \A w \in Wallets : PaidInSight(w) => PaidInSight(w)'
  BY <1>2, <1>6 DEF PaidInSight
<1>12. PaidOnce'
  BY <1>1, <1>2, <1>11, PaymentsStay
<1> QED BY <1>7, <1>8, <1>9, <1>10, <1>12 DEF DoorInv

(* A row that somebody still owns is too young to be taken over. *)
LEMMA OwnersAreNotTakenOver ==
  ASSUME DoorInv, NEW r \in asking, NEW o \in asking, Owns(o), NEW g \in grants,
         g.row = Row(o.wallet, o.at)
  PROVE  g \notin TakenOver(r)
<1>1. /\ o.at \in Nat /\ r.at \in Nat /\ grantNow \in Nat
      /\ r.at <= grantNow /\ grantNow <= o.at + AnswerLimit
  BY DEF DoorInv, FaucetTypeOK, FaucetRequests, AskedInTime
<1>2. g.row.at = o.at
  BY DEF Row
<1>3. AnswerLimit \in Nat /\ Stale \in Nat /\ AnswerLimit <= Stale
  BY FaucetAssumption
<1> QED BY <1>1, <1>2, <1>3 DEF TakenOver

LEMMA ClaimKeeps ==
  ASSUME DoorInv, NEW r \in asking, ClaimGrant(r)
  PROVE  DoorInv'
<1>1. FaucetTypeOK /\ AskedInTime /\ OneRowPerWallet /\ OwnersHaveTheirRow /\ PaidOnce
  BY DEF DoorInv
<1>2. /\ r.step = "counted"
      /\ UNCHANGED <<grantNow, operatorVault, operatorPages, made, estranged, paid, blind>>
  BY DEF ClaimGrant, phone
<1>3. r \in FaucetRequests
  BY <1>1 DEF FaucetTypeOK
<1>4. PICK kept : kept = grants \ TakenOver(r)
  OBVIOUS
<1>5. kept \subseteq grants
  BY <1>4
<1>6. \A o \in asking : Owns(o) => \A g \in grants : g.row = Row(o.wallet, o.at) => g \in kept
  BY <1>4, OwnersAreNotTakenOver
<1>7. \A g \in grants : g.row.signed => g \in kept
  BY <1>4 DEF TakenOver
<1>8. \/ Drop(r) /\ grants' = kept
      \/ /\ \A g \in kept : g.row.wallet # r.wallet
         /\ To(r, "claimed") /\ grants' = kept \cup {[row |-> Row(r.wallet, r.at), address |-> r.address]}
  BY <1>4 DEF ClaimGrant
<1>9. ~Owns(r)
  BY <1>2 DEF Owns
<1>10. CASE Drop(r) /\ grants' = kept
  <2>1. asking' = asking \ {r}
    BY <1>10 DEF Drop
  <2>2. FaucetTypeOK' /\ AskedInTime' /\ OneRowPerWallet'
    BY <1>1, <1>2, <1>5, <1>10, <2>1 DEF FaucetTypeOK, AskedInTime, OneRowPerWallet
  <2>3. OwnersHaveTheirRow'
    BY <1>1, <1>6, <1>10, <2>1, OwnersStay
  <2>4. \A w \in Wallets : PaidInSight(w) => PaidInSight(w)'
    BY <1>2, <1>7, <1>10, <2>1 DEF PaidInSight
  <2>5. PaidOnce'
    BY <1>1, <1>2, <2>4, PaymentsStay
  <2> QED BY <2>2, <2>3, <2>5 DEF DoorInv
<1>11. ASSUME \A g \in kept : g.row.wallet # r.wallet, To(r, "claimed"),
              grants' = kept \cup {[row |-> Row(r.wallet, r.at), address |-> r.address]}
       PROVE  DoorInv'
  <2>1. PICK x : x = [r EXCEPT !.step = "claimed"]
    OBVIOUS
  <2>2. x \in FaucetRequests /\ x.wallet = r.wallet /\ x.at = r.at /\ x.step = "claimed"
    BY <1>3, <2>1, SteppedRequest
  <2>3. asking' = (asking \ {r}) \cup {x}
    BY <1>11, <2>1 DEF To
  <2>4. PICK h : h = [row |-> Row(r.wallet, r.at), address |-> r.address]
    OBVIOUS
  <2>5. h \in FaucetRows /\ h.row = Row(r.wallet, r.at) /\ h.row.wallet = r.wallet
    BY <1>3, <2>4 DEF FaucetRows, FaucetRequests, Row
  <2>6. grants' = kept \cup {h}
    BY <1>11, <2>4
  <2>7. FaucetTypeOK'
    BY <1>1, <1>2, <1>5, <2>2, <2>3, <2>5, <2>6 DEF FaucetTypeOK
  <2>8. AskedInTime'
    BY <1>1, <1>2, <2>2, <2>3 DEF AskedInTime
  <2>9. OneRowPerWallet'
    BY <1>1, <1>5, <1>11, <2>5, <2>6 DEF OneRowPerWallet
  <2>10. \A o \in asking : Owns(o) => o.wallet # r.wallet
    <3> SUFFICES ASSUME NEW o \in asking, Owns(o) PROVE o.wallet # r.wallet
      OBVIOUS
    <3>1. PICK g \in grants : g.row = Row(o.wallet, o.at)
      BY <1>1 DEF OwnersHaveTheirRow
    <3>2. g \in kept /\ g.row.wallet = o.wallet
      BY <1>6, <3>1 DEF Row
    <3> QED BY <3>2, <1>11
  <2>11. OwnersHaveTheirRow'
    <3>1. ASSUME NEW o \in asking', Owns(o), o \in asking
          PROVE  /\ \E g \in grants' : g.row = Row(o.wallet, o.at)
                 /\ \A y \in asking' : Owns(y) /\ y.wallet = o.wallet => y = o
      <4>1. \E g \in grants' : g.row = Row(o.wallet, o.at)
        BY <1>1, <1>6, <2>6, <3>1 DEF OwnersHaveTheirRow
      <4>2. x.wallet # o.wallet
        BY <2>2, <2>10, <3>1
      <4> QED BY <1>1, <2>3, <3>1, <4>1, <4>2 DEF OwnersHaveTheirRow
    <3>2. \E g \in grants' : g.row = Row(x.wallet, x.at)
      BY <2>2, <2>5, <2>6
    <3>3. \A y \in asking' : Owns(y) /\ y.wallet = x.wallet => y = x
      BY <2>2, <2>3, <2>10
    <3> QED BY <2>3, <3>1, <3>2, <3>3 DEF OwnersHaveTheirRow
  <2>12. \A w \in Wallets : PaidInSight(w) => PaidInSight(w)'
    BY <1>2, <1>7, <2>3, <2>6 DEF PaidInSight
  <2>13. PaidOnce'
    BY <1>1, <1>2, <2>12, PaymentsStay
  <2> QED BY <2>7, <2>8, <2>9, <2>11, <2>13 DEF DoorInv
<1> QED BY <1>8, <1>10, <1>11

(* A claimed grant goes on to its end: whoever owned a row still owns it.  *)
LEMMA GoesOn ==
  ASSUME DoorInv, NEW r \in asking, r.step = "claimed", NEW s \in {"confirmed", "failed"}, To(r, s),
         UNCHANGED <<grantNow, operatorVault, operatorPages, made, estranged, grants>>,
         paid' \in [Wallets -> Nat], blind' \in [Wallets -> Nat]
  PROVE  FaucetTypeOK' /\ AskedInTime' /\ OneRowPerWallet' /\ OwnersHaveTheirRow'
<1>1. FaucetTypeOK /\ AskedInTime /\ OneRowPerWallet /\ OwnersHaveTheirRow
  BY DEF DoorInv
<1>2. r \in FaucetRequests
  BY <1>1 DEF FaucetTypeOK
<1>3. PICK x : x = [r EXCEPT !.step = s]
  OBVIOUS
<1>4. x \in FaucetRequests /\ x.wallet = r.wallet /\ x.at = r.at /\ x.step = s
  BY <1>2, <1>3, SteppedRequest
<1>5. asking' = (asking \ {r}) \cup {x}
  BY <1>3 DEF To
<1>6. FaucetTypeOK'
  BY <1>1, <1>4, <1>5 DEF FaucetTypeOK
<1>7. AskedInTime' /\ OneRowPerWallet'
  BY <1>1, <1>4, <1>5 DEF AskedInTime, OneRowPerWallet
<1>8. Owns(r) /\ Owns(x)
  BY <1>4 DEF Owns
<1>9. OwnersHaveTheirRow'
  BY <1>1, <1>4, <1>5, <1>8 DEF OwnersHaveTheirRow
<1> QED BY <1>6, <1>7, <1>9

(* The one that owns a row is not paid in sight until it is confirmed. *)
LEMMA ClaimedIsUnpaid ==
  ASSUME DoorInv, NEW r \in asking, r.step = "claimed"
  PROVE  ~PaidInSight(r.wallet)
<1>1. OneRowPerWallet /\ OwnersHaveTheirRow /\ Owns(r)
  BY DEF DoorInv, Owns
<1>2. PICK g \in grants : g.row = Row(r.wallet, r.at)
  BY <1>1 DEF OwnersHaveTheirRow
<1>3. g.row.wallet = r.wallet /\ g.row.signed = FALSE
  BY <1>2 DEF Row
<1>4. \A h \in grants : h.row.wallet = r.wallet => ~h.row.signed
  BY <1>1, <1>3 DEF OneRowPerWallet
<1>5. \A x \in asking : x.wallet = r.wallet => x.step # "confirmed"
  BY <1>1 DEF OwnersHaveTheirRow, Owns
<1> QED BY <1>4, <1>5 DEF PaidInSight

LEMMA ConfirmedKeeps ==
  ASSUME DoorInv, NEW r \in asking, Confirmed(r)
  PROVE  DoorInv'
<1>1. FaucetTypeOK /\ PaidOnce /\ r \in FaucetRequests
  BY DEF DoorInv, FaucetTypeOK
<1>2. /\ r.step = "claimed" /\ To(r, "confirmed") /\ paid' = [paid EXCEPT ![r.wallet] = @ + 1]
      /\ UNCHANGED <<grantNow, operatorVault, operatorPages, made, estranged, grants, blind>>
  BY DEF Confirmed, phone
<1>3. r.wallet \in Wallets /\ paid \in [Wallets -> Nat] /\ blind \in [Wallets -> Nat]
  BY <1>1 DEF FaucetRequests, FaucetTypeOK
<1>4. paid' \in [Wallets -> Nat] /\ blind' \in [Wallets -> Nat]
  BY <1>2, <1>3
<1>5. FaucetTypeOK' /\ AskedInTime' /\ OneRowPerWallet' /\ OwnersHaveTheirRow'
  BY <1>2, <1>4, GoesOn
<1>6. PICK x : x = [r EXCEPT !.step = "confirmed"]
  OBVIOUS
<1>7. x \in FaucetRequests /\ x.wallet = r.wallet /\ x.step = "confirmed"
  BY <1>1, <1>6, SteppedRequest
<1>8. asking' = (asking \ {r}) \cup {x}
  BY <1>2, <1>6 DEF To
<1>9. PaidInSight(r.wallet)' /\ \A w \in Wallets : PaidInSight(w) => PaidInSight(w)'
  BY <1>2, <1>7, <1>8 DEF PaidInSight
<1>10. ASSUME NEW w \in Wallets
       PROVE  paid'[w] <= blind'[w] + (IF PaidInSight(w)' THEN 1 ELSE 0)
  <2>1. paid[w] \in Nat /\ blind[w] \in Nat /\ paid[w] <= blind[w] + (IF PaidInSight(w) THEN 1 ELSE 0)
    BY <1>1, <1>3 DEF PaidOnce
  <2>2. CASE w = r.wallet
    <3>1. ~PaidInSight(w)
      BY <1>2, <2>2, ClaimedIsUnpaid
    <3>2. paid[w] <= blind[w]
      BY <2>1, <3>1
    <3>3. paid'[w] = paid[w] + 1 /\ blind'[w] = blind[w]
      BY <1>2, <1>3, <2>2
    <3>4. (IF PaidInSight(w)' THEN 1 ELSE 0) = 1
      BY <1>9, <2>2
    <3> QED BY <2>1, <3>2, <3>3, <3>4
  <2>3. CASE w # r.wallet
    <3>1. paid'[w] = paid[w] /\ blind'[w] = blind[w]
      BY <1>2, <1>3, <2>3
    <3> QED BY <1>9, <2>1, <3>1
  <2> QED BY <2>2, <2>3
<1> QED BY <1>5, <1>10 DEF DoorInv, PaidOnce

(* Payments nobody sees are counted on both sides. *)
LEMMA UnseenLanding ==
  ASSUME NEW p \in [Wallets -> Nat], NEW ws
  PROVE  /\ [w \in Wallets |-> p[w] + IF w \in ws THEN 1 ELSE 0] \in [Wallets -> Nat]
         /\ \A x \in Wallets : [w \in Wallets |-> p[w] + IF w \in ws THEN 1 ELSE 0][x]
                                 = p[x] + IF x \in ws THEN 1 ELSE 0
OBVIOUS

LEMMA NotConfirmedKeeps ==
  ASSUME DoorInv, NEW r \in asking, NotConfirmed(r)
  PROVE  DoorInv'
<1>1. FaucetTypeOK /\ PaidOnce /\ r \in FaucetRequests
  BY DEF DoorInv, FaucetTypeOK
<1>2. /\ r.step = "claimed" /\ To(r, "failed")
      /\ UNCHANGED <<grantNow, operatorVault, operatorPages, made, estranged, grants>>
  BY DEF NotConfirmed, phone
<1>3. PICK ws \in SUBSET {r.wallet} : LandsUnseen(ws)
  BY DEF NotConfirmed
<1>4. paid \in [Wallets -> Nat] /\ blind \in [Wallets -> Nat]
  BY <1>1 DEF FaucetTypeOK
<1>5. /\ paid' \in [Wallets -> Nat] /\ blind' \in [Wallets -> Nat]
      /\ \A w \in Wallets : paid'[w] = paid[w] + IF w \in ws THEN 1 ELSE 0
      /\ \A w \in Wallets : blind'[w] = blind[w] + IF w \in ws THEN 1 ELSE 0
  BY <1>3, <1>4, UnseenLanding DEF LandsUnseen
<1>6. FaucetTypeOK' /\ AskedInTime' /\ OneRowPerWallet' /\ OwnersHaveTheirRow'
  BY <1>2, <1>5, GoesOn
<1>7. asking \ {r} \subseteq asking'
  BY <1>2 DEF To
<1>8. \A w \in Wallets : PaidInSight(w) => PaidInSight(w)'
  BY <1>2, <1>7 DEF PaidInSight
<1>9. ASSUME NEW w \in Wallets
      PROVE  paid'[w] <= blind'[w] + (IF PaidInSight(w)' THEN 1 ELSE 0)
  <2>1. paid[w] \in Nat /\ blind[w] \in Nat /\ paid[w] <= blind[w] + (IF PaidInSight(w) THEN 1 ELSE 0)
    BY <1>1, <1>4 DEF PaidOnce
  <2>2. (IF PaidInSight(w) THEN 1 ELSE 0) <= (IF PaidInSight(w)' THEN 1 ELSE 0)
    BY <1>8
  <2>3. PICK i \in {0, 1} : i = IF PaidInSight(w) THEN 1 ELSE 0
    OBVIOUS
  <2>4. PICK j \in {0, 1} : j = IF PaidInSight(w)' THEN 1 ELSE 0
    OBVIOUS
  <2>5. paid[w] <= blind[w] + i /\ i <= j
    BY <2>1, <2>2, <2>3, <2>4
  <2>6. paid'[w] <= blind'[w] + j
    BY <1>5, <2>1, <2>5
  <2> QED BY <2>4, <2>6
<1> QED BY <1>6, <1>9 DEF DoorInv, PaidOnce

LEMMA SettleKeeps ==
  ASSUME DoorInv, NEW r \in asking, SettleGrant(r)
  PROVE  DoorInv'
<1>1. FaucetTypeOK /\ AskedInTime /\ OneRowPerWallet /\ OwnersHaveTheirRow /\ PaidOnce
  BY DEF DoorInv
<1>2. /\ r.step = "confirmed" /\ asking' = asking \ {r}
      /\ UNCHANGED <<grantNow, operatorVault, operatorPages, made, estranged, paid, blind>>
  BY DEF SettleGrant, Drop, phone
<1> DEFINE Signed(g) == IF g.row.wallet = r.wallet THEN [g EXCEPT !.row.signed = TRUE] ELSE g
<1>3. grants' = {Signed(g) : g \in grants}
  BY DEF SettleGrant
<1>4. ASSUME NEW g \in grants
      PROVE  /\ Signed(g) \in FaucetRows /\ Signed(g).row.wallet = g.row.wallet
             /\ g.row.signed => Signed(g).row.signed
             /\ g.row.wallet = r.wallet => Signed(g).row.signed
             /\ g.row.wallet # r.wallet => Signed(g) = g
  <2>1. g \in FaucetRows
    BY <1>1 DEF FaucetTypeOK
  <2>2. PICK h : h = [g EXCEPT !.row.signed = TRUE]
    OBVIOUS
  <2>3. h \in FaucetRows /\ h.row.wallet = g.row.wallet /\ h.row.signed = TRUE
    BY <2>1, <2>2, SignedGrant
  <2> QED BY <2>1, <2>2, <2>3
<1> HIDE DEF Signed
<1>5. FaucetTypeOK'
  BY <1>1, <1>2, <1>3, <1>4 DEF FaucetTypeOK
<1>6. AskedInTime'
  BY <1>1, <1>2 DEF AskedInTime
<1>7. OneRowPerWallet'
  <2> SUFFICES ASSUME NEW g \in grants, NEW h \in grants, Signed(g).row.wallet = Signed(h).row.wallet
               PROVE  Signed(g) = Signed(h)
    BY <1>3 DEF OneRowPerWallet
  <2>1. g = h
    BY <1>1, <1>4 DEF OneRowPerWallet
  <2> QED BY <2>1
<1>8. Owns(r)
  BY <1>2 DEF Owns
<1>9. OwnersHaveTheirRow'
  <2> SUFFICES ASSUME NEW o \in asking', Owns(o), NEW g \in grants, g.row = Row(o.wallet, o.at)
               PROVE  g \in grants'
    BY <1>1, <1>2, OwnersStay
  <2>1. o \in asking /\ o # r
    BY <1>2
  <2>2. o.wallet # r.wallet
    BY <1>1, <1>8, <2>1 DEF OwnersHaveTheirRow
  <2>3. g.row.wallet # r.wallet
    BY <2>2 DEF Row
  <2> QED BY <1>3, <1>4, <2>3
<1>10. PICK mine \in grants : mine.row = Row(r.wallet, r.at)
  BY <1>1, <1>8 DEF OwnersHaveTheirRow
<1>11. ASSUME NEW w \in Wallets, PaidInSight(w) PROVE PaidInSight(w)'
  <2>1. CASE \E g \in grants : g.row.wallet = w /\ g.row.signed
    <3>1. PICK g \in grants : g.row.wallet = w /\ g.row.signed
      BY <2>1
    <3>2. Signed(g) \in grants' /\ Signed(g).row.wallet = w /\ Signed(g).row.signed
      BY <1>3, <1>4, <3>1
    <3> QED BY <3>2 DEF PaidInSight
  <2>2. CASE \E x \in asking : x.wallet = w /\ x.step = "confirmed"
    <3>1. PICK x \in asking : x.wallet = w /\ x.step = "confirmed"
      BY <2>2
    <3>2. CASE x = r
      <4>1. Signed(mine) \in grants' /\ Signed(mine).row.wallet = w /\ Signed(mine).row.signed
        BY <1>3, <1>4, <1>10, <3>1, <3>2 DEF Row
      <4> QED BY <4>1 DEF PaidInSight
    <3>3. CASE x # r
      BY <1>2, <3>1, <3>3 DEF PaidInSight
    <3> QED BY <3>2, <3>3
  <2> QED BY <1>11, <2>1, <2>2 DEF PaidInSight
<1>12. PaidOnce'
  BY <1>1, <1>2, <1>11, PaymentsStay
<1> QED BY <1>5, <1>6, <1>7, <1>9, <1>12 DEF DoorInv

LEMMA ReleaseKeeps ==
  ASSUME DoorInv, NEW r \in asking, ReleaseGrant(r)
  PROVE  DoorInv'
<1>1. FaucetTypeOK /\ AskedInTime /\ OneRowPerWallet /\ OwnersHaveTheirRow /\ PaidOnce
  BY DEF DoorInv
<1>2. /\ r.step = "failed" /\ asking' = asking \ {r}
      /\ grants' = grants \ {g \in GrantOf(r.wallet) : ~g.row.signed}
      /\ UNCHANGED <<grantNow, operatorVault, operatorPages, made, estranged, paid, blind>>
  BY DEF ReleaseGrant, Drop, phone
<1>3. FaucetTypeOK' /\ AskedInTime' /\ OneRowPerWallet'
  BY <1>1, <1>2 DEF FaucetTypeOK, AskedInTime, OneRowPerWallet
<1>4. Owns(r)
  BY <1>2 DEF Owns
<1>5. OwnersHaveTheirRow'
  <2> SUFFICES ASSUME NEW o \in asking', Owns(o), NEW g \in grants, g.row = Row(o.wallet, o.at)
               PROVE  g \in grants'
    BY <1>1, <1>2, OwnersStay
  <2>1. o \in asking /\ o # r
    BY <1>2
  <2>2. o.wallet # r.wallet
    BY <1>1, <1>4, <2>1 DEF OwnersHaveTheirRow
  <2>3. g.row.wallet # r.wallet
    BY <2>2 DEF Row
  <2> QED BY <1>2, <2>3 DEF GrantOf
<1>6. ASSUME NEW w \in Wallets, PaidInSight(w) PROVE PaidInSight(w)'
  <2>1. CASE \E g \in grants : g.row.wallet = w /\ g.row.signed
    <3>1. \E g \in grants' : g.row.wallet = w /\ g.row.signed
      BY <1>2, <2>1 DEF GrantOf
    <3> QED BY <3>1 DEF PaidInSight
  <2>2. CASE \E x \in asking : x.wallet = w /\ x.step = "confirmed"
    <3>1. \E x \in asking' : x.wallet = w /\ x.step = "confirmed"
      BY <1>2, <2>2
    <3> QED BY <3>1 DEF PaidInSight
  <2> QED BY <1>6, <2>1, <2>2 DEF PaidInSight
<1>7. PaidOnce'
  BY <1>1, <1>2, <1>6, PaymentsStay
<1> QED BY <1>3, <1>5, <1>7 DEF DoorInv

(* A crash drops every request: one that was confirmed is lost from sight  *)
(* and counted as such, and its wallet is not one of those still sending.  *)
LEMMA CrashKeeps ==
  ASSUME DoorInv, CrashFaucet
  PROVE  DoorInv'
<1>1. FaucetTypeOK /\ AskedInTime /\ OneRowPerWallet /\ OwnersHaveTheirRow /\ PaidOnce
  BY DEF DoorInv
<1> DEFINE sending == {r.wallet : r \in {x \in asking : x.step = "claimed"}}
           unsigned == {r.wallet : r \in {x \in asking : x.step = "confirmed"}}
<1>2. /\ asking' = {}
      /\ UNCHANGED <<grantNow, operatorVault, operatorPages, made, estranged, grants>>
  BY DEF CrashFaucet, phone
<1>3. PICK ws \in SUBSET sending :
        /\ paid'  = [w \in Wallets |-> paid[w]  + IF w \in ws THEN 1 ELSE 0]
        /\ blind' = [w \in Wallets |-> blind[w] + IF w \in ws \cup unsigned THEN 1 ELSE 0]
  BY DEF CrashFaucet
<1>4. sending \cap unsigned = {}
  BY <1>1 DEF OwnersHaveTheirRow, Owns
<1>5. \A w \in Wallets : PaidInSight(w) => PaidInSight(w)' \/ w \in unsigned
  BY <1>2 DEF PaidInSight
<1> HIDE DEF sending, unsigned
<1>6. paid \in [Wallets -> Nat] /\ blind \in [Wallets -> Nat]
  BY <1>1 DEF FaucetTypeOK
<1>7. /\ paid' \in [Wallets -> Nat]
      /\ \A w \in Wallets : paid'[w] = paid[w] + IF w \in ws THEN 1 ELSE 0
  BY <1>3, <1>6, UnseenLanding
<1>8. /\ blind' \in [Wallets -> Nat]
      /\ \A w \in Wallets : blind'[w] = blind[w] + IF w \in ws \cup unsigned THEN 1 ELSE 0
  BY <1>3, <1>6, UnseenLanding
<1>9. FaucetTypeOK' /\ AskedInTime' /\ OneRowPerWallet' /\ OwnersHaveTheirRow'
  BY <1>1, <1>2, <1>7, <1>8 DEF FaucetTypeOK, AskedInTime, OneRowPerWallet, OwnersHaveTheirRow
<1>10. ASSUME NEW w \in Wallets
       PROVE  paid'[w] <= blind'[w] + (IF PaidInSight(w)' THEN 1 ELSE 0)
  <2>1. paid[w] \in Nat /\ blind[w] \in Nat /\ paid[w] <= blind[w] + (IF PaidInSight(w) THEN 1 ELSE 0)
    BY <1>1, <1>6 DEF PaidOnce
  <2>2. PICK i \in {0, 1} : i = IF PaidInSight(w) THEN 1 ELSE 0
    OBVIOUS
  <2>3. PICK j \in {0, 1} : j = IF PaidInSight(w)' THEN 1 ELSE 0
    OBVIOUS
  <2>4. i <= j \/ w \in unsigned
    BY <1>5, <2>2, <2>3
  <2>5. w \in unsigned => w \notin ws
    BY <1>3, <1>4
  <2>6. paid[w] <= blind[w] + i
    BY <2>1, <2>2
  <2>7. paid'[w] <= blind'[w] + j
    BY <1>7, <1>8, <2>1, <2>4, <2>5, <2>6
  <2> QED BY <2>3, <2>7
<1> QED BY <1>9, <1>10 DEF DoorInv, PaidOnce

(* The clock waits for nobody but the requests whose blockhash expires. *)
LEMMA GrantTickKeeps ==
  ASSUME DoorInv, GrantTick
  PROVE  DoorInv'
<1>1. FaucetTypeOK /\ AskedInTime /\ OneRowPerWallet /\ OwnersHaveTheirRow /\ PaidOnce
  BY DEF DoorInv
<1>2. /\ grantNow' = grantNow + 1 /\ \A r \in asking : grantNow < r.at + AnswerLimit
      /\ UNCHANGED <<operatorVault, operatorPages, made, estranged, grants, asking, paid, blind>>
  BY DEF GrantTick, phone
<1>3. FaucetTypeOK' /\ OneRowPerWallet' /\ OwnersHaveTheirRow'
  BY <1>1, <1>2 DEF FaucetTypeOK, OneRowPerWallet, OwnersHaveTheirRow
<1>4. AskedInTime'
  <2>1. \A r \in asking : r.at \in Nat
    BY <1>1 DEF FaucetTypeOK, FaucetRequests
  <2>2. grantNow \in Nat /\ AnswerLimit \in Nat
    BY <1>1, FaucetAssumption DEF FaucetTypeOK
  <2> QED BY <1>1, <1>2, <2>1, <2>2 DEF AskedInTime
<1>5. PaidOnce'
  BY <1>1, <1>2 DEF PaidOnce, PaidInSight
<1> QED BY <1>3, <1>4, <1>5 DEF DoorInv

(* What a page does leaves the rows and the payments alone. *)
LEMMA PageKeeps ==
  ASSUME DoorInv, NEW p \in OperatorPages, OpenPage(p) \/ SaveOperator(p) \/ ClosePage(p)
  PROVE  DoorInv'
<1>1. FaucetTypeOK /\ AskedInTime /\ OneRowPerWallet /\ OwnersHaveTheirRow /\ PaidOnce
  BY DEF DoorInv
<1>2. UNCHANGED <<grantNow, grants, asking, paid, blind>>
  BY DEF OpenPage, SaveOperator, ClosePage
<1>3. AskedInTime' /\ OneRowPerWallet' /\ OwnersHaveTheirRow' /\ PaidOnce'
  BY <1>1, <1>2 DEF AskedInTime, OneRowPerWallet, OwnersHaveTheirRow, PaidOnce, PaidInSight
<1> DEFINE Places == {Closed} \cup [step : {"loaded", "shown"}, key : Wallets]
<1>4. operatorPages \in [OperatorPages -> Places] /\ made \in Nat /\ operatorVault \in SUBSET Wallets
  BY <1>1 DEF FaucetTypeOK
<1>5. ASSUME OpenPage(p)
      PROVE  operatorPages' \in [OperatorPages -> Places] /\ made' \in Nat /\ operatorVault' \in SUBSET Wallets
             /\ estranged' \in BOOLEAN
  <2>1. PICK read \in {operatorVault, {}} :
          /\ IF read # {} THEN /\ operatorPages' = [operatorPages EXCEPT ![p] =
                                                     [step |-> "shown", key |-> CHOOSE k \in read : TRUE]]
                               /\ UNCHANGED made
             ELSE /\ made < MaxWallets /\ made' = made + 1
                  /\ operatorPages' = [operatorPages EXCEPT ![p] = [step |-> "loaded", key |-> made + 1]]
          /\ estranged' = (estranged \/ read # operatorVault \/ (read = {} /\ Loading # {}))
    BY <1>5 DEF OpenPage
  <2>2. operatorVault' = operatorVault
    BY <1>5 DEF OpenPage
  <2>3. estranged' \in BOOLEAN
    BY <2>1
  <2>4. CASE read # {}
    <3>1. (CHOOSE k \in read : TRUE) \in Wallets
      BY <1>4, <2>4
    <3>2. [step |-> "shown", key |-> CHOOSE k \in read : TRUE] \in Places
      BY <3>1
    <3> HIDE DEF Places
    <3> QED BY <1>4, <2>1, <2>2, <2>3, <2>4, <3>2
  <2>5. CASE read = {}
    <3>1. made + 1 \in Wallets /\ made' = made + 1
      BY <1>4, <2>1, <2>5, FaucetAssumption DEF Wallets
    <3>2. [step |-> "loaded", key |-> made + 1] \in Places
      BY <3>1
    <3> HIDE DEF Places
    <3> QED BY <1>4, <2>1, <2>2, <2>3, <2>5, <3>1, <3>2
  <2> QED BY <2>4, <2>5
<1>6. ASSUME SaveOperator(p)
      PROVE  operatorPages' \in [OperatorPages -> Places] /\ made' \in Nat /\ operatorVault' \in SUBSET Wallets
             /\ estranged' = estranged
  <2>1. operatorPages[p].step = "loaded"
    BY <1>6 DEF SaveOperator, Loading
  <2>2. operatorPages[p] \in [step : {"loaded", "shown"}, key : Wallets]
    BY <1>4, <2>1 DEF Closed
  <2>3. /\ operatorVault' = {operatorPages[p].key} /\ made' = made /\ estranged' = estranged
        /\ operatorPages' = [operatorPages EXCEPT ![p].step = "shown"]
    BY <1>6 DEF SaveOperator
  <2>4. [operatorPages[p] EXCEPT !.step = "shown"] \in Places /\ operatorPages[p].key \in Wallets
    BY <2>2
  <2>5. operatorPages' = [operatorPages EXCEPT ![p] = [operatorPages[p] EXCEPT !.step = "shown"]]
    BY <1>4, <2>3
  <2> HIDE DEF Places
  <2> QED BY <1>4, <2>3, <2>4, <2>5
<1>7. ASSUME ClosePage(p)
      PROVE  operatorPages' \in [OperatorPages -> Places] /\ made' \in Nat /\ operatorVault' \in SUBSET Wallets
             /\ estranged' = estranged
  <2>1. /\ operatorPages' = [operatorPages EXCEPT ![p] = Closed]
        /\ made' = made /\ operatorVault' = operatorVault /\ estranged' = estranged
    BY <1>7 DEF ClosePage
  <2>2. Closed \in Places
    OBVIOUS
  <2> HIDE DEF Places
  <2> QED BY <1>4, <2>1, <2>2
<1>8. FaucetTypeOK'
  BY <1>1, <1>2, <1>5, <1>6, <1>7 DEF FaucetTypeOK
<1> QED BY <1>3, <1>8 DEF DoorInv

LEMMA AskKeeps ==
  ASSUME DoorInv, NEW p \in OperatorPages, AskFaucet(p)
  PROVE  DoorInv'
<1>1. FaucetTypeOK /\ AskedInTime /\ OneRowPerWallet /\ OwnersHaveTheirRow /\ PaidOnce
  BY DEF DoorInv
<1>2. PICK x : x = [wallet |-> operatorPages[p].key, address |-> AddressOf[p], at |-> grantNow, step |-> "asked"]
  OBVIOUS
<1>3. /\ operatorPages[p].step = "shown" /\ asking' = asking \cup {x}
      /\ UNCHANGED <<grantNow, operatorVault, operatorPages, made, estranged, grants, paid, blind>>
  BY <1>2 DEF AskFaucet, phone
<1>4. operatorPages[p].key \in Wallets /\ grantNow \in Nat
  BY <1>1, <1>3 DEF FaucetTypeOK, Closed
<1>5. x \in FaucetRequests /\ x.at = grantNow /\ x.step = "asked"
  BY <1>2, <1>4 DEF FaucetRequests
<1>6. FaucetTypeOK' /\ OneRowPerWallet'
  BY <1>1, <1>3, <1>5 DEF FaucetTypeOK, OneRowPerWallet
<1>7. AskedInTime'
  <2>1. grantNow <= grantNow /\ grantNow <= grantNow + AnswerLimit
    BY <1>4, FaucetAssumption
  <2> QED BY <1>1, <1>3, <1>5, <2>1 DEF AskedInTime
<1>8. ~Owns(x)
  BY <1>5 DEF Owns
<1>9. OwnersHaveTheirRow'
  BY <1>1, <1>3, <1>8, OwnersStay
<1>10. \A w \in Wallets : PaidInSight(w) => PaidInSight(w)'
  BY <1>3 DEF PaidInSight
<1>11. PaidOnce'
  BY <1>1, <1>3, <1>10, PaymentsStay
<1> QED BY <1>6, <1>7, <1>9, <1>11 DEF DoorInv

(* What the door does leaves the phone alone, and pays only those who ask. *)
LEMMA DoorKeepsTheKey ==
  ASSUME DoorInv, OneKey, UNCHANGED <<operatorVault, operatorPages, made, estranged>>,
         \A r \in asking' : \E x \in asking : r.wallet = x.wallet,
         \A w \in Wallets : paid'[w] > 0 => paid[w] > 0 \/ \E x \in asking : x.wallet = w
  PROVE  OneKey'
<1> SUFFICES ASSUME ~estranged PROVE OneKey'
  BY DEF OneKey
<1>1. Loading' = Loading
  BY DEF Loading
<1>2. \A r \in asking' : operatorVault = {r.wallet}
  BY DEF OneKey
<1>3. \A w \in Wallets : paid'[w] > 0 => operatorVault = {w}
  BY DEF OneKey
<1> QED BY <1>1, <1>2, <1>3 DEF OneKey

LEMMA OpenKeepsTheKey ==
  ASSUME DoorInv, OneKey, NEW p \in OperatorPages, OpenPage(p)
  PROVE  OneKey'
<1>1. PICK read \in {operatorVault, {}} :
        /\ IF read # {} THEN /\ operatorPages' = [operatorPages EXCEPT ![p] =
                                                   [step |-> "shown", key |-> CHOOSE k \in read : TRUE]]
                             /\ UNCHANGED made
           ELSE /\ made < MaxWallets /\ made' = made + 1
                /\ operatorPages' = [operatorPages EXCEPT ![p] = [step |-> "loaded", key |-> made + 1]]
        /\ estranged' = (estranged \/ read # operatorVault \/ (read = {} /\ Loading # {}))
  BY DEF OpenPage
<1>2. UNCHANGED <<operatorVault, asking, paid>> /\ DOMAIN operatorPages = OperatorPages
  BY DEF OpenPage, DoorInv, FaucetTypeOK
<1> SUFFICES ASSUME ~estranged' PROVE OneKey'
  BY DEF OneKey
<1>3. ~estranged /\ read = operatorVault /\ (read = {} => Loading = {})
  BY <1>1
<1>4. /\ \A w \in Wallets : paid[w] > 0 => operatorVault = {w}
      /\ \A r \in asking : operatorVault = {r.wallet}
      /\ \A w, x \in operatorVault : w = x
      /\ \A q \in OperatorPages : operatorPages[q].step = "shown" => operatorVault = {operatorPages[q].key}
      /\ Loading # {} => operatorVault = {}
  BY <1>3 DEF OneKey
<1>5. CASE read # {}
  <2>1. PICK key \in operatorVault : key = CHOOSE k \in read : TRUE
    BY <1>3, <1>5
  <2>2. operatorVault = {key}
    BY <1>4, <2>1
  <2>3. operatorPages' = [operatorPages EXCEPT ![p] = [step |-> "shown", key |-> key]]
    BY <1>1, <1>5, <2>1
  <2>4. /\ operatorPages'[p].step = "shown" /\ operatorPages'[p].key = key
        /\ \A q \in OperatorPages : q # p => operatorPages'[q] = operatorPages[q]
    BY <1>2, <2>3
  <2>5. Loading' = {}
    BY <1>3, <1>4, <1>5, <2>4 DEF Loading
  <2> QED BY <1>2, <1>4, <2>2, <2>4, <2>5 DEF OneKey
<1>6. CASE read = {}
  <2>1. /\ operatorPages'[p].step = "loaded"
        /\ \A q \in OperatorPages : q # p => operatorPages'[q] = operatorPages[q]
    BY <1>1, <1>2, <1>6
  <2>2. Loading = {} /\ operatorVault = {}
    BY <1>3, <1>6
  <2>3. Loading' \subseteq {p}
    BY <2>1, <2>2 DEF Loading
  <2> QED BY <1>2, <1>4, <2>1, <2>2, <2>3 DEF OneKey
<1> QED BY <1>5, <1>6

LEMMA SaveKeepsTheKey ==
  ASSUME DoorInv, OneKey, NEW p \in OperatorPages, SaveOperator(p)
  PROVE  OneKey'
<1>1. /\ p \in Loading /\ operatorVault' = {operatorPages[p].key}
      /\ operatorPages' = [operatorPages EXCEPT ![p].step = "shown"]
      /\ UNCHANGED <<asking, paid, estranged>>
  BY DEF SaveOperator
<1>2. /\ operatorPages \in [OperatorPages -> {Closed} \cup [step : {"loaded", "shown"}, key : Wallets]]
      /\ operatorPages[p].step = "loaded"
  BY <1>1 DEF DoorInv, FaucetTypeOK, Loading
<1> SUFFICES ASSUME ~estranged PROVE OneKey'
  BY <1>1 DEF OneKey
<1>3. /\ operatorVault = {} /\ \A q \in Loading : q = p
      /\ \A q \in OperatorPages : operatorPages[q].step # "shown"
      /\ asking = {} /\ \A w \in Wallets : ~(paid[w] > 0)
  BY <1>1 DEF OneKey
<1>4. operatorPages[p] \in [step : {"loaded", "shown"}, key : Wallets]
  BY <1>2 DEF Closed
<1>5. /\ operatorPages'[p].step = "shown" /\ operatorPages'[p].key = operatorPages[p].key
      /\ \A q \in OperatorPages : q # p => operatorPages'[q] = operatorPages[q]
  BY <1>1, <1>2, <1>4
<1>6. Loading' = {}
  BY <1>3, <1>5 DEF Loading
<1>7. \A q \in OperatorPages : operatorPages'[q].step = "shown" => operatorVault' = {operatorPages'[q].key}
  BY <1>1, <1>3, <1>5
<1> QED BY <1>1, <1>3, <1>6, <1>7 DEF OneKey

LEMMA CloseKeepsTheKey ==
  ASSUME DoorInv, OneKey, NEW p \in OperatorPages, ClosePage(p)
  PROVE  OneKey'
<1>1. /\ operatorPages' = [operatorPages EXCEPT ![p] = Closed] /\ DOMAIN operatorPages = OperatorPages
      /\ UNCHANGED <<operatorVault, asking, paid, estranged>>
  BY DEF ClosePage, DoorInv, FaucetTypeOK
<1>2. /\ operatorPages'[p] = Closed
      /\ \A q \in OperatorPages : q # p => operatorPages'[q] = operatorPages[q]
  BY <1>1
<1>3. Loading' \subseteq Loading
  BY <1>2 DEF Loading, Closed
<1>4. \A q \in OperatorPages : operatorPages'[q].step = "shown" => operatorPages'[q] = operatorPages[q]
  BY <1>2 DEF Closed
<1> QED BY <1>1, <1>3, <1>4 DEF OneKey

LEMMA AskKeepsTheKey ==
  ASSUME DoorInv, OneKey, NEW p \in OperatorPages, AskFaucet(p)
  PROVE  OneKey'
<1>1. /\ operatorPages[p].step = "shown"
      /\ \A r \in asking' : r \in asking \/ r.wallet = operatorPages[p].key
      /\ UNCHANGED <<operatorVault, operatorPages, estranged, paid>>
  BY DEF AskFaucet, phone
<1>2. Loading' = Loading
  BY <1>1 DEF Loading
<1> QED BY <1>1, <1>2 DEF OneKey

(* Every step of the page, the door and the clock keeps the invariant. *)
LEMMA FaucetNextInv == FaucetInv /\ [FaucetNext]_faucetVars => FaucetInv'
<1> SUFFICES ASSUME DoorInv, OneKey, [FaucetNext]_faucetVars PROVE DoorInv' /\ OneKey'
  BY DEF FaucetInv
<1>0. asking \subseteq FaucetRequests /\ paid \in [Wallets -> Nat]
  BY DEF DoorInv, FaucetTypeOK
<1>1. ASSUME NEW p \in OperatorPages, OpenPage(p) PROVE DoorInv' /\ OneKey'
  BY <1>1, PageKeeps, OpenKeepsTheKey
<1>2. ASSUME NEW p \in OperatorPages, SaveOperator(p) PROVE DoorInv' /\ OneKey'
  BY <1>2, PageKeeps, SaveKeepsTheKey
<1>3. ASSUME NEW p \in OperatorPages, ClosePage(p) PROVE DoorInv' /\ OneKey'
  BY <1>3, PageKeeps, CloseKeepsTheKey
<1>4. ASSUME NEW p \in OperatorPages, AskFaucet(p) PROVE DoorInv' /\ OneKey'
  BY <1>4, AskKeeps, AskKeepsTheKey
<1>a. ASSUME NEW r \in asking, NEW s \in {"asked", "counted", "claimed", "confirmed", "failed"},
             Drop(r) \/ To(r, s)
      PROVE  \A x \in asking' : \E y \in asking : x.wallet = y.wallet
  <2>1. PICK x : x = [r EXCEPT !.step = s]
    OBVIOUS
  <2>2. x.wallet = r.wallet
    BY <1>0, <2>1, SteppedRequest
  <2>3. \A y \in asking' : y \in asking \/ y = x
    BY <1>a, <2>1 DEF Drop, To
  <2> QED BY <2>2, <2>3
<1>5. ASSUME NEW r \in asking, CountGrants(r) PROVE DoorInv' /\ OneKey'
  <2>1. /\ UNCHANGED <<operatorVault, operatorPages, made, estranged, paid>>
        /\ Drop(r) \/ To(r, "counted")
    BY <1>5 DEF CountGrants, phone
  <2> QED BY <1>5, <1>a, <2>1, CountKeeps, DoorKeepsTheKey
<1>6. ASSUME NEW r \in asking, ClaimGrant(r) PROVE DoorInv' /\ OneKey'
  <2>1. /\ UNCHANGED <<operatorVault, operatorPages, made, estranged, paid>>
        /\ Drop(r) \/ To(r, "claimed")
    BY <1>6 DEF ClaimGrant, phone
  <2> QED BY <1>6, <1>a, <2>1, ClaimKeeps, DoorKeepsTheKey
<1>7. ASSUME NEW r \in asking, Confirmed(r) PROVE DoorInv' /\ OneKey'
  <2>1. /\ UNCHANGED <<operatorVault, operatorPages, made, estranged>> /\ To(r, "confirmed")
        /\ paid' = [paid EXCEPT ![r.wallet] = @ + 1]
    BY <1>7 DEF Confirmed, phone
  <2>2. \A w \in Wallets : paid'[w] > 0 => paid[w] > 0 \/ \E x \in asking : x.wallet = w
    BY <1>0, <2>1
  <2> QED BY <1>7, <1>a, <2>1, <2>2, ConfirmedKeeps, DoorKeepsTheKey
<1>8. ASSUME NEW r \in asking, NotConfirmed(r) PROVE DoorInv' /\ OneKey'
  <2>1. UNCHANGED <<operatorVault, operatorPages, made, estranged>> /\ To(r, "failed")
    BY <1>8 DEF NotConfirmed, phone
  <2>2. PICK ws \in SUBSET {r.wallet} : LandsUnseen(ws)
    BY <1>8 DEF NotConfirmed
  <2>3. \A w \in Wallets : paid'[w] = paid[w] + IF w \in ws THEN 1 ELSE 0
    BY <1>0, <2>2, UnseenLanding DEF LandsUnseen
  <2>4. \A w \in Wallets : paid'[w] > 0 => paid[w] > 0 \/ \E x \in asking : x.wallet = w
    BY <1>0, <2>2, <2>3
  <2> QED BY <1>8, <1>a, <2>1, <2>4, NotConfirmedKeeps, DoorKeepsTheKey
<1>9. ASSUME NEW r \in asking, SettleGrant(r) PROVE DoorInv' /\ OneKey'
  <2>1. UNCHANGED <<operatorVault, operatorPages, made, estranged, paid>> /\ Drop(r)
    BY <1>9 DEF SettleGrant, phone
  <2> QED BY <1>9, <1>a, <2>1, SettleKeeps, DoorKeepsTheKey
<1>10. ASSUME NEW r \in asking, ReleaseGrant(r) PROVE DoorInv' /\ OneKey'
  <2>1. UNCHANGED <<operatorVault, operatorPages, made, estranged, paid>> /\ Drop(r)
    BY <1>10 DEF ReleaseGrant, phone
  <2> QED BY <1>10, <1>a, <2>1, ReleaseKeeps, DoorKeepsTheKey
<1>11. ASSUME CrashFaucet PROVE DoorInv' /\ OneKey'
  <2>1. UNCHANGED <<operatorVault, operatorPages, made, estranged>> /\ asking' = {}
    BY <1>11 DEF CrashFaucet, phone
  <2>2. PICK ws \in SUBSET {r.wallet : r \in {x \in asking : x.step = "claimed"}} :
          paid' = [w \in Wallets |-> paid[w] + IF w \in ws THEN 1 ELSE 0]
    BY <1>11 DEF CrashFaucet
  <2>3. \A w \in ws : \E x \in asking : x.wallet = w
    BY <2>2
  <2>4. \A w \in Wallets : paid'[w] > 0 => paid[w] > 0 \/ \E x \in asking : x.wallet = w
    BY <1>0, <2>2, <2>3
  <2> QED BY <1>11, <2>1, <2>4, CrashKeeps, DoorKeepsTheKey
<1>12. ASSUME GrantTick PROVE DoorInv' /\ OneKey'
  <2>1. UNCHANGED <<operatorVault, operatorPages, made, estranged, asking, paid>>
    BY <1>12 DEF GrantTick, phone
  <2> QED BY <1>12, <2>1, GrantTickKeeps, DoorKeepsTheKey
<1>13. ASSUME UNCHANGED faucetVars PROVE DoorInv' /\ OneKey'
  BY <1>13 DEF faucetVars, DoorInv, FaucetTypeOK, AskedInTime, OneRowPerWallet, OwnersHaveTheirRow,
               PaidOnce, PaidInSight, OneKey, Loading
<1> QED BY <1>1, <1>2, <1>3, <1>4, <1>5, <1>6, <1>7, <1>8, <1>9, <1>10, <1>11, <1>12, <1>13 DEF FaucetNext

(* The faucet's invariant holds in every reachable state. *)
THEOREM FaucetInvariance == FaucetSpec => []FaucetInv
BY FaucetInitInv, FaucetNextInv, PTL DEF FaucetSpec

(* A wallet is paid twice only when the end of an earlier payment was not  *)
(* seen, and what is paid is paid to the key the phone has.                *)
THEOREM NoGrantIsWasted == FaucetSpec => []GrantsAreNotWasted
<1>1. FaucetInv => GrantsAreNotWasted
  <2> SUFFICES ASSUME DoorInv, OneKey PROVE GrantsAreNotWasted
    BY DEF FaucetInv
  <2>1. ASSUME NEW w \in Wallets PROVE paid[w] <= 1 + blind[w]
    <3>1. /\ paid[w] \in Nat /\ blind[w] \in Nat
          /\ paid[w] <= blind[w] + (IF PaidInSight(w) THEN 1 ELSE 0)
      BY DEF DoorInv, FaucetTypeOK, PaidOnce
    <3>2. PICK i \in {0, 1} : i = IF PaidInSight(w) THEN 1 ELSE 0
      OBVIOUS
    <3> QED BY <3>1, <3>2
  <2> QED BY <2>1 DEF GrantsAreNotWasted, OneKey
<1> QED BY <1>1, FaucetInvariance, PTL

(***************************************************************************)
(* The rewards.                                                            *)
(***************************************************************************)
(* What the account, and so the mirror, can say. *)
IsHolding(row) == row = <<0>> \/ (row[2] \in Nat /\ row = <<row[2] + 1, row[2]>>)

CellsOf(row) == {row[i] : i \in DOMAIN row}

RewardTypeOK ==
  /\ rewardNow \in Nat
  /\ IsHolding(holding) /\ IsHolding(holdingMirror)
  /\ movedOn \in SUBSET Nat /\ \A d, e \in movedOn : d = e
  /\ movedOn = {} <=> holding = <<0>>
  /\ measured \subseteq Nat \X Nat
  /\ nextAt \in SUBSET Nat

(* A day the worker may still read was measured in the cell the sensor is  *)
(* in, or in the one it left when the mirror could still say so; both the  *)
(* account and the mirror have its cell.                                   *)
ReachableIsHeld ==
  \A m \in measured : m[2] >= FromDay =>
    /\ m[2] <= RewardToday
    /\ \/ m[1] = holding[1]
       \/ \E d \in movedOn : holding = <<holding[1], m[1]>> /\ m[2] <= d + MirrorLag
    /\ m[1] \in CellsOf(holdingMirror)

SignedIsMeasured == \A day \in signedDays : <<day.cell, day.day>> \in measured

(* The next reading is near enough for every day that waits for it. *)
NextIsInTime ==
  \A at \in nextAt :
    /\ at <= rewardNow + RetryTicks
    /\ \A day \in Unread(signedDays) : \A since \in day.since : at <= since + RetryTicks

SignedRows == [cell : Nat, day : Nat, since : SUBSET Nat, read : BOOLEAN, holder : {"none", "sensor", "nobody"}]

SignedTypeOK == signedDays \subseteq SignedRows

RewardInv ==
  /\ RewardTypeOK
  /\ ReachableIsHeld
  /\ SignedIsMeasured
  /\ NextIsInTime
  /\ SignedTypeOK
  /\ EarningsFindTheirSensor
  /\ HistoryIsNotStarved

LEMMA RewardInitInv == RewardInit => RewardInv
<1> SUFFICES ASSUME RewardInit PROVE RewardInv
  OBVIOUS
<1>1. RewardTypeOK
  BY DEF RewardInit, RewardTypeOK, IsHolding
<1>2. /\ ReachableIsHeld /\ SignedIsMeasured /\ NextIsInTime /\ SignedTypeOK
      /\ EarningsFindTheirSensor /\ HistoryIsNotStarved
  BY DEF RewardInit, ReachableIsHeld, SignedIsMeasured, NextIsInTime, SignedTypeOK,
         EarningsFindTheirSensor, HistoryIsNotStarved
<1> QED BY <1>1, <1>2 DEF RewardInv

(* Quotients: between which multiples a number lies, and that they grow. *)
LEMMA Quotient ==
  ASSUME NEW a \in Nat, NEW n \in Nat \ {0}
  PROVE  a \div n \in Nat /\ n * (a \div n) <= a /\ a < n * (a \div n) + n
OBVIOUS

LEMMA QuotientGrows ==
  ASSUME NEW a \in Nat, NEW b \in Nat, a <= b, NEW n \in Nat \ {0}
  PROVE  a \div n <= b \div n
<1> DEFINE p == a \div n  q == b \div n
<1>1. p \in Nat /\ q \in Nat /\ n * p <= a /\ b < n * q + n
  BY Quotient
<1> HIDE DEF p, q
<1>2. ASSUME q + 1 <= p PROVE FALSE
  <2>1. n * (q + 1) <= n * p
    BY <1>1, <1>2
  <2>2. n * (q + 1) = n * q + n
    BY <1>1
  <2> QED BY <1>1, <2>1, <2>2
<1>3. p <= q
  BY <1>1, <1>2
<1> QED BY <1>3 DEF p, q

(* The days within reach, at a moment. *)
LEMMA ReachType ==
  ASSUME rewardNow \in Nat
  PROVE  /\ RewardToday \in Nat /\ FromDay \in Nat /\ FromDay <= RewardToday
         /\ RewardToday >= RewardBacklog => FromDay = RewardToday - RewardBacklog
         /\ RewardToday - RewardBacklog <= FromDay
<1>1. RewardDayTicks \in Nat \ {0} /\ RewardBacklog \in Nat
  BY RewardMirrorAssumption
<1>2. rewardNow \div RewardDayTicks \in Nat
  BY <1>1, Quotient
<1> QED BY <1>1, <1>2 DEF RewardToday, RewardDay, FromDay

LEMMA ReachMovesOn ==
  ASSUME rewardNow \in Nat, rewardNow' = rewardNow + 1
  PROVE  RewardToday <= RewardToday' /\ FromDay <= FromDay'
<1>1. RewardDayTicks \in Nat \ {0} /\ RewardBacklog \in Nat /\ rewardNow + 1 \in Nat
  BY RewardMirrorAssumption
<1>2. rewardNow \div RewardDayTicks <= (rewardNow + 1) \div RewardDayTicks
  BY <1>1, QuotientGrows
<1>3. rewardNow \div RewardDayTicks \in Nat /\ (rewardNow + 1) \div RewardDayTicks \in Nat
  BY <1>1, Quotient
<1>4. RewardToday = rewardNow \div RewardDayTicks /\ RewardToday' = (rewardNow + 1) \div RewardDayTicks
  BY DEF RewardToday, RewardDay
<1> QED BY <1>1, <1>2, <1>3, <1>4 DEF FromDay

LEMMA CellsOfAHolding ==
  ASSUME NEW row, IsHolding(row)
  PROVE  row[1] \in Nat /\ row[1] \in CellsOf(row)
BY DEF IsHolding, CellsOf

LEMMA CellsOfTwo ==
  ASSUME NEW a, NEW b
  PROVE  a \in CellsOf(<<a, b>>) /\ b \in CellsOf(<<a, b>>)
BY DEF CellsOf

(* A day within reach is of a cell the account has. *)
LEMMA ReachableIsInTheAccount ==
  ASSUME RewardTypeOK, ReachableIsHeld, NEW m \in measured, m[2] >= FromDay
  PROVE  m[1] \in CellsOf(holding)
<1>1. CASE m[1] = holding[1]
  BY <1>1, CellsOfAHolding DEF RewardTypeOK
<1>2. CASE holding = <<holding[1], m[1]>>
  BY <1>2, CellsOfTwo
<1> QED BY <1>1, <1>2 DEF ReachableIsHeld

LEMMA MeasureKeeps ==
  ASSUME RewardInv, Measure
  PROVE  RewardInv'
<1>1. /\ RewardTypeOK /\ ReachableIsHeld /\ SignedIsMeasured /\ NextIsInTime /\ SignedTypeOK
      /\ EarningsFindTheirSensor
  BY DEF RewardInv
<1>2. PICK new : new = <<holdingMirror[1], RewardToday>>
  OBVIOUS
<1>3. /\ Fresh /\ measured' = measured \cup {new} /\ looked' = FALSE
      /\ UNCHANGED <<rewardNow, holding, movedOn, holdingMirror, signedDays, nextAt, owed>>
  BY <1>2 DEF Measure
<1>4. FromDay' = FromDay /\ RewardToday' = RewardToday
  BY <1>3 DEF FromDay, RewardToday
<1>5. RewardToday \in Nat /\ holdingMirror[1] \in Nat /\ holdingMirror[1] \in CellsOf(holdingMirror)
  BY <1>1, ReachType, CellsOfAHolding DEF RewardTypeOK
<1>6. RewardTypeOK'
  BY <1>1, <1>2, <1>3, <1>5 DEF RewardTypeOK
<1>7. \/ new[1] = holding[1]
      \/ \E d \in movedOn : holding = <<holding[1], new[1]>> /\ new[2] <= d + MirrorLag
  <2>1. CASE holdingMirror = holding
    BY <1>2, <2>1
  <2>2. CASE \E day \in movedOn : holdingMirror[1] = holding[2] /\ RewardToday <= day + MirrorLag
    <3>1. PICK day \in movedOn : holdingMirror[1] = holding[2] /\ RewardToday <= day + MirrorLag
      BY <2>2
    <3>2. CASE holding = <<0>>
      BY <1>1, <3>1, <3>2 DEF RewardTypeOK   \* it has never moved
    <3>3. CASE holding = <<holding[2] + 1, holding[2]>>
      <4>1. holding = <<holding[1], holding[2]>>
        BY <3>3
      <4> QED BY <1>2, <3>1, <4>1
    <3> QED BY <1>1, <3>2, <3>3 DEF RewardTypeOK, IsHolding
  <2> QED BY <1>3, <2>1, <2>2 DEF Fresh
<1>8. ReachableIsHeld'
  BY <1>1, <1>2, <1>3, <1>4, <1>5, <1>7 DEF ReachableIsHeld, CellsOf
<1>9. SignedIsMeasured' /\ SignedTypeOK' /\ EarningsFindTheirSensor'
  BY <1>1, <1>3 DEF SignedIsMeasured, SignedTypeOK, EarningsFindTheirSensor
<1>10. NextIsInTime' /\ HistoryIsNotStarved'
  BY <1>1, <1>3, <1>4 DEF NextIsInTime, HistoryIsNotStarved, Unread
<1> QED BY <1>6, <1>8, <1>9, <1>10 DEF RewardInv

(* A move leaves behind only days the worker no longer reads. *)
LEMMA MoveOnKeeps ==
  ASSUME RewardInv, MoveOn
  PROVE  RewardInv'
<1>1. /\ RewardTypeOK /\ ReachableIsHeld /\ SignedIsMeasured /\ NextIsInTime /\ SignedTypeOK
      /\ EarningsFindTheirSensor
  BY DEF RewardInv
<1>2. /\ \A day \in movedOn : RewardToday >= day + MoveSpacing
      /\ holding' = <<holding[1] + 1, holding[1]>> /\ movedOn' = {RewardToday} /\ looked' = FALSE
      /\ UNCHANGED <<rewardNow, holdingMirror, measured, signedDays, nextAt, owed>>
  BY DEF MoveOn
<1>3. FromDay' = FromDay /\ RewardToday' = RewardToday
  BY <1>2 DEF FromDay, RewardToday
<1>4. /\ RewardToday \in Nat /\ FromDay \in Nat /\ RewardToday - RewardBacklog <= FromDay
      /\ holding[1] \in Nat
  BY <1>1, ReachType, CellsOfAHolding DEF RewardTypeOK
<1>5. RewardTypeOK'
  <2>1. holding' = <<holding'[2] + 1, holding'[2]>> /\ holding'[2] \in Nat
    BY <1>2, <1>4
  <2>2. holding' # <<0>>
    BY <1>2, <1>4
  <2>3. movedOn' # {} /\ movedOn' \in SUBSET Nat /\ \A d, e \in movedOn' : d = e
    BY <1>2, <1>4
  <2> QED BY <1>1, <1>2, <2>1, <2>2, <2>3 DEF RewardTypeOK, IsHolding
<1>6. ReachableIsHeld'
  <2> SUFFICES ASSUME NEW m \in measured, m[2] >= FromDay
               PROVE  /\ m[2] <= RewardToday
                      /\ \E d \in movedOn' : holding' = <<holding'[1], m[1]>> /\ m[2] <= d + MirrorLag
                      /\ m[1] \in CellsOf(holdingMirror)
    BY <1>2, <1>3 DEF ReachableIsHeld
  <2>1. m[2] <= RewardToday /\ m[1] \in CellsOf(holdingMirror)
    BY <1>1 DEF ReachableIsHeld
  <2>2. m[1] = holding[1]
    <3> SUFFICES ASSUME NEW d \in movedOn, m[2] <= d + MirrorLag PROVE FALSE
      BY <1>1 DEF ReachableIsHeld
    <3>1. d \in Nat /\ m[2] \in Nat /\ RewardToday >= d + MoveSpacing
      BY <1>1, <1>2 DEF RewardTypeOK
    <3>2. MoveSpacing \in Nat /\ MirrorLag \in Nat /\ RewardBacklog \in Nat /\ MoveSpacing > RewardBacklog + MirrorLag
      BY RewardMirrorAssumption
    <3> QED BY <1>4, <3>1, <3>2
  <2>3. holding' = <<holding'[1], m[1]>>
    BY <1>2, <2>2
  <2>4. m[2] \in Nat /\ MirrorLag \in Nat
    BY <1>1, RewardMirrorAssumption DEF RewardTypeOK
  <2>5. m[2] <= RewardToday + MirrorLag
    BY <1>4, <2>1, <2>4
  <2> QED BY <1>2, <2>1, <2>3, <2>5
<1>7. SignedIsMeasured' /\ SignedTypeOK' /\ EarningsFindTheirSensor'
  BY <1>1, <1>2 DEF SignedIsMeasured, SignedTypeOK, EarningsFindTheirSensor
<1>8. NextIsInTime' /\ HistoryIsNotStarved'
  BY <1>1, <1>2, <1>3 DEF NextIsInTime, HistoryIsNotStarved, Unread
<1> QED BY <1>5, <1>6, <1>7, <1>8 DEF RewardInv

LEMMA ServedKeeps ==
  ASSUME RewardInv, NEW served \in signedDays, Served(served)
  PROVE  RewardInv'
<1>1. /\ RewardTypeOK /\ ReachableIsHeld /\ SignedIsMeasured /\ NextIsInTime /\ SignedTypeOK
      /\ EarningsFindTheirSensor
  BY DEF RewardInv
<1>2. PICK new : new = [served EXCEPT !.since = {rewardNow}]
  OBVIOUS
<1>3. /\ signedDays' = (signedDays \ {served}) \cup {new} /\ looked' = FALSE
      /\ UNCHANGED <<rewardNow, holding, movedOn, holdingMirror, measured, nextAt, owed>>
  BY <1>2 DEF Served
<1>4. rewardNow \in Nat /\ served \in SignedRows
  BY <1>1 DEF RewardTypeOK, SignedTypeOK
<1>5. /\ new \in SignedRows /\ new.since = {rewardNow} /\ new.cell = served.cell /\ new.day = served.day
      /\ new.read = served.read /\ new.holder = served.holder
  BY <1>2, <1>4 DEF SignedRows
<1>6. FromDay' = FromDay /\ RewardToday' = RewardToday
  BY <1>3 DEF FromDay, RewardToday
<1>7. RewardTypeOK' /\ ReachableIsHeld' /\ SignedTypeOK'
  BY <1>1, <1>3, <1>5, <1>6 DEF RewardTypeOK, ReachableIsHeld, SignedTypeOK
<1>8. SignedIsMeasured' /\ EarningsFindTheirSensor'
  BY <1>1, <1>3, <1>5 DEF SignedIsMeasured, EarningsFindTheirSensor
<1>9. NextIsInTime'
  <2>1. Unread(signedDays)' \subseteq Unread(signedDays) \cup {new}
    BY <1>3, <1>6 DEF Unread
  <2> QED BY <1>1, <1>3, <1>5, <2>1 DEF NextIsInTime
<1>10. HistoryIsNotStarved'
  BY <1>3 DEF HistoryIsNotStarved
<1> QED BY <1>7, <1>8, <1>9, <1>10 DEF RewardInv

LEMMA CrashMirrorKeeps ==
  ASSUME RewardInv, CrashMirror
  PROVE  RewardInv'
<1>1. /\ RewardTypeOK /\ ReachableIsHeld /\ SignedIsMeasured /\ SignedTypeOK /\ EarningsFindTheirSensor
  BY DEF RewardInv
<1>2. /\ nextAt' = {} /\ looked' = FALSE
      /\ UNCHANGED <<rewardNow, holding, movedOn, holdingMirror, measured, signedDays>>
  BY DEF CrashMirror
<1>3. FromDay' = FromDay /\ RewardToday' = RewardToday
  BY <1>2 DEF FromDay, RewardToday
<1>4. RewardTypeOK' /\ ReachableIsHeld' /\ SignedIsMeasured' /\ SignedTypeOK' /\ EarningsFindTheirSensor'
  BY <1>1, <1>2, <1>3 DEF RewardTypeOK, ReachableIsHeld, SignedIsMeasured, SignedTypeOK, EarningsFindTheirSensor
<1>5. NextIsInTime' /\ HistoryIsNotStarved'
  BY <1>2 DEF NextIsInTime, HistoryIsNotStarved
<1> QED BY <1>4, <1>5 DEF RewardInv

LEMMA RewardTickKeeps ==
  ASSUME RewardInv, RewardTick
  PROVE  RewardInv'
<1>1. /\ RewardTypeOK /\ ReachableIsHeld /\ SignedIsMeasured /\ NextIsInTime /\ SignedTypeOK
      /\ EarningsFindTheirSensor
  BY DEF RewardInv
<1>2. /\ rewardNow' = rewardNow + 1 /\ looked' = FALSE
      /\ UNCHANGED <<holding, movedOn, holdingMirror, measured, signedDays, nextAt, owed>>
  BY DEF RewardTick
<1>3. rewardNow \in Nat /\ RewardToday \in Nat /\ FromDay \in Nat
  BY <1>1, ReachType DEF RewardTypeOK
<1>4. RewardToday' \in Nat /\ FromDay' \in Nat /\ RewardToday <= RewardToday' /\ FromDay <= FromDay'
  <2>1. (rewardNow \in Nat)'
    BY <1>2, <1>3
  <2>2. (RewardToday \in Nat /\ FromDay \in Nat)'
    BY <2>1, ReachType, PTL
  <2> QED BY <1>2, <1>3, <2>2, ReachMovesOn
<1>5. RewardTypeOK'
  BY <1>1, <1>2 DEF RewardTypeOK
<1>6. ReachableIsHeld'
  <2>1. \A m \in measured : m[2] \in Nat
    BY <1>1 DEF RewardTypeOK
  <2> QED BY <1>1, <1>2, <1>3, <1>4, <2>1 DEF ReachableIsHeld
<1>7. SignedIsMeasured' /\ SignedTypeOK' /\ EarningsFindTheirSensor' /\ HistoryIsNotStarved'
  BY <1>1, <1>2 DEF SignedIsMeasured, SignedTypeOK, EarningsFindTheirSensor, HistoryIsNotStarved
<1>8. Unread(signedDays)' \subseteq Unread(signedDays)
  <2>1. \A day \in signedDays : day.day \in Nat
    BY <1>1 DEF SignedIsMeasured, RewardTypeOK
  <2> QED BY <1>2, <1>3, <1>4, <2>1 DEF Unread
<1>9. NextIsInTime'
  <2>1. nextAt \in SUBSET Nat /\ RetryTicks \in Nat
    BY <1>1, RewardMirrorAssumption DEF RewardTypeOK
  <2> QED BY <1>1, <1>2, <1>3, <1>8, <2>1 DEF NextIsInTime
<1> QED BY <1>5, <1>6, <1>7, <1>9 DEF RewardInv

(* The days a cycle knows after it has sent some. *)
LEMMA KnownDays ==
  ASSUME RewardInv, NEW row, NEW added \in SUBSET Sendable(row), NEW known, known = signedDays \cup added
  PROVE  /\ known \subseteq SignedRows
         /\ \A day \in known : /\ <<day.cell, day.day>> \in measured
                               /\ day.read => day.holder = "sensor"
                               /\ day \in signedDays \/ day.since = {}
<1>1. RewardTypeOK /\ SignedIsMeasured /\ SignedTypeOK /\ EarningsFindTheirSensor
  BY DEF RewardInv
<1>2. ASSUME NEW day \in added
      PROVE  /\ day \in SignedRows /\ <<day.cell, day.day>> \in measured
             /\ day.read = FALSE /\ day.since = {}
  <2>1. PICK m \in measured : day = [cell |-> m[1], day |-> m[2], since |-> {}, read |-> FALSE, holder |-> "none"]
    BY DEF Sendable
  <2>2. m \in Nat \X Nat
    BY <1>1 DEF RewardTypeOK
  <2>3. m = <<m[1], m[2]>> /\ m[1] \in Nat /\ m[2] \in Nat
    BY <2>2
  <2> QED BY <2>1, <2>3 DEF SignedRows
<1>3. ASSUME NEW day \in signedDays
      PROVE  day \in SignedRows /\ <<day.cell, day.day>> \in measured /\ (day.read => day.holder = "sensor")
  BY <1>1 DEF SignedIsMeasured, SignedTypeOK, EarningsFindTheirSensor
<1> QED BY <1>2, <1>3

(* The cell of a day within reach is one of the row's, however stale. *)
LEMMA HolderIsFound ==
  ASSUME RewardInv, NEW row \in {holding, holdingMirror}, NEW day \in SignedRows,
         <<day.cell, day.day>> \in measured, day.day >= FromDay
  PROVE  HolderOf(row, day.cell) = "sensor"
<1> DEFINE m == <<day.cell, day.day>>
<1>1. m \in measured /\ m[1] = day.cell /\ m[2] >= FromDay
  OBVIOUS
<1> HIDE DEF m
<1>2. m[1] \in CellsOf(holding)
  BY <1>1, ReachableIsInTheAccount DEF RewardInv
<1>3. m[1] \in CellsOf(holdingMirror)
  BY <1>1 DEF RewardInv, ReachableIsHeld
<1> QED BY <1>1, <1>2, <1>3 DEF HolderOf, CellsOf

(* What a reading makes of a day, when the database answers and when not.  *)
LEMMA ReadRow ==
  ASSUME NEW day \in SignedRows, NEW holder \in {"sensor", "nobody"}, NEW x,
         x = [day EXCEPT !.read = TRUE, !.holder = holder]
  PROVE  x \in SignedRows /\ x.cell = day.cell /\ x.day = day.day /\ x.read = TRUE /\ x.holder = holder
BY DEF SignedRows

LEMMA UnservedRow ==
  ASSUME NEW day \in SignedRows, NEW x, x = [day EXCEPT !.since = {}]
  PROVE  /\ x \in SignedRows /\ x.cell = day.cell /\ x.day = day.day /\ x.since = {}
         /\ x.read = day.read /\ x.holder = day.holder
BY DEF SignedRows

LEMMA CycleKeeps ==
  ASSUME RewardInv, Cycle
  PROVE  RewardInv'
<1>1. /\ RewardTypeOK /\ ReachableIsHeld /\ SignedIsMeasured /\ NextIsInTime /\ SignedTypeOK
      /\ EarningsFindTheirSensor
  BY DEF RewardInv
<1>2. UNCHANGED <<rewardNow, holding, movedOn, measured>>
  BY DEF Cycle
<1>3. PICK row \in {holding, holdingMirror} :
        /\ holdingMirror' = row
        /\ \E added \in SUBSET Sendable(row), others \in BOOLEAN :
             ReadIfDue(signedDays \cup added, row, added # {} \/ others)
  BY DEF Cycle
<1>4. PICK added \in SUBSET Sendable(row), others \in BOOLEAN :
        ReadIfDue(signedDays \cup added, row, added # {} \/ others)
  BY <1>3
<1>a. PICK known : known = signedDays \cup added
  OBVIOUS
<1>b. PICK submitted : submitted = (added # {} \/ others)
  OBVIOUS
<1>5. ReadIfDue(known, row, submitted)
  BY <1>4, <1>a, <1>b
<1>6. /\ known \subseteq SignedRows
      /\ \A day \in known : /\ <<day.cell, day.day>> \in measured
                            /\ day.read => day.holder = "sensor"
                            /\ day \in signedDays \/ day.since = {}
  BY <1>a, KnownDays
<1>7. FromDay' = FromDay /\ RewardToday' = RewardToday
  BY <1>2 DEF FromDay, RewardToday
<1>8. ReachableIsHeld'
  <2>1. \A m \in measured : m[2] >= FromDay => m[1] \in CellsOf(row)
    BY <1>1, <1>3, ReachableIsInTheAccount DEF ReachableIsHeld
  <2> QED BY <1>1, <1>2, <1>3, <1>7, <2>1 DEF ReachableIsHeld
<1>9. rewardNow \in Nat /\ RetryTicks \in Nat \ {0} /\ rewardNow + RetryTicks \in Nat
  BY <1>1, RewardMirrorAssumption DEF RewardTypeOK
<1>10. nextAt' \in SUBSET Nat => RewardTypeOK'
  BY <1>1, <1>2, <1>3 DEF RewardTypeOK
<1>11. ASSUME ReadIsDue(submitted), signedDays' = ReadDays(known, row), looked' = TRUE,
              nextAt' = {rewardNow + RetryTicks}
       PROVE  RewardInv'
  <2> DEFINE After(day) == IF day \in Unread(known) /\ day.since # {}
                           THEN [day EXCEPT !.read = TRUE, !.holder = HolderOf(row, day.cell)] ELSE day
  <2>1. signedDays' = {After(day) : day \in known}
    BY <1>11 DEF ReadDays
  <2>2. ASSUME NEW day \in known
        PROVE  /\ After(day) \in SignedRows /\ <<After(day).cell, After(day).day>> \in measured
               /\ After(day).read => After(day).holder = "sensor"
               /\ After(day).day >= FromDay /\ ~After(day).read => After(day).since = {}
    <3>1. CASE day \in Unread(known) /\ day.since # {}
      <4>1. HolderOf(row, day.cell) = "sensor"
        BY <1>3, <1>6, <3>1, HolderIsFound DEF Unread
      <4>2. PICK x : x = [day EXCEPT !.read = TRUE, !.holder = "sensor"]
        OBVIOUS
      <4>3. x \in SignedRows /\ x.cell = day.cell /\ x.day = day.day /\ x.read = TRUE /\ x.holder = "sensor"
        BY <1>6, <4>2, ReadRow
      <4>4. After(day) = x
        BY <3>1, <4>1, <4>2
      <4> QED BY <1>6, <4>3, <4>4
    <3>2. CASE ~(day \in Unread(known) /\ day.since # {})
      <4>1. After(day) = day
        BY <3>2
      <4>2. day.day >= FromDay /\ ~day.read => day.since = {}
        BY <3>2 DEF Unread
      <4> HIDE DEF After
      <4> QED BY <1>6, <4>1, <4>2
    <3> QED BY <3>1, <3>2
  <2> HIDE DEF After
  <2>3. SignedTypeOK' /\ SignedIsMeasured' /\ EarningsFindTheirSensor'
    BY <1>2, <2>1, <2>2 DEF SignedTypeOK, SignedIsMeasured, EarningsFindTheirSensor
  <2>4. \A day \in Unread(signedDays)' : day.since = {}
    BY <1>7, <2>1, <2>2 DEF Unread
  <2>5. HistoryIsNotStarved'
    BY <2>4 DEF HistoryIsNotStarved
  <2>6. RewardTypeOK'
    BY <1>9, <1>10, <1>11
  <2>7. NextIsInTime'
    BY <1>2, <1>9, <1>11, <2>4 DEF NextIsInTime
  <2> QED BY <1>8, <2>3, <2>5, <2>6, <2>7 DEF RewardInv
<1>12. ASSUME ReadIsDue(submitted),
              signedDays' = {IF day.read THEN day ELSE [day EXCEPT !.since = {}] : day \in known},
              looked' = FALSE, nextAt' = {rewardNow + RetryTicks}
       PROVE  RewardInv'
  <2> DEFINE After(day) == IF day.read THEN day ELSE [day EXCEPT !.since = {}]
  <2>1. signedDays' = {After(day) : day \in known}
    BY <1>12
  <2>2. ASSUME NEW day \in known
        PROVE  /\ After(day) \in SignedRows /\ <<After(day).cell, After(day).day>> \in measured
               /\ After(day).read => After(day).holder = "sensor"
               /\ ~After(day).read => After(day).since = {}
    <3>1. PICK x : x = [day EXCEPT !.since = {}]
      OBVIOUS
    <3>2. /\ x \in SignedRows /\ x.cell = day.cell /\ x.day = day.day /\ x.since = {}
          /\ x.read = day.read /\ x.holder = day.holder
      BY <1>6, <3>1, UnservedRow
    <3>3. CASE day.read
      <4>1. After(day) = day
        BY <3>3
      <4> HIDE DEF After
      <4> QED BY <1>6, <3>3, <4>1
    <3>4. CASE ~day.read
      <4>1. After(day) = x
        BY <3>1, <3>4
      <4> HIDE DEF After
      <4> QED BY <1>6, <3>2, <3>4, <4>1
    <3> QED BY <3>3, <3>4
  <2> HIDE DEF After
  <2>3. SignedTypeOK' /\ SignedIsMeasured' /\ EarningsFindTheirSensor'
    BY <1>2, <2>1, <2>2 DEF SignedTypeOK, SignedIsMeasured, EarningsFindTheirSensor
  <2>4. \A day \in Unread(signedDays)' : day.since = {}
    BY <2>1, <2>2 DEF Unread
  <2>5. HistoryIsNotStarved'
    BY <1>12 DEF HistoryIsNotStarved
  <2>6. RewardTypeOK'
    BY <1>9, <1>10, <1>12
  <2>7. NextIsInTime'
    BY <1>2, <1>9, <1>12, <2>4 DEF NextIsInTime
  <2> QED BY <1>8, <2>3, <2>5, <2>6, <2>7 DEF RewardInv
<1>13. ASSUME ~ReadIsDue(submitted), looked' = TRUE, signedDays' = known, nextAt' = nextAt
       PROVE  RewardInv'
  <2>1. SignedTypeOK' /\ SignedIsMeasured' /\ EarningsFindTheirSensor' /\ RewardTypeOK'
    BY <1>1, <1>2, <1>6, <1>10, <1>13 DEF RewardTypeOK, SignedTypeOK, SignedIsMeasured, EarningsFindTheirSensor
  <2>2. PICK at \in nextAt : ~(rewardNow >= at)
    BY <1>13 DEF ReadIsDue
  <2>3. \A day \in Unread(signedDays)' : day \in Unread(signedDays) \/ day.since = {}
    BY <1>6, <1>7, <1>13 DEF Unread
  <2>4. NextIsInTime'
    BY <1>1, <1>2, <1>13, <2>3 DEF NextIsInTime
  <2>5. \A day \in Unread(signedDays)' : \A since \in day.since : rewardNow < since + RetryTicks
    <3> SUFFICES ASSUME NEW day \in Unread(signedDays), NEW since \in day.since
                 PROVE  rewardNow < since + RetryTicks
      BY <2>3
    <3>1. since \in Nat /\ at \in Nat /\ at <= since + RetryTicks
      BY <1>1, <2>2 DEF RewardTypeOK, NextIsInTime, SignedTypeOK, SignedRows, Unread
    <3> QED BY <1>9, <2>2, <3>1
  <2>6. HistoryIsNotStarved'
    BY <1>2, <2>5 DEF HistoryIsNotStarved
  <2> QED BY <1>8, <2>1, <2>4, <2>6 DEF RewardInv
<1> QED BY <1>5, <1>11, <1>12, <1>13 DEF ReadIfDue

(* Every step of the sensor, the clock and the worker keeps the invariant. *)
LEMMA RewardNextInv == RewardInv /\ [RewardNext]_rewardVars => RewardInv'
<1> SUFFICES ASSUME RewardInv, [RewardNext]_rewardVars PROVE RewardInv'
  OBVIOUS
<1>1. CASE UNCHANGED rewardVars
  BY <1>1 DEF rewardVars, RewardInv, RewardTypeOK, ReachableIsHeld, SignedIsMeasured, NextIsInTime,
              SignedTypeOK, EarningsFindTheirSensor, HistoryIsNotStarved, Unread, FromDay, RewardToday
<1> QED BY <1>1, MeasureKeeps, MoveOnKeeps, ServedKeeps, RewardTickKeeps, CycleKeeps, CrashMirrorKeeps
        DEF RewardNext

(* The mirror's invariant holds in every reachable state. *)
THEOREM RewardInvariance == RewardSpec => []RewardInv
BY RewardInitInv, RewardNextInv, PTL DEF RewardSpec

(* Earnings find the sensor that earned them and are not left unread. *)
THEOREM HistoryIsAlwaysKept == RewardSpec => []HistoryIsKept
<1>1. RewardInv => HistoryIsKept
  BY DEF RewardInv, HistoryIsKept
<1> QED BY <1>1, RewardInvariance, PTL

(***************************************************************************)
(* The phone and the door.                                                 *)
(***************************************************************************)
SensorRecords == [lastCounter : Nat, pending : Bodies \cup {Absent}]
OpenPages     == [open : BOOLEAN, record : SensorRecords, cell : CellIds \cup {Absent}, busy : BOOLEAN]
PhoneRequests == [page : Pages \cup {Absent}, body : Bodies, step : {"sent", "conflict"}]
ReadingRows   == [body : Bodies, status : Statuses, receivedAt : Nat]

IntakeTypeOK ==
  /\ vault \in SensorRecords
  /\ page \in [Pages -> OpenPages] /\ \A p \in Open : page[p].cell \in CellIds
  /\ requests \subseteq PhoneRequests
  /\ mirror \in CellIds
  /\ readings \subseteq ReadingRows
  /\ now \in Nat
  /\ sent \subseteq Bodies /\ accepted \subseteq Bodies

(* An answer comes back to a page that is still the one that asked. *)
RequestsHavePages == \A q \in requests : q.page # Absent => q.page \in Open

(* One page at a time holds what the disk holds. *)
PageIsTheVault ==
  ~crowded => /\ \A p, q \in Open : p = q
              /\ \A p \in Open : page[p].record = vault

(* A counter that was used is behind the one on disk. *)
CountersAreSpent ==
  ~crowded => /\ \A b \in sent : b.counter <= vault.lastCounter
              /\ \A b, c \in sent : b.counter = c.counter => b = c

(* An accepted row was received no earlier than it was measured. *)
RowsAreAccepted ==
  \A r \in readings : r.status = "accepted" => r.body \in accepted /\ r.body.measuredAt <= r.receivedAt

(* What was accepted has its row still, or is past accepting. *)
AcceptedIsKnown ==
  \A b \in accepted :
    (\E r \in readings : r.body = b /\ r.status = "accepted") \/ b.measuredAt + Retention < now

PhoneInv == IntakeTypeOK /\ RequestsHavePages /\ PageIsTheVault /\ CountersAreSpent

TableInv == AnswersAreTrue /\ RowsAreAccepted /\ AcceptedIsKnown

IntakeInv == PhoneInv /\ TableInv

LEMMA IntakeInitInv == IntakeInit => IntakeInv
<1> SUFFICES ASSUME IntakeInit PROVE IntakeInv
  OBVIOUS
<1>1. 0 \in CellIds
  BY IntakeAssumption DEF CellIds
<1>2. [lastCounter |-> 0, pending |-> Absent] \in SensorRecords
  BY DEF SensorRecords
<1>3. NoPage \in OpenPages /\ NoPage.open = FALSE
  BY <1>2 DEF NoPage, OpenPages
<1>4. Open = {}
  BY <1>3 DEF IntakeInit, Open
<1>5. IntakeTypeOK
  BY <1>1, <1>2, <1>3, <1>4 DEF IntakeInit, IntakeTypeOK
<1>6. /\ RequestsHavePages /\ PageIsTheVault /\ CountersAreSpent
      /\ AnswersAreTrue /\ RowsAreAccepted /\ AcceptedIsKnown
  BY <1>4 DEF IntakeInit, RequestsHavePages, PageIsTheVault, CountersAreSpent, AnswersAreTrue,
              RowsAreAccepted, AcceptedIsKnown
<1> QED BY <1>5, <1>6 DEF IntakeInv, PhoneInv, TableInv

(* A record that waits for no answer any more. *)
LEMMA SettledRecord ==
  ASSUME NEW record \in SensorRecords, NEW x, x = [record EXCEPT !.pending = Absent]
  PROVE  x \in SensorRecords /\ x.lastCounter = record.lastCounter
BY DEF SensorRecords

(* The pages after one of them has changed its record. *)
LEMMA OnePageChanges ==
  ASSUME IntakeTypeOK, NEW p \in Open, NEW x \in OpenPages, x.open = page[p].open, x.cell = page[p].cell,
         page' = [page EXCEPT ![p] = x]
  PROVE  /\ page' \in [Pages -> OpenPages] /\ Open' = Open
         /\ page'[p] = x /\ \A q \in Pages : q # p => page'[q] = page[q]
         /\ \A q \in Open : page'[q].cell \in CellIds
<1>1. p \in Pages /\ page[p].open
  BY DEF Open
<1>2. page \in [Pages -> OpenPages] /\ \A q \in Open : page[q].cell \in CellIds
  BY DEF IntakeTypeOK
<1>3. page' \in [Pages -> OpenPages] /\ page'[p] = x /\ \A q \in Pages : q # p => page'[q] = page[q]
  BY <1>1, <1>2
<1>4. \A q \in Pages : page'[q].open = page[q].open /\ page'[q].cell = page[q].cell
  BY <1>3
<1> QED BY <1>2, <1>3, <1>4 DEF Open

(* An answer settles the page and the disk together. *)
LEMMA SettlesPage ==
  ASSUME PhoneInv, NEW p \in Open, NEW answer, Settle(p, answer), UNCHANGED crowded
  PROVE  /\ vault' \in SensorRecords /\ page' \in [Pages -> OpenPages] /\ Open' = Open
         /\ \A q \in Open : page'[q].cell \in CellIds
         /\ PageIsTheVault'
         /\ ~crowded => vault'.lastCounter = vault.lastCounter
<1>1. IntakeTypeOK /\ PageIsTheVault /\ p \in Pages /\ page[p] \in OpenPages /\ vault \in SensorRecords
  BY DEF PhoneInv, IntakeTypeOK, Open
<1>2. page[p].record \in SensorRecords
  BY <1>1 DEF OpenPages
<1>3. PICK settled : settled = IF answer = "retry" THEN page[p].record
                               ELSE [page[p].record EXCEPT !.pending = Absent]
  OBVIOUS
<1>4. settled \in SensorRecords /\ settled.lastCounter = page[p].record.lastCounter
  BY <1>2, <1>3, SettledRecord
<1>5. PICK x : x = [page[p] EXCEPT !.record = settled, !.busy = FALSE]
  OBVIOUS
<1>6. x \in OpenPages /\ x.open = page[p].open /\ x.cell = page[p].cell /\ x.record = settled
  BY <1>1, <1>4, <1>5 DEF OpenPages
<1>7. /\ page' = [page EXCEPT ![p].record = settled, ![p].busy = FALSE]
      /\ vault' = IF answer = "retry" THEN vault ELSE settled
  BY <1>3 DEF Settle
<1>8. page' = [page EXCEPT ![p] = x]
  BY <1>1, <1>5, <1>7 DEF IntakeTypeOK, OpenPages
<1>9. /\ page' \in [Pages -> OpenPages] /\ Open' = Open
      /\ page'[p] = x /\ \A q \in Open : page'[q].cell \in CellIds
  BY <1>1, <1>6, <1>8, OnePageChanges
<1>10. vault' \in SensorRecords
  BY <1>1, <1>4, <1>7
<1>11. ASSUME ~crowded
       PROVE  /\ vault'.lastCounter = vault.lastCounter
              /\ \A r, q \in Open : r = q
              /\ page'[p].record = vault'
  BY <1>1, <1>3, <1>4, <1>6, <1>7, <1>9, <1>11 DEF PageIsTheVault
<1>12. PageIsTheVault'
  BY <1>9, <1>11 DEF PageIsTheVault
<1> QED BY <1>9, <1>10, <1>11, <1>12

(* The counters, when nothing is signed. *)
LEMMA NothingIsSigned ==
  ASSUME CountersAreSpent, UNCHANGED <<sent, crowded>>,
         ~crowded => vault'.lastCounter = vault.lastCounter
  PROVE  CountersAreSpent'
BY DEF CountersAreSpent

LEMMA AnswerKeeps ==
  ASSUME PhoneInv, NEW q \in requests, NEW answer, Answer(q, answer), UNCHANGED <<mirror, sent, crowded>>,
         readings' \subseteq ReadingRows, now' \in Nat, accepted' \subseteq Bodies
  PROVE  PhoneInv'
<1>1. IntakeTypeOK /\ RequestsHavePages /\ PageIsTheVault /\ CountersAreSpent
  BY DEF PhoneInv
<1>2. requests' = requests \ {q}
  BY DEF Answer
<1>3. /\ vault' \in SensorRecords /\ page' \in [Pages -> OpenPages] /\ Open' = Open
      /\ \A p \in Open : page'[p].cell \in CellIds
      /\ PageIsTheVault'
      /\ ~crowded => vault'.lastCounter = vault.lastCounter
  <2>1. CASE q.page = Absent
    <3>1. vault' = vault /\ page' = page
      BY <2>1 DEF Answer
    <3>2. Open' = Open
      BY <3>1 DEF Open
    <3> QED BY <1>1, <3>1, <3>2 DEF IntakeTypeOK, PageIsTheVault
  <2>2. CASE q.page # Absent
    <3>1. q.page \in Open /\ Settle(q.page, answer)
      BY <1>1, <2>2 DEF RequestsHavePages, Answer
    <3> QED BY <3>1, SettlesPage
  <2> QED BY <2>1, <2>2
<1>4. IntakeTypeOK'
  BY <1>1, <1>2, <1>3 DEF IntakeTypeOK
<1>5. RequestsHavePages'
  BY <1>1, <1>2, <1>3 DEF RequestsHavePages
<1>6. CountersAreSpent'
  BY <1>1, <1>3, NothingIsSigned
<1> QED BY <1>3, <1>4, <1>5, <1>6 DEF PhoneInv

(* A page that goes away: its requests are answered to nobody. *)
LEMMA Orphaned ==
  ASSUME requests \subseteq PhoneRequests, NEW p \in Pages,
         requests' = {[q EXCEPT !.page = IF @ = p THEN Absent ELSE @] : q \in requests}
  PROVE  /\ requests' \subseteq PhoneRequests
         /\ \A q \in requests' : q.page # Absent => q.page # p /\ \E x \in requests : x.page = q.page
<1> DEFINE Left(q) == [q EXCEPT !.page = IF @ = p THEN Absent ELSE @]
<1>1. ASSUME NEW q \in requests
      PROVE  /\ Left(q) \in PhoneRequests
             /\ Left(q).page = IF q.page = p THEN Absent ELSE q.page
  BY DEF PhoneRequests
<1>2. requests' = {Left(q) : q \in requests}
  OBVIOUS
<1> HIDE DEF Left
<1> QED BY <1>1, <1>2

LEMMA LoadKeeps ==
  ASSUME PhoneInv, NEW p \in Pages, LoadPage(p)
  PROVE  PhoneInv'
<1>1. IntakeTypeOK /\ RequestsHavePages /\ PageIsTheVault /\ CountersAreSpent
  BY DEF PhoneInv
<1>2. PICK x : x = [open |-> TRUE, record |-> vault, cell |-> mirror, busy |-> FALSE]
  OBVIOUS
<1>3. /\ p \notin Open /\ page' = [page EXCEPT ![p] = x] /\ crowded' = (crowded \/ Open # {})
      /\ UNCHANGED <<vault, requests, mirror, readings, days, now, sent, accepted, told>>
  BY <1>2 DEF LoadPage
<1>4. x \in OpenPages /\ x.open /\ x.record = vault /\ x.cell \in CellIds
  BY <1>1, <1>2 DEF OpenPages, IntakeTypeOK
<1>5. page' \in [Pages -> OpenPages] /\ page'[p] = x /\ \A q \in Pages : q # p => page'[q] = page[q]
  BY <1>1, <1>3, <1>4 DEF IntakeTypeOK
<1>6. Open' = Open \cup {p}
  BY <1>4, <1>5 DEF Open
<1>7. IntakeTypeOK'
  BY <1>1, <1>3, <1>4, <1>5, <1>6 DEF IntakeTypeOK, Open
<1>8. RequestsHavePages'
  BY <1>1, <1>3, <1>6 DEF RequestsHavePages
<1>9. PageIsTheVault'
  <2> SUFFICES ASSUME ~crowded' PROVE PageIsTheVault'
    BY DEF PageIsTheVault
  <2>1. Open' = {p}
    BY <1>3, <1>6
  <2> QED BY <1>3, <1>4, <1>5, <2>1 DEF PageIsTheVault
<1>10. CountersAreSpent'
  BY <1>1, <1>3 DEF CountersAreSpent
<1> QED BY <1>7, <1>8, <1>9, <1>10 DEF PhoneInv

LEMMA LookUpKeeps ==
  ASSUME PhoneInv, NEW p \in Pages, LookUp(p)
  PROVE  PhoneInv'
<1>1. IntakeTypeOK /\ RequestsHavePages /\ PageIsTheVault /\ CountersAreSpent
  BY DEF PhoneInv
<1>2. /\ p \in Open /\ page' = [page EXCEPT ![p].cell = mirror]
      /\ UNCHANGED <<vault, requests, mirror, readings, days, now, sent, accepted, told, crowded>>
  BY DEF LookUp, history
<1>3. page[p] \in OpenPages /\ mirror \in CellIds
  BY <1>1 DEF IntakeTypeOK
<1>4. PICK x : x = [page[p] EXCEPT !.cell = mirror]
  OBVIOUS
<1>5. /\ x \in OpenPages /\ x.open = page[p].open /\ x.cell \in CellIds
      /\ x.record = page[p].record
  BY <1>3, <1>4 DEF OpenPages
<1>6. page' = [page EXCEPT ![p] = x]
  BY <1>1, <1>2, <1>3, <1>4 DEF IntakeTypeOK
<1>7. /\ page' \in [Pages -> OpenPages] /\ page'[p] = x
      /\ \A q \in Pages : q # p => page'[q] = page[q]
  BY <1>1, <1>5, <1>6 DEF IntakeTypeOK
<1>8. Open' = Open
  BY <1>5, <1>7 DEF Open
<1>9. IntakeTypeOK' /\ RequestsHavePages'
  BY <1>1, <1>2, <1>5, <1>7, <1>8 DEF IntakeTypeOK, RequestsHavePages, Open
<1>10. PageIsTheVault'
  BY <1>1, <1>2, <1>5, <1>7, <1>8 DEF PageIsTheVault, Open
<1>11. CountersAreSpent'
  BY <1>1, <1>2 DEF CountersAreSpent
<1> QED BY <1>9, <1>10, <1>11 DEF PhoneInv

(* What a page signs carries a counter nobody has used. *)
LEMMA SendKeeps ==
  ASSUME PhoneInv, NEW p \in Pages, SendNext(p)
  PROVE  PhoneInv' /\ UNCHANGED <<mirror, readings, days, now, accepted, told>>
<1>1. IntakeTypeOK /\ RequestsHavePages /\ PageIsTheVault /\ CountersAreSpent
  BY DEF PhoneInv
<1>2. /\ page[p].open /\ page[p].record.lastCounter < MaxCounter
      /\ UNCHANGED <<mirror, readings, days, now, accepted, told, crowded>>
  BY DEF SendNext
<1>a. PICK value \in Values, at \in Times \cap (now - Skew .. now + Skew) :
        LET next == SignNext(page[p].record, page[p].cell, value, at) IN
        /\ vault' = next
        /\ page' = [page EXCEPT ![p].record = next, ![p].busy = TRUE]
        /\ Post(p, next.pending)
        /\ sent' = sent \cup {next.pending}
  BY DEF SendNext
<1>b. PICK next : next = SignNext(page[p].record, page[p].cell, value, at)
  OBVIOUS
<1>3. /\ vault' = next
      /\ page' = [page EXCEPT ![p].record = next, ![p].busy = TRUE]
      /\ Post(p, next.pending)
      /\ sent' = sent \cup {next.pending}
  BY <1>a, <1>b
<1>4. p \in Open /\ page[p] \in OpenPages /\ page[p].cell \in CellIds /\ page[p].record \in SensorRecords
  BY <1>1, <1>2 DEF Open, IntakeTypeOK, OpenPages
<1>5. page[p].record.lastCounter \in Nat /\ MaxCounter \in Nat
  BY <1>4, IntakeAssumption DEF SensorRecords
<1>6. PICK counter : counter = page[p].record.lastCounter + 1
  OBVIOUS
<1>7. counter \in Counters /\ counter \in Nat
  BY <1>2, <1>5, <1>6 DEF Counters
<1>8. PICK body : body = [counter |-> counter, measuredAt |-> at, cell |-> page[p].cell, value |-> value]
  OBVIOUS
<1>9. body \in Bodies /\ body.counter = counter
  BY <1>4, <1>7, <1>8 DEF Bodies
<1>10. next = [lastCounter |-> counter, pending |-> body]
  BY <1>b, <1>6, <1>8 DEF SignNext
<1>11. next \in SensorRecords /\ next.pending = body /\ next.lastCounter = counter
  BY <1>7, <1>9, <1>10 DEF SensorRecords
<1>12. PICK x : x = [page[p] EXCEPT !.record = next, !.busy = TRUE]
  OBVIOUS
<1>13. x \in OpenPages /\ x.open = page[p].open /\ x.cell = page[p].cell /\ x.record = next
  BY <1>4, <1>11, <1>12 DEF OpenPages
<1>14. page' = [page EXCEPT ![p] = x]
  BY <1>1, <1>3, <1>12 DEF IntakeTypeOK, OpenPages
<1>15. /\ page' \in [Pages -> OpenPages] /\ Open' = Open
       /\ page'[p] = x /\ \A q \in Open : page'[q].cell \in CellIds
  BY <1>1, <1>4, <1>13, <1>14, OnePageChanges
<1>16. requests' = requests \cup {[page |-> p, body |-> body, step |-> "sent"]}
  BY <1>3, <1>11 DEF Post
<1>17. IntakeTypeOK'
  <2>1. [page |-> p, body |-> body, step |-> "sent"] \in PhoneRequests
    BY <1>9 DEF PhoneRequests
  <2>2. requests' \subseteq PhoneRequests /\ vault' \in SensorRecords /\ sent' \subseteq Bodies
    BY <1>1, <1>3, <1>9, <1>11, <1>16, <2>1 DEF IntakeTypeOK
  <2> QED BY <1>1, <1>2, <1>15, <2>2 DEF IntakeTypeOK
<1>18. RequestsHavePages'
  BY <1>1, <1>4, <1>15, <1>16 DEF RequestsHavePages
<1>19. PageIsTheVault'
  BY <1>1, <1>2, <1>3, <1>4, <1>13, <1>15 DEF PageIsTheVault
<1>20. CountersAreSpent'
  <2> SUFFICES ASSUME ~crowded
               PROVE  /\ \A b \in sent' : b.counter <= vault'.lastCounter
                      /\ \A b, c \in sent' : b.counter = c.counter => b = c
    BY <1>2 DEF CountersAreSpent
  <2>1. page[p].record = vault /\ vault.lastCounter \in Nat
    BY <1>1, <1>4, <1>5 DEF PageIsTheVault
  <2>2. \A b \in sent : b.counter \in Nat /\ b.counter <= vault.lastCounter
    BY <1>1 DEF CountersAreSpent, IntakeTypeOK, Bodies, Counters
  <2>3. counter = vault.lastCounter + 1 /\ vault'.lastCounter = counter /\ sent' = sent \cup {body}
    BY <1>3, <1>6, <1>11, <2>1
  <2>4. \A b \in sent' : b.counter <= vault'.lastCounter
    BY <1>9, <2>1, <2>2, <2>3
  <2>5. \A b \in sent : b.counter # body.counter
    BY <1>9, <2>1, <2>2, <2>3
  <2>6. \A b, c \in sent : b.counter = c.counter => b = c
    BY <1>1 DEF CountersAreSpent
  <2> QED BY <2>3, <2>4, <2>5, <2>6
<1> QED BY <1>2, <1>17, <1>18, <1>19, <1>20 DEF PhoneInv

LEMMA ResendKeeps ==
  ASSUME PhoneInv, NEW p \in Pages, Resend(p)
  PROVE  PhoneInv'
<1>1. IntakeTypeOK /\ RequestsHavePages /\ PageIsTheVault /\ CountersAreSpent
  BY DEF PhoneInv
<1>2. /\ page[p].open /\ page[p].record.pending # Absent
      /\ page' = [page EXCEPT ![p].busy = TRUE] /\ Post(p, page[p].record.pending)
      /\ UNCHANGED <<vault, mirror, readings, days, now, sent, accepted, told, crowded>>
  BY DEF Resend, history
<1>3. p \in Open /\ page[p] \in OpenPages /\ page[p].record.pending \in Bodies
  BY <1>1, <1>2 DEF Open, IntakeTypeOK, OpenPages, SensorRecords
<1>4. PICK x : x = [page[p] EXCEPT !.busy = TRUE]
  OBVIOUS
<1>5. x \in OpenPages /\ x.open = page[p].open /\ x.cell = page[p].cell /\ x.record = page[p].record
  BY <1>3, <1>4 DEF OpenPages
<1>6. page' = [page EXCEPT ![p] = x]
  BY <1>1, <1>2, <1>4 DEF IntakeTypeOK, OpenPages
<1>7. /\ page' \in [Pages -> OpenPages] /\ Open' = Open
      /\ page'[p] = x /\ \A q \in Pages : q # p => page'[q] = page[q]
      /\ \A q \in Open : page'[q].cell \in CellIds
  BY <1>1, <1>3, <1>5, <1>6, OnePageChanges
<1>8. [page |-> p, body |-> page[p].record.pending, step |-> "sent"] \in PhoneRequests
  BY <1>3 DEF PhoneRequests
<1>9. requests' = requests \cup {[page |-> p, body |-> page[p].record.pending, step |-> "sent"]}
  BY <1>2 DEF Post
<1>10. requests' \subseteq PhoneRequests
  BY <1>1, <1>8, <1>9 DEF IntakeTypeOK
<1>11. IntakeTypeOK'
  BY <1>1, <1>2, <1>7, <1>10 DEF IntakeTypeOK
<1>12. RequestsHavePages'
  BY <1>1, <1>3, <1>7, <1>9 DEF RequestsHavePages
<1>13. PageIsTheVault'
  <2>1. \A q \in Open : page'[q].record = page[q].record
    BY <1>5, <1>7 DEF Open
  <2> QED BY <1>1, <1>2, <1>7, <2>1 DEF PageIsTheVault
<1>14. CountersAreSpent'
  BY <1>1, <1>2 DEF CountersAreSpent
<1> QED BY <1>11, <1>12, <1>13, <1>14 DEF PhoneInv

LEMMA NoAnswerKeeps ==
  ASSUME PhoneInv, NEW p \in Pages, NoAnswer(p)
  PROVE  PhoneInv'
<1>1. IntakeTypeOK /\ RequestsHavePages /\ PageIsTheVault /\ CountersAreSpent
  BY DEF PhoneInv
<1>2. /\ p \in Open /\ Settle(p, "retry")
      /\ requests' = {[q EXCEPT !.page = IF @ = p THEN Absent ELSE @] : q \in requests}
      /\ UNCHANGED <<mirror, readings, days, now, sent, accepted, told, crowded>>
  BY DEF NoAnswer, history
<1>3. /\ vault' \in SensorRecords /\ page' \in [Pages -> OpenPages] /\ Open' = Open
      /\ \A q \in Open : page'[q].cell \in CellIds
      /\ PageIsTheVault'
      /\ ~crowded => vault'.lastCounter = vault.lastCounter
  BY <1>2, SettlesPage
<1>4. /\ requests' \subseteq PhoneRequests
      /\ \A q \in requests' : q.page # Absent => q.page # p /\ \E x \in requests : x.page = q.page
  BY <1>1, <1>2, Orphaned DEF IntakeTypeOK
<1>5. IntakeTypeOK'
  BY <1>1, <1>2, <1>3, <1>4 DEF IntakeTypeOK
<1>6. RequestsHavePages'
  BY <1>1, <1>3, <1>4 DEF RequestsHavePages
<1>7. CountersAreSpent'
  BY <1>1, <1>2, <1>3, NothingIsSigned
<1> QED BY <1>3, <1>5, <1>6, <1>7 DEF PhoneInv

LEMMA ReloadKeeps ==
  ASSUME PhoneInv, NEW p \in Pages, Reload(p)
  PROVE  PhoneInv'
<1>1. IntakeTypeOK /\ RequestsHavePages /\ PageIsTheVault /\ CountersAreSpent
  BY DEF PhoneInv
<1>2. /\ page' = [page EXCEPT ![p] = NoPage]
      /\ requests' = {[q EXCEPT !.page = IF @ = p THEN Absent ELSE @] : q \in requests}
      /\ UNCHANGED <<vault, mirror, readings, days, now, sent, accepted, told, crowded>>
  BY DEF Reload, history
<1>3. NoPage \in OpenPages /\ ~NoPage.open
  BY DEF NoPage, OpenPages, SensorRecords
<1>4. /\ page' \in [Pages -> OpenPages] /\ page'[p] = NoPage
      /\ \A q \in Pages : q # p => page'[q] = page[q]
  BY <1>1, <1>2, <1>3 DEF IntakeTypeOK
<1>5. Open' = Open \ {p}
  BY <1>3, <1>4 DEF Open
<1>6. /\ requests' \subseteq PhoneRequests
      /\ \A q \in requests' : q.page # Absent => q.page # p /\ \E x \in requests : x.page = q.page
  BY <1>1, <1>2, Orphaned DEF IntakeTypeOK
<1>7. IntakeTypeOK'
  BY <1>1, <1>2, <1>4, <1>5, <1>6 DEF IntakeTypeOK, Open
<1>8. RequestsHavePages'
  BY <1>1, <1>5, <1>6 DEF RequestsHavePages
<1>9. PageIsTheVault'
  BY <1>1, <1>2, <1>4, <1>5 DEF PageIsTheVault, Open
<1>10. CountersAreSpent'
  BY <1>1, <1>2 DEF CountersAreSpent
<1> QED BY <1>7, <1>8, <1>9, <1>10 DEF PhoneInv

(* What the network, the worker and the clock do leaves the phone alone. *)
LEMMA WorldKeepsThePhone ==
  ASSUME PhoneInv, UNCHANGED <<vault, page, sent, crowded>>, requests' \subseteq PhoneRequests,
         \A q \in requests' : \E x \in requests : x.page = q.page,
         mirror' \in CellIds, readings' \subseteq ReadingRows, now' \in Nat, accepted' = accepted
  PROVE  PhoneInv'
<1>1. IntakeTypeOK /\ RequestsHavePages /\ PageIsTheVault /\ CountersAreSpent
  BY DEF PhoneInv
<1>2. Open' = Open
  BY DEF Open
<1>3. IntakeTypeOK' /\ RequestsHavePages' /\ PageIsTheVault' /\ CountersAreSpent'
  BY <1>1, <1>2 DEF IntakeTypeOK, RequestsHavePages, PageIsTheVault, CountersAreSpent
<1> QED BY <1>3 DEF PhoneInv

(* The table, when no row is written, nothing new is told and time stands  *)
(* still.                                                                  *)
LEMMA TableStays ==
  ASSUME TableInv, UNCHANGED <<readings, accepted, now, told>>
  PROVE  TableInv'
BY DEF TableInv, AnswersAreTrue, RowsAreAccepted, AcceptedIsKnown

(* An answer is told, or not. *)
LEMMA AnswerTells ==
  ASSUME NEW q, NEW answer, Answer(q, answer)
  PROVE  told' \subseteq told \cup {<<q.body, answer>>}
BY DEF Answer

LEMMA RefuseKeeps ==
  ASSUME IntakeInv, NEW q \in requests, RefuseCell(q)
  PROVE  IntakeInv'
<1>1. /\ Answer(q, "refused") /\ UNCHANGED <<mirror, readings, days, now, sent, accepted, crowded>>
  BY DEF RefuseCell
<1>2. PhoneInv'
  BY <1>1, AnswerKeeps DEF IntakeInv, PhoneInv, IntakeTypeOK
<1>3. told' \subseteq told \cup {<<q.body, "refused">>}
  BY <1>1, AnswerTells
<1>4. TableInv'
  BY <1>1, <1>3 DEF IntakeInv, TableInv, AnswersAreTrue, RowsAreAccepted, AcceptedIsKnown
<1> QED BY <1>2, <1>4 DEF IntakeInv

(* A reading is accepted in time or not at all. *)
LEMMA AcceptedInTime ==
  ASSUME NEW t \in Int, NEW s \in Int
  PROVE  /\ ClassifyArrival(t, s) \in Statuses
         /\ ClassifyArrival(t, s) = "accepted" => t <= s /\ s <= t + MaxAge
BY IntakeAssumption DEF ClassifyArrival, Statuses

LEMMA SaveKeeps ==
  ASSUME IntakeInv, NEW q \in requests, Save(q)
  PROVE  /\ IntakeInv'
         /\ \A r \in readings' \ readings : r.status = "accepted" => r.body \notin accepted
<1>1. PhoneInv /\ IntakeTypeOK /\ AnswersAreTrue /\ RowsAreAccepted /\ AcceptedIsKnown
  BY DEF IntakeInv, PhoneInv, TableInv
<1>2. PICK status : status = ClassifyArrival(q.body.measuredAt, now)
  OBVIOUS
<1>3. PICK row : row = [body |-> q.body, status |-> status, receivedAt |-> now]
  OBVIOUS
<1>4. /\ RowsOf(q.body.counter) = {}
      /\ readings' = readings \cup {row}
      /\ accepted' = IF status = "accepted" THEN accepted \cup {q.body} ELSE accepted
      /\ Answer(q, status)
      /\ UNCHANGED <<mirror, days, now, sent, crowded>>
  BY <1>2, <1>3 DEF Save
<1>5. now \in Nat /\ q.body \in Bodies /\ q.body.measuredAt \in Nat /\ accepted \subseteq Bodies
  BY <1>1 DEF IntakeTypeOK, PhoneRequests, Bodies, Times
<1>6. /\ status \in Statuses
      /\ status = "accepted" => q.body.measuredAt <= now /\ now <= q.body.measuredAt + MaxAge
  BY <1>2, <1>5, AcceptedInTime
<1>7. row \in ReadingRows /\ row.body = q.body /\ row.status = status /\ row.receivedAt = now
  BY <1>3, <1>5, <1>6 DEF ReadingRows
<1>8. PhoneInv'
  <2>1. readings' \subseteq ReadingRows /\ accepted' \subseteq Bodies /\ now' \in Nat
    BY <1>1, <1>4, <1>5, <1>7 DEF IntakeTypeOK
  <2> QED BY <1>1, <1>4, <2>1, AnswerKeeps
<1>9. told' \subseteq told \cup {<<q.body, status>>} /\ accepted \subseteq accepted'
  BY <1>4, AnswerTells
<1>10. AnswersAreTrue'
  <2> SUFFICES ASSUME NEW b \in Bodies, <<b, "accepted">> \in told'
               PROVE  b \in accepted'
    BY DEF AnswersAreTrue
  <2>1. CASE <<b, "accepted">> \in told
    BY <1>1, <1>9, <2>1 DEF AnswersAreTrue
  <2>2. CASE <<b, "accepted">> = <<q.body, status>>
    BY <1>4, <2>2
  <2> QED BY <1>9, <2>1, <2>2
<1>11. RowsAreAccepted'
  BY <1>1, <1>4, <1>6, <1>7, <1>9 DEF RowsAreAccepted
<1>12. AcceptedIsKnown'
  <2>1. \A b \in accepted' : b \in accepted \/ b = q.body
    BY <1>4
  <2> QED BY <1>1, <1>4, <1>7, <2>1 DEF AcceptedIsKnown
<1>13. ASSUME status = "accepted" PROVE q.body \notin accepted
  <2>1. \A r \in readings : r.body # q.body
    BY <1>4 DEF RowsOf
  <2>2. MaxAge \in Nat /\ Retention \in Nat /\ MaxAge < Retention
    BY IntakeAssumption
  <2>3. ~(q.body.measuredAt + Retention < now)
    BY <1>5, <1>6, <1>13, <2>2
  <2> QED BY <1>1, <2>1, <2>3 DEF AcceptedIsKnown
<1>14. \A r \in readings' \ readings : r.status = "accepted" => r.body \notin accepted
  BY <1>4, <1>7, <1>13
<1> QED BY <1>8, <1>10, <1>11, <1>12, <1>14 DEF IntakeInv, TableInv

LEMMA ConflictKeeps ==
  ASSUME IntakeInv, NEW q \in requests, Conflict(q)
  PROVE  IntakeInv'
<1>1. PhoneInv /\ TableInv /\ IntakeTypeOK
  BY DEF IntakeInv, PhoneInv
<1>2. PICK x : x = [q EXCEPT !.step = "conflict"]
  OBVIOUS
<1>3. /\ requests' = (requests \ {q}) \cup {x}
      /\ UNCHANGED <<vault, page, mirror, readings, days, now, sent, accepted, told, crowded>>
  BY <1>2 DEF Conflict, history
<1>4. x \in PhoneRequests /\ x.page = q.page
  BY <1>1, <1>2 DEF IntakeTypeOK, PhoneRequests
<1>5. PhoneInv'
  BY <1>1, <1>3, <1>4, WorldKeepsThePhone DEF IntakeTypeOK
<1> QED BY <1>1, <1>3, <1>5, TableStays DEF IntakeInv

(* The row found in conflict answers for the reading it is of. *)
LEMMA AnswerConflictKeeps ==
  ASSUME IntakeInv, NEW q \in requests, AnswerConflict(q)
  PROVE  IntakeInv'
<1>1. PhoneInv /\ IntakeTypeOK /\ AnswersAreTrue /\ RowsAreAccepted /\ AcceptedIsKnown
  BY DEF IntakeInv, PhoneInv, TableInv
<1>2. UNCHANGED <<mirror, readings, days, now, sent, accepted, crowded>>
  BY DEF AnswerConflict
<1>3. PICK answer : Answer(q, answer) /\ (answer = "accepted" => q.body \in accepted)
  <2>1. CASE \E r \in RowsOf(q.body.counter) :
               Answer(q, IF SameReading(r, q.body) THEN r.status ELSE "refused")
    <3>1. PICK r \in readings : Answer(q, IF SameReading(r, q.body) THEN r.status ELSE "refused")
      BY <2>1 DEF RowsOf
    <3>2. CASE SameReading(r, q.body)
      BY <1>1, <3>1, <3>2 DEF SameReading, RowsAreAccepted
    <3>3. CASE ~SameReading(r, q.body)
      BY <3>1, <3>3
    <3> QED BY <3>2, <3>3
  <2>2. CASE Answer(q, "retry")
    BY <2>2
  <2> QED BY <2>1, <2>2 DEF AnswerConflict
<1>4. PhoneInv'
  BY <1>1, <1>2, <1>3, AnswerKeeps DEF IntakeTypeOK
<1>5. told' \subseteq told \cup {<<q.body, answer>>}
  BY <1>3, AnswerTells
<1>6. AnswersAreTrue'
  <2> SUFFICES ASSUME NEW b \in Bodies, <<b, "accepted">> \in told'
               PROVE  b \in accepted
    BY <1>2 DEF AnswersAreTrue
  <2>1. CASE <<b, "accepted">> \in told
    BY <1>1, <2>1 DEF AnswersAreTrue
  <2>2. CASE <<b, "accepted">> = <<q.body, answer>>
    BY <1>3, <2>2
  <2> QED BY <1>5, <2>1, <2>2
<1>7. RowsAreAccepted' /\ AcceptedIsKnown'
  BY <1>1, <1>2 DEF RowsAreAccepted, AcceptedIsKnown
<1> QED BY <1>4, <1>6, <1>7 DEF IntakeInv, TableInv

LEMMA QuotientBelow ==
  ASSUME NEW a \in Nat, NEW n \in Nat \ {0}, NEW k \in Nat, a < n * k
  PROVE  a \div n < k
<1> DEFINE p == a \div n
<1>1. p \in Nat /\ n * p <= a
  BY Quotient
<1> HIDE DEF p
<1>2. ASSUME k <= p PROVE FALSE
  <2>1. n * k <= n * p
    BY <1>1, <1>2
  <2> QED BY <1>1, <2>1
<1>3. p < k
  BY <1>1, <1>2
<1> QED BY <1>3 DEF p

(* The sweep takes rows too old to be accepted again, and of days too old  *)
(* to be closed.                                                           *)
LEMMA SweepKeeps ==
  ASSUME IntakeInv, Sweep
  PROVE  /\ IntakeInv'
         /\ \A r \in readings \ readings' : r.status = "accepted" => DayOf(r.body.measuredAt) < OldestBacklogDay
<1>1. PhoneInv /\ IntakeTypeOK /\ AnswersAreTrue /\ RowsAreAccepted /\ AcceptedIsKnown
  BY DEF IntakeInv, PhoneInv, TableInv
<1>2. /\ readings' = {r \in readings : r.receivedAt >= Cutoff}
      /\ UNCHANGED <<vault, page, requests, mirror, days, now, sent, accepted, told, crowded>>
  BY DEF Sweep, history
<1>3. now \in Nat /\ DayLen \in Nat \ {0} /\ Backlog \in Nat /\ Retention \in Nat
  BY <1>1, IntakeAssumption DEF IntakeTypeOK
<1>4. now \div DayLen \in Nat
  BY <1>3, Quotient
<1>5. OldestBacklogDay \in Nat
  BY <1>3, <1>4 DEF OldestBacklogDay, Today, DayOf
<1>6. PICK horizon \in Nat : horizon = DayLen * OldestBacklogDay
  BY <1>3, <1>5
<1>7. Cutoff \in Int /\ Cutoff <= now - Retention /\ Cutoff <= horizon
  BY <1>3, <1>6 DEF Cutoff, BacklogHorizon
<1>8. ASSUME NEW r \in readings, r \notin readings', r.status = "accepted"
      PROVE  /\ r.body.measuredAt + Retention < now
             /\ DayOf(r.body.measuredAt) < OldestBacklogDay
  <2>1. r.receivedAt \in Nat /\ r.body.measuredAt \in Nat
    BY <1>1 DEF IntakeTypeOK, ReadingRows, Bodies, Times
  <2>2. ~(r.receivedAt >= Cutoff)
    BY <1>2, <1>8
  <2>3. r.body.measuredAt <= r.receivedAt
    BY <1>1, <1>8 DEF RowsAreAccepted
  <2>4. r.body.measuredAt + Retention < now /\ r.body.measuredAt < horizon
    BY <1>3, <1>6, <1>7, <2>1, <2>2, <2>3
  <2>5. r.body.measuredAt \div DayLen < OldestBacklogDay
    BY <1>3, <1>5, <1>6, <2>1, <2>4, QuotientBelow
  <2> QED BY <2>4, <2>5 DEF DayOf
<1>9. PhoneInv'
  <2>1. readings' \subseteq ReadingRows /\ requests' \subseteq PhoneRequests /\ now' \in Nat /\ mirror' \in CellIds
    BY <1>1, <1>2 DEF IntakeTypeOK
  <2> QED BY <1>1, <1>2, <2>1, WorldKeepsThePhone
<1>10. AnswersAreTrue' /\ RowsAreAccepted'
  BY <1>1, <1>2 DEF AnswersAreTrue, RowsAreAccepted
<1>11. AcceptedIsKnown'
  <2> SUFFICES ASSUME NEW b \in accepted
               PROVE  \/ \E r \in readings' : r.body = b /\ r.status = "accepted"
                      \/ b.measuredAt + Retention < now
    BY <1>2 DEF AcceptedIsKnown
  <2>1. CASE \E r \in readings : r.body = b /\ r.status = "accepted"
    BY <1>8, <2>1
  <2>2. CASE b.measuredAt + Retention < now
    BY <2>2
  <2> QED BY <1>1, <2>1, <2>2 DEF AcceptedIsKnown
<1> QED BY <1>8, <1>9, <1>10, <1>11 DEF IntakeInv, TableInv

(* The rows after a step, but for the one that is saved and those that are *)
(* swept.                                                                  *)
LEMMA IntakeStep ==
  ASSUME IntakeInv, [IntakeNext]_intakeVars
  PROVE  /\ IntakeInv'
         /\ \A r \in readings' \ readings : r.status = "accepted" => r.body \notin accepted
         /\ \A r \in readings \ readings' : r.status = "accepted" => DayOf(r.body.measuredAt) < OldestBacklogDay
<1> DEFINE Goal == /\ IntakeInv'
                   /\ \A r \in readings' \ readings : r.status = "accepted" => r.body \notin accepted
                   /\ \A r \in readings \ readings' :
                        r.status = "accepted" => DayOf(r.body.measuredAt) < OldestBacklogDay
<1>1. PhoneInv /\ TableInv /\ IntakeTypeOK
  BY DEF IntakeInv, PhoneInv
<1>a. ASSUME PhoneInv', UNCHANGED <<readings, accepted, now, told>> PROVE Goal
  BY <1>1, <1>a, TableStays DEF IntakeInv
<1>b. ASSUME IntakeInv', UNCHANGED readings PROVE Goal
  BY <1>b
<1>c. ASSUME UNCHANGED <<vault, page, sent, crowded, readings, accepted, told>>, requests' \subseteq requests,
             mirror' \in CellIds, now' \in Nat
      PROVE  PhoneInv'
  BY <1>1, <1>c, WorldKeepsThePhone DEF IntakeTypeOK
<1>2. ASSUME NEW p \in Pages, LoadPage(p) PROVE Goal
  <2>1. UNCHANGED <<readings, accepted, now, told>>
    BY <1>2 DEF LoadPage
  <2> HIDE DEF Goal
  <2> QED BY <1>1, <1>2, <1>a, <2>1, LoadKeeps
<1>3. ASSUME NEW p \in Pages, LookUp(p) PROVE Goal
  <2>1. UNCHANGED <<readings, accepted, now, told>>
    BY <1>3 DEF LookUp, history
  <2> HIDE DEF Goal
  <2> QED BY <1>1, <1>3, <1>a, <2>1, LookUpKeeps
<1>4. ASSUME NEW p \in Pages, SendNext(p) PROVE Goal
  <2>1. UNCHANGED <<readings, accepted, now, told>>
    BY <1>1, <1>4, SendKeeps
  <2> HIDE DEF Goal
  <2> QED BY <1>1, <1>4, <1>a, <2>1, SendKeeps
<1>5. ASSUME NEW p \in Pages, Resend(p) PROVE Goal
  <2>1. UNCHANGED <<readings, accepted, now, told>>
    BY <1>5 DEF Resend, history
  <2> HIDE DEF Goal
  <2> QED BY <1>1, <1>5, <1>a, <2>1, ResendKeeps
<1>6. ASSUME NEW p \in Pages, NoAnswer(p) PROVE Goal
  <2>1. UNCHANGED <<readings, accepted, now, told>>
    BY <1>6 DEF NoAnswer, history
  <2> HIDE DEF Goal
  <2> QED BY <1>1, <1>6, <1>a, <2>1, NoAnswerKeeps
<1>7. ASSUME NEW p \in Pages, Reload(p) PROVE Goal
  <2>1. UNCHANGED <<readings, accepted, now, told>>
    BY <1>7 DEF Reload, history
  <2> HIDE DEF Goal
  <2> QED BY <1>1, <1>7, <1>a, <2>1, ReloadKeeps
<1>8. ASSUME NEW q \in requests, Lose(q) PROVE Goal
  <2>1. /\ UNCHANGED <<vault, page, mirror, readings, days, now, sent, accepted, told, crowded>>
        /\ requests' \subseteq requests
    BY <1>8 DEF Lose, history
  <2>2. PhoneInv'
    BY <1>1, <1>c, <2>1 DEF IntakeTypeOK
  <2> HIDE DEF Goal
  <2> QED BY <1>a, <2>1, <2>2
<1>9. ASSUME NEW q \in requests, RefuseCell(q) PROVE Goal
  <2>1. IntakeInv' /\ UNCHANGED readings
    BY <1>9, RefuseKeeps DEF RefuseCell
  <2> HIDE DEF Goal
  <2> QED BY <1>b, <2>1
<1>10. ASSUME NEW q \in requests, Save(q) PROVE Goal
  <2>1. readings \subseteq readings'
    BY <1>10 DEF Save
  <2> QED BY <1>10, <2>1, SaveKeeps
<1>11. ASSUME NEW q \in requests, Conflict(q) PROVE Goal
  <2>1. IntakeInv' /\ UNCHANGED readings
    BY <1>11, ConflictKeeps DEF Conflict
  <2> HIDE DEF Goal
  <2> QED BY <1>b, <2>1
<1>12. ASSUME NEW q \in requests, AnswerConflict(q) PROVE Goal
  <2>1. IntakeInv' /\ UNCHANGED readings
    BY <1>12, AnswerConflictKeeps DEF AnswerConflict
  <2> HIDE DEF Goal
  <2> QED BY <1>b, <2>1
<1>13. ASSUME NEW d \in Days, CloseIntakeDay(d) PROVE Goal
  <2>1. UNCHANGED <<vault, page, requests, mirror, readings, now, sent, accepted, told, crowded>>
    BY <1>13 DEF CloseIntakeDay, history
  <2>2. PhoneInv'
    BY <1>1, <1>c, <2>1 DEF IntakeTypeOK
  <2> HIDE DEF Goal
  <2> QED BY <1>a, <2>1, <2>2
<1>14. ASSUME Sweep PROVE Goal
  <2>1. readings' \subseteq readings
    BY <1>14 DEF Sweep
  <2> QED BY <1>14, <2>1, SweepKeeps
<1>15. ASSUME Mirrored PROVE Goal
  <2>1. /\ UNCHANGED <<vault, page, requests, readings, days, now, sent, accepted, told, crowded>>
        /\ mirror < MaxMoves /\ mirror' = mirror + 1
    BY <1>15 DEF Mirrored, history
  <2>2. mirror' \in CellIds
    BY <1>1, <2>1, IntakeAssumption DEF IntakeTypeOK, CellIds
  <2>3. PhoneInv'
    BY <1>1, <1>c, <2>1, <2>2 DEF IntakeTypeOK
  <2> HIDE DEF Goal
  <2> QED BY <1>a, <2>1, <2>3
<1>16. ASSUME IntakeTick PROVE Goal
  <2>1. /\ UNCHANGED <<vault, page, requests, mirror, readings, days, sent, accepted, told, crowded>>
        /\ now' = now + 1
    BY <1>16 DEF IntakeTick, history
  <2>2. now \in Nat /\ now' \in Nat
    BY <1>1, <2>1 DEF IntakeTypeOK
  <2>3. PhoneInv'
    BY <1>1, <1>c, <2>1, <2>2 DEF IntakeTypeOK
  <2>4. AnswersAreTrue' /\ RowsAreAccepted'
    BY <1>1, <2>1 DEF TableInv, AnswersAreTrue, RowsAreAccepted
  <2>5. AcceptedIsKnown'
    <3>1. Retention \in Nat /\ \A b \in accepted : b.measuredAt \in Nat
      BY <1>1, IntakeAssumption DEF IntakeTypeOK, Bodies, Times
    <3> QED BY <1>1, <2>1, <2>2, <3>1 DEF TableInv, AcceptedIsKnown
  <2>6. IntakeInv'
    BY <2>3, <2>4, <2>5 DEF IntakeInv, TableInv
  <2> HIDE DEF Goal
  <2> QED BY <1>b, <2>1, <2>6
<1>17. ASSUME UNCHANGED intakeVars PROVE Goal
  <2>1. UNCHANGED <<vault, page, requests, mirror, readings, days, now, sent, accepted, told, crowded>>
    BY <1>17 DEF intakeVars, history
  <2>2. PhoneInv'
    BY <1>1, <1>c, <2>1 DEF IntakeTypeOK
  <2> HIDE DEF Goal
  <2> QED BY <1>a, <2>1, <2>2
<1> HIDE DEF Goal
<1>18. Goal
  BY <1>2, <1>3, <1>4, <1>5, <1>6, <1>7, <1>8, <1>9, <1>10, <1>11, <1>12, <1>13, <1>14, <1>15, <1>16, <1>17
     DEF IntakeNext
<1> QED BY <1>18 DEF Goal

(* The invariant of the phone and the table holds in every reachable state. *)
THEOREM IntakeInvariance == IntakeSpec => []IntakeInv
<1>1. IntakeInv /\ [IntakeNext]_intakeVars => IntakeInv'
  BY IntakeStep
<1> QED BY <1>1, IntakeInitInv, PTL DEF IntakeSpec

(* What an operator is told of a reading is true, and is about the one     *)
(* reading its counter was given to.                                       *)
THEOREM AnswersCanAlwaysBeTrusted == IntakeSpec => []AnswersCanBeTrusted
<1>1. IntakeInv => AnswersCanBeTrusted
  BY DEF IntakeInv, PhoneInv, TableInv, CountersAreSpent, AnswersCanBeTrusted, OneReadingPerCounter
<1> QED BY <1>1, IntakeInvariance, PTL

(* A reading that was swept is not accepted when it is sent again.         *)
THEOREM AcceptedOnlyOnce == IntakeSpec => NeverAcceptedAgain
<1>1. IntakeInv /\ [IntakeNext]_intakeVars =>
        [\A r \in readings' \ readings : r.status = "accepted" => r.body \notin accepted]_intakeVars
  BY IntakeStep
<1> QED BY <1>1, IntakeInvariance, PTL DEF IntakeSpec, NeverAcceptedAgain

(* No reading of a day that can still be closed is swept. *)
THEOREM OpenDaysAreSpared == IntakeSpec => SweepSparesOpenDays
<1>1. IntakeInv /\ [IntakeNext]_intakeVars =>
        [\A r \in readings \ readings' :
           r.status = "accepted" =>
             LET d == DayOf(r.body.measuredAt) IN days[d].final \/ d < OldestBacklogDay]_intakeVars
  BY IntakeStep
<1> QED BY <1>1, IntakeInvariance, PTL DEF IntakeSpec, SweepSparesOpenDays

(***************************************************************************)
(* The public reference.                                                   *)
(***************************************************************************)
Verdicts == {"agrees", "disputed", "unchecked"}

RefDayRows == [state : {"NoCoverage", "Dry", "Wet"}, rain : UNION {RainfallsOf[c] : c \in RefCells},
               signed : BOOLEAN, reference : Verdicts \cup {"pending"},
               total : {None} \cup {{t} : t \in Totals}]

Checkings == {Idle} \cup [step : {"asked"}, at : Nat]
             \cup [step : {"asking"}, at : Nat, ready : [RefCells -> SUBSET Nat], queue : Seq(RefCells)]

RefTypeOK ==
  /\ refNow \in Nat /\ applies \in BOOLEAN
  /\ DOMAIN dayRows = RefCells /\ DOMAIN hoursKept = RefCells
  /\ \A c \in RefCells : RefRows(c) \subseteq Nat /\ \A d \in RefRows(c) : RefRow(c, d) \in RefDayRows
  /\ lastAsked \in RefCells \cup {-1} /\ waited \in [RefCells -> Nat]
  /\ checking \in Checkings

(* A day that has a total was judged by it, on the label the chain holds.  *)
JudgedOnce ==
  \A c \in RefCells : \A d \in RefRows(c) : LET row == RefRow(c, d) IN
    /\ row.total # None => row.signed /\ d \in DOMAIN hoursKept[c]
    /\ row.reference \in {"agrees", "disputed"} => row.total # None
    /\ \A total \in row.total : row.reference = JudgeDay(row, total)

(* While the worker asks, the days it asks about are on chain.             *)
AskingSigned ==
  checking.step = "asking" =>
    \A i \in DOMAIN checking.queue : \A d \in checking.ready[checking.queue[i]] :
      d \in RefRows(checking.queue[i]) /\ RefRow(checking.queue[i], d).signed

(* Every row is of a day that was over, when the attempt began too.        *)
RowsAreOver ==
  /\ \A c \in RefCells : \A d \in RefRows(c) : From(d + 1) <= refNow
  /\ checking # Idle => \A c \in RefCells : \A d \in RefRows(c) : From(d + 1) <= checking.at

(* Going round the cells from after the last one asked, x comes before y.  *)
Before(x, y, last) ==
  \/ x > last /\ y > last /\ x < y
  \/ x > last /\ y <= last
  \/ x <= last /\ y <= last /\ x < y

(* The cells that were passed since the last time it was c's turn.         *)
PassedSince(c, last) ==
  {x \in RefCells : \/ c < last /\ c < x /\ x <= last
                    \/ last < c /\ (c < x \/ x <= last)}

(* Whoever waits has been passed by others once at most, and the rest of   *)
(* the queue goes on round.                                                *)
TurnsAreKept ==
  /\ \A c \in RefCells : waited[c] <= Cardinality(PassedSince(c, lastAsked))
  /\ checking.step = "asking" =>
       /\ checking.queue # <<>>
       /\ \A i, j \in DOMAIN checking.queue :
            i < j => Before(checking.queue[i], checking.queue[j], lastAsked)
       /\ \A c \in RefCells : c \notin Range(checking.queue) => waited[c] = 0

ReferenceInv == RefTypeOK /\ JudgedOnce /\ AskingSigned /\ RowsAreOver /\ TurnsAreKept

-----------------------------------------------------------------------------
(* A finite set of numbers has its numbers in order: a number's place is   *)
(* how many are not above it.                                              *)
LEMMA Ranks ==
  ASSUME NEW S \in SUBSET Nat, IsFiniteSet(S)
  PROVE  \E q \in [1 .. Cardinality(S) -> S] :
           \A i, j \in 1 .. Cardinality(S) : i < j => q[i] < q[j]
<1> DEFINE below == [x \in S |-> {y \in S : y < x}]
<1>1. below \in [S -> SUBSET S] /\ \A x, y \in S : x \in below[y] <=> x < y
  OBVIOUS
<1> HIDE DEF below
<1>2. \A x \in S : x \notin below[x]
  <2> SUFFICES ASSUME NEW x \in S PROVE ~(x < x)
    BY <1>1
  <2>1. x \in Nat
    OBVIOUS
  <2> QED BY <2>1
<1>3. \A x, y \in S : x = y \/ x \in below[y] \/ y \in below[x]
  <2> SUFFICES ASSUME NEW x \in S, NEW y \in S PROVE x = y \/ x < y \/ y < x
    BY <1>1
  <2>1. x \in Nat /\ y \in Nat
    OBVIOUS
  <2> QED BY <2>1
<1>4. \A x, y \in S : x \in below[y] => below[x] \subseteq below[y]
  <2> SUFFICES ASSUME NEW x \in S, NEW y \in S, x < y, NEW z \in S, z < x PROVE z < y
    BY <1>1
  <2>1. x \in Nat /\ y \in Nat /\ z \in Nat
    OBVIOUS
  <2> QED BY <2>1
<1>5. ComparesAny(below, S)
  BY <1>1, <1>2, <1>3, <1>4 DEF ComparesAny
<1>6. PICK q : Enumerates(q, below, S)
  BY <1>5, RanksOfAnOrder
<1>7. q \in [1 .. Cardinality(S) -> S]
  BY <1>6 DEF Enumerates
<1>8. ASSUME NEW i \in 1 .. Cardinality(S), NEW j \in 1 .. Cardinality(S), i < j PROVE q[i] < q[j]
  <2>1. q[i] \in below[q[j]]
    BY <1>6, <1>8 DEF Enumerates
  <2> QED BY <1>1, <1>7, <2>1
<1> QED BY <1>7, <1>8

LEMMA Ordered ==
  ASSUME NEW S \in SUBSET Nat, IsFiniteSet(S)
  PROVE  /\ InOrder(S) \in Seq(S) /\ Range(InOrder(S)) = S
         /\ \A i, j \in DOMAIN InOrder(S) : i < j => InOrder(S)[i] < InOrder(S)[j]
<1> DEFINE q == InOrder(S)
           n == Cardinality(S)
<1>1. q \in [1 .. n -> S] /\ \A i, j \in 1 .. n : i < j => q[i] < q[j]
  <2>1. \E r \in [1 .. n -> S] : \A i, j \in DOMAIN r : i < j => r[i] < r[j]
    BY Ranks
  <2> QED BY <2>1 DEF InOrder
<1>2. n \in Nat /\ IsFiniteSet(1 .. n) /\ Cardinality(1 .. n) = n
  <2>1. n \in Nat
    BY FS_CardinalityType
  <2> QED BY <2>1, FS_Interval
<1> HIDE DEF q
<1>3. q \in Injection(1 .. n, S)
  <2>1. \A i, j \in 1 .. n : q[i] = q[j] => i = j
    <3> SUFFICES ASSUME NEW i \in 1 .. n, NEW j \in 1 .. n, q[i] = q[j], i # j PROVE FALSE
      OBVIOUS
    <3>1. i < j \/ j < i
      BY <1>2
    <3>2. q[i] \in Nat /\ q[j] \in Nat
      BY <1>1
    <3> QED BY <1>1, <3>1, <3>2
  <2> QED BY <1>1, <2>1 DEF Injection, IsInjective
<1>4. q \in Surjection(1 .. n, S)
  BY <1>2, <1>3, FS_Injection
<1>5. Range(q) = S
  BY <1>1, <1>4 DEF Surjection, Range
<1>6. q \in Seq(S)
  BY <1>1, <1>2
<1> QED BY <1>1, <1>5, <1>6 DEF q

LEMMA SequenceOfMore ==
  ASSUME NEW S, NEW T, S \subseteq T, NEW q \in Seq(S)
  PROVE  q \in Seq(T)
<1>1. q \in [1 .. Len(q) -> S] /\ Len(q) \in Nat
  OBVIOUS
<1>2. q \in [1 .. Len(q) -> T]
  BY <1>1
<1> QED BY <1>1, <1>2

(* The queue of an attempt: every cell that waits, going round.            *)
LEMMA QueueGoesRound ==
  ASSUME NEW cells \in SUBSET RefCells, NEW last \in RefCells \cup {-1},
         NEW queue, queue = FromAfter(cells, last)
  PROVE  /\ queue \in Seq(RefCells) /\ Range(queue) = cells
         /\ \A i, j \in DOMAIN queue : i < j => Before(queue[i], queue[j], last)
<1> DEFINE above == {c \in cells : c > last}
           rest  == {c \in cells : c <= last}
           a     == InOrder(above)
           b     == InOrder(rest)
<1>1. cells \subseteq Nat /\ IsFiniteSet(cells) /\ cells \subseteq RefCells /\ last \in Int
  BY ReferenceAssumption, FS_Subset
<1>2. /\ above \in SUBSET Nat /\ IsFiniteSet(above) /\ rest \in SUBSET Nat /\ IsFiniteSet(rest)
      /\ above \cup rest = cells /\ above \subseteq RefCells /\ rest \subseteq RefCells
  <2>1. above \subseteq cells /\ rest \subseteq cells
    OBVIOUS
  <2>2. \A c \in cells : c > last \/ c <= last
    BY <1>1
  <2>3. above \cup rest = cells
    BY <2>2
  <2>4. IsFiniteSet(above) /\ IsFiniteSet(rest)
    BY <1>1, <2>1, FS_Subset
  <2> QED BY <1>1, <2>1, <2>3, <2>4
<1>3. /\ a \in Seq(above) /\ Range(a) = above
      /\ \A i, j \in DOMAIN a : i < j => a[i] < a[j]
  BY <1>2, Ordered
<1>4. /\ b \in Seq(rest) /\ Range(b) = rest
      /\ \A i, j \in DOMAIN b : i < j => b[i] < b[j]
  BY <1>2, Ordered
<1>5. queue = a \o b
  BY DEF FromAfter
<1>6. \A x \in above : x \in cells /\ x > last
  OBVIOUS
<1>7. \A x \in rest : x \in cells /\ x <= last
  OBVIOUS
<1> HIDE DEF a, b, above, rest
<1>8. a \in Seq(RefCells) /\ b \in Seq(RefCells)
  BY <1>2, <1>3, <1>4, SequenceOfMore
<1>9. /\ queue \in Seq(RefCells) /\ Len(queue) = Len(a) + Len(b)
      /\ \A i \in 1 .. Len(a) : queue[i] = a[i]
      /\ \A i \in 1 .. Len(b) : queue[Len(a) + i] = b[i]
  BY <1>5, <1>8
<1>10. /\ Len(a) \in Nat /\ Len(b) \in Nat /\ DOMAIN a = 1 .. Len(a) /\ DOMAIN b = 1 .. Len(b)
       /\ DOMAIN queue = 1 .. Len(queue)
  BY <1>8, <1>9
<1>11. ASSUME NEW i \in DOMAIN queue
       PROVE  \/ i \in DOMAIN a /\ queue[i] = a[i]
              \/ i > Len(a) /\ i - Len(a) \in DOMAIN b /\ queue[i] = b[i - Len(a)]
  <2>1. CASE i <= Len(a)
    BY <1>9, <1>10, <2>1
  <2>2. CASE i > Len(a)
    <3>1. i - Len(a) \in 1 .. Len(b)
      BY <1>9, <1>10, <2>2
    <3>2. Len(a) + (i - Len(a)) = i
      BY <1>10
    <3> QED BY <1>9, <1>10, <2>2, <3>1, <3>2
  <2> QED BY <1>10, <2>1, <2>2
<1>12. Range(queue) = cells
  <2>1. Range(queue) \subseteq cells
    BY <1>2, <1>3, <1>4, <1>11 DEF Range
  <2>2. ASSUME NEW c \in above PROVE c \in Range(queue)
    <3>1. PICK i \in DOMAIN a : a[i] = c
      BY <1>3, <2>2 DEF Range
    <3>2. i \in DOMAIN queue /\ queue[i] = c
      BY <1>9, <1>10, <3>1
    <3> QED BY <3>2 DEF Range
  <2>3. ASSUME NEW c \in rest PROVE c \in Range(queue)
    <3>1. PICK i \in DOMAIN b : b[i] = c
      BY <1>4, <2>3 DEF Range
    <3>2. Len(a) + i \in DOMAIN queue /\ queue[Len(a) + i] = c
      BY <1>9, <1>10, <3>1
    <3> QED BY <3>2 DEF Range
  <2> QED BY <1>2, <2>1, <2>2, <2>3
<1>13. ASSUME NEW i \in DOMAIN queue, NEW j \in DOMAIN queue, i < j
       PROVE  Before(queue[i], queue[j], last)
  <2>1. i \in Nat /\ j \in Nat
    BY <1>10
  <2>2. \A k \in DOMAIN a : a[k] \in above
    BY <1>3, <1>10
  <2>3. \A k \in DOMAIN b : b[k] \in rest
    BY <1>4, <1>10
  <2>4. CASE j \in DOMAIN a /\ queue[j] = a[j]
    <3>1. i \in DOMAIN a /\ queue[i] = a[i]
      BY <1>10, <1>11, <1>13, <2>1, <2>4
    <3> QED BY <1>3, <1>6, <1>13, <2>2, <2>4, <3>1 DEF Before
  <2>5. CASE j > Len(a) /\ j - Len(a) \in DOMAIN b /\ queue[j] = b[j - Len(a)]
    <3>1. CASE i \in DOMAIN a /\ queue[i] = a[i]
      BY <1>6, <1>7, <2>2, <2>3, <2>5, <3>1 DEF Before
    <3>2. CASE i > Len(a) /\ i - Len(a) \in DOMAIN b /\ queue[i] = b[i - Len(a)]
      <4>1. i - Len(a) < j - Len(a)
        BY <1>10, <1>13, <2>1
      <4>2. b[i - Len(a)] < b[j - Len(a)]
        BY <1>4, <2>5, <3>2, <4>1
      <4> QED BY <1>7, <2>3, <2>5, <3>2, <4>2 DEF Before
    <3> QED BY <1>11, <3>1, <3>2
  <2> QED BY <1>11, <2>4, <2>5
<1> QED BY <1>9, <1>12, <1>13

(* Once the first of the queue is asked, the rest goes round from it.      *)
LEMMA TheRestGoesRound ==
  ASSUME NEW h \in Nat, NEW x \in Nat, NEW y \in Nat, NEW last \in Nat \cup {-1},
         Before(h, x, last), Before(h, y, last), Before(x, y, last)
  PROVE  Before(x, y, h)
BY DEF Before

(* Passing h is once more, for whoever waits behind it.                    *)
LEMMA PassedOnce ==
  ASSUME NEW h \in RefCells, NEW c \in RefCells, NEW last \in RefCells \cup {-1}, Before(h, c, last)
  PROVE  Cardinality(PassedSince(c, h)) >= Cardinality(PassedSince(c, last)) + 1
<1>1. h \in Nat /\ c \in Nat /\ last \in Nat \cup {-1} /\ \A x \in RefCells : x \in Nat
  BY ReferenceAssumption
<1>2. h \notin PassedSince(c, last) /\ PassedSince(c, last) \cup {h} \subseteq PassedSince(c, h)
  <2>1. h \notin PassedSince(c, last)
    BY <1>1 DEF Before, PassedSince
  <2>2. h \in PassedSince(c, h)
    BY <1>1 DEF Before, PassedSince
  <2>3. ASSUME NEW x \in PassedSince(c, last) PROVE x \in PassedSince(c, h)
    <3>1. x \in RefCells /\ x \in Nat
      BY <1>1 DEF PassedSince
    <3> QED BY <1>1, <3>1 DEF Before, PassedSince
  <2> QED BY <2>1, <2>2, <2>3
<1>3. IsFiniteSet(PassedSince(c, last)) /\ IsFiniteSet(PassedSince(c, h))
  BY ReferenceAssumption, FS_Subset DEF PassedSince
<1>4. Cardinality(PassedSince(c, last) \cup {h}) = Cardinality(PassedSince(c, last)) + 1
  BY <1>2, <1>3, FS_AddElement
<1>5. Cardinality(PassedSince(c, last) \cup {h}) <= Cardinality(PassedSince(c, h))
  BY <1>2, <1>3, FS_Subset
<1>6. Cardinality(PassedSince(c, last)) \in Nat /\ Cardinality(PassedSince(c, h)) \in Nat
  BY <1>3, FS_CardinalityType
<1> QED BY <1>4, <1>5, <1>6

(* Nobody is passed by itself.                                             *)
LEMMA NeverPassedByItself ==
  ASSUME NEW c \in RefCells, NEW last \in RefCells \cup {-1}
  PROVE  /\ Cardinality(PassedSince(c, last)) \in Nat
         /\ Cardinality(PassedSince(c, last)) < Cardinality(RefCells)
<1>1. c \notin PassedSince(c, last) /\ PassedSince(c, last) \subseteq RefCells
  BY ReferenceAssumption DEF PassedSince
<1>2. IsFiniteSet(RefCells) /\ IsFiniteSet(PassedSince(c, last))
  BY <1>1, ReferenceAssumption, FS_Subset
<1>3. /\ Cardinality(PassedSince(c, last)) <= Cardinality(RefCells)
      /\ Cardinality(PassedSince(c, last)) # Cardinality(RefCells)
  BY <1>1, <1>2, FS_Subset
<1>4. Cardinality(PassedSince(c, last)) \in Nat /\ Cardinality(RefCells) \in Nat
  BY <1>2, FS_CardinalityType
<1> QED BY <1>3, <1>4

-----------------------------------------------------------------------------
LEMMA JudgeDayType == ASSUME NEW row, NEW total PROVE JudgeDay(row, total) \in Verdicts
BY DEF JudgeDay, Verdicts

LEMMA ReferenceInitInv == ReferenceInit => ReferenceInv
<1> SUFFICES ASSUME ReferenceInit PROVE ReferenceInv
  OBVIOUS
<1>1. \A c \in RefCells : RefRows(c) = {}
  BY DEF ReferenceInit, RefRows
<1>2. RefTypeOK
  BY <1>1 DEF ReferenceInit, RefTypeOK, Checkings
<1>3. JudgedOnce /\ AskingSigned /\ RowsAreOver
  BY <1>1 DEF ReferenceInit, JudgedOnce, AskingSigned, RowsAreOver, Idle
<1>4. TurnsAreKept
  <2>1. \A c \in RefCells : waited[c] = 0 /\ lastAsked = -1 /\ checking.step = "idle"
    BY DEF ReferenceInit, Idle
  <2> QED BY <2>1, <1>2, NeverPassedByItself DEF TurnsAreKept, RefTypeOK, ReferenceInit, Idle
<1> QED BY <1>2, <1>3, <1>4 DEF ReferenceInv

LEMMA RefTickKeeps == ASSUME ReferenceInv, RefTick PROVE ReferenceInv'
<1>1. /\ refNow' = refNow + 1 /\ refNow \in Nat
      /\ UNCHANGED <<applies, dayRows, hoursKept, lastAsked, checking, waited>>
  BY DEF RefTick, ReferenceInv, RefTypeOK
<1>2. RefTypeOK'
  BY <1>1 DEF ReferenceInv, RefTypeOK, RefRows, RefRow
<1>3. JudgedOnce' /\ AskingSigned' /\ TurnsAreKept'
  BY <1>1 DEF ReferenceInv, JudgedOnce, AskingSigned, TurnsAreKept, RefRows, RefRow
<1>4. RowsAreOver'
  <2>1. ASSUME NEW c \in RefCells, NEW d \in RefRows(c) PROVE From(d + 1) <= refNow + 1
    <3>1. From(d + 1) <= refNow /\ d \in Nat
      BY DEF ReferenceInv, RowsAreOver, RefTypeOK
    <3>2. From(d + 1) \in Int
      BY <3>1, ReferenceAssumption DEF From
    <3> QED BY <1>1, <3>1, <3>2
  <2> QED BY <1>1, <2>1 DEF ReferenceInv, RowsAreOver, RefRows
<1> QED BY <1>2, <1>3, <1>4 DEF ReferenceInv

(* A row written again before it is signed has no verdict yet.             *)
LEMMA CloseRefDayKeeps ==
  ASSUME ReferenceInv, NEW c \in RefCells, NEW d \in RefDaysOf[c],
         NEW rain \in RainfallsOf[c], NEW signed \in BOOLEAN, CloseRefDay(c, d, rain, signed)
  PROVE  ReferenceInv'
<1>1. /\ RefTypeOK /\ JudgedOnce /\ AskingSigned /\ RowsAreOver /\ TurnsAreKept
      /\ checking = Idle /\ From(d + 1) <= refNow
      /\ \A x \in RefRows(c) : RefRow(c, x).signed => x < d
      /\ UNCHANGED <<hoursKept, lastTry, lastAsked, checking, waited, refNow, applies, flagged>>
  BY DEF ReferenceInv, CloseRefDay, clockAndChain
<1>2. d \in Nat
  BY ReferenceAssumption
<1> DEFINE old == IF d \in RefRows(c) THEN RefRow(c, d) ELSE [reference |-> "pending", total |-> None]
           row == [state |-> LabelOf(rain), rain |-> rain, signed |-> signed,
                   reference |-> old.reference, total |-> old.total]
<1>3. /\ DOMAIN dayRows' = RefCells
      /\ \A x \in RefCells : x # c => dayRows'[x] = dayRows[x]
      /\ DOMAIN dayRows'[c] = RefRows(c) \cup {d}
      /\ \A x \in RefRows(c) \cup {d} : dayRows'[c][x] = IF x = d THEN row ELSE RefRow(c, x)
  <2>1. dayRows' = [dayRows EXCEPT ![c] = [x \in RefRows(c) \cup {d} |-> IF x = d THEN row ELSE RefRow(c, x)]]
    BY DEF CloseRefDay
  <2> HIDE DEF row
  <2> QED BY <1>1, <2>1 DEF RefTypeOK
<1>4. old.total = None /\ old.reference \in {"pending", "unchecked"}
  <2>1. CASE d \in RefRows(c)
    <3>1. ~RefRow(c, d).signed
      BY <1>1, <1>2, <2>1
    <3>2. RefRow(c, d) \in RefDayRows
      BY <1>1, <2>1 DEF RefTypeOK
    <3>3. RefRow(c, d).total = None /\ RefRow(c, d).reference \notin {"agrees", "disputed"}
      BY <1>1, <2>1, <3>1 DEF JudgedOnce
    <3>4. RefRow(c, d).reference \in {"agrees", "disputed", "unchecked", "pending"}
      BY <3>2 DEF RefDayRows, Verdicts
    <3> QED BY <2>1, <3>3, <3>4
  <2>2. CASE d \notin RefRows(c)
    BY <2>2
  <2> QED BY <2>1, <2>2
<1>5. row \in RefDayRows
  <2>1. LabelOf(rain) \in {"NoCoverage", "Dry", "Wet"}
    BY DEF LabelOf
  <2>2. rain \in UNION {RainfallsOf[x] : x \in RefCells}
    OBVIOUS
  <2> HIDE DEF old
  <2> QED BY <1>4, <2>1, <2>2 DEF RefDayRows, Verdicts
<1>6. row.total = None /\ row.reference \in {"pending", "unchecked"}
  BY <1>4
<1> HIDE DEF row, old
<1>7. RefTypeOK'
  <2>1. \A x \in RefCells : RefRows(x)' \subseteq Nat /\ \A e \in RefRows(x)' : RefRow(x, e)' \in RefDayRows
    BY <1>1, <1>2, <1>3, <1>5 DEF RefTypeOK, RefRows, RefRow
  <2> QED BY <1>1, <1>3, <2>1 DEF RefTypeOK
<1>8. JudgedOnce'
  <2> SUFFICES ASSUME NEW x \in RefCells, NEW e \in RefRows(x)'
               PROVE  /\ RefRow(x, e)'.total # None => RefRow(x, e)'.signed /\ e \in DOMAIN hoursKept[x]
                      /\ RefRow(x, e)'.reference \in {"agrees", "disputed"} => RefRow(x, e)'.total # None
                      /\ \A total \in RefRow(x, e)'.total : RefRow(x, e)'.reference = JudgeDay(RefRow(x, e)', total)
    BY <1>1 DEF JudgedOnce
  <2>1. CASE x = c /\ e = d
    <3>1. RefRow(x, e)' = row
      BY <1>3, <2>1 DEF RefRow
    <3> QED BY <1>6, <3>1 DEF None
  <2>2. CASE ~(x = c /\ e = d)
    <3>1. e \in RefRows(x) /\ RefRow(x, e)' = RefRow(x, e)
      BY <1>3, <2>2 DEF RefRows, RefRow
    <3> QED BY <1>1, <3>1 DEF JudgedOnce
  <2> QED BY <2>1, <2>2
<1>9. AskingSigned' /\ TurnsAreKept'
  BY <1>1 DEF AskingSigned, TurnsAreKept, Idle
<1>10. RowsAreOver'
  BY <1>1, <1>3 DEF RowsAreOver, RefRows
<1> QED BY <1>7, <1>8, <1>9, <1>10 DEF ReferenceInv

(* Giving days up takes no verdict and no signature back.                  *)
LEMMA GivenUp ==
  ASSUME RefTypeOK, JudgedOnce, NEW beforeDay
  PROVE  /\ DOMAIN GiveUp(beforeDay) = RefCells
         /\ \A c \in RefCells :
              /\ DOMAIN GiveUp(beforeDay)[c] = RefRows(c)
              /\ \A d \in RefRows(c) : LET row == GiveUp(beforeDay)[c][d] IN
                   /\ row \in RefDayRows /\ row.signed = RefRow(c, d).signed
                   /\ row = RefRow(c, d) \/ (row.total = None /\ row.reference = "unchecked")
<1>1. DOMAIN GiveUp(beforeDay) = RefCells /\ \A c \in RefCells : DOMAIN GiveUp(beforeDay)[c] = RefRows(c)
  BY DEF GiveUp
<1>2. ASSUME NEW c \in RefCells, NEW d \in RefRows(c), NEW row, row = GiveUp(beforeDay)[c][d]
      PROVE  /\ row \in RefDayRows /\ row.signed = RefRow(c, d).signed
             /\ row = RefRow(c, d) \/ (row.total = None /\ row.reference = "unchecked")
  <2>1. RefRow(c, d) \in RefDayRows
    BY DEF RefTypeOK
  <2>2. row = IF d < beforeDay /\ RefRow(c, d).reference = "pending"
              THEN [RefRow(c, d) EXCEPT !.reference = "unchecked"] ELSE RefRow(c, d)
    BY <1>2 DEF GiveUp
  <2>3. CASE row = RefRow(c, d)
    BY <2>1, <2>3
  <2>4. CASE RefRow(c, d).reference = "pending" /\ row = [RefRow(c, d) EXCEPT !.reference = "unchecked"]
    <3>1. RefRow(c, d).total = None
      <4>1. \A total \in RefRow(c, d).total : FALSE
        BY <2>4, JudgeDayType DEF JudgedOnce, Verdicts
      <4> QED BY <4>1 DEF None
    <3>2. row.total = RefRow(c, d).total /\ row.reference = "unchecked" /\ row.signed = RefRow(c, d).signed
      BY <2>1, <2>4 DEF RefDayRows
    <3>3. row \in RefDayRows
      BY <2>1, <2>4 DEF RefDayRows, Verdicts
    <3> QED BY <3>1, <3>2, <3>3
  <2> QED BY <2>2, <2>3, <2>4
<1> QED BY <1>1, <1>2

LEMMA RowsAfterGivingUp ==
  ASSUME RefTypeOK, JudgedOnce, RowsAreOver, NEW beforeDay,
         dayRows' = GiveUp(beforeDay), hoursKept' = hoursKept, refNow' = refNow
  PROVE  /\ DOMAIN dayRows' = RefCells /\ JudgedOnce'
         /\ \A c \in RefCells : /\ RefRows(c)' = RefRows(c)
                                /\ \A d \in RefRows(c) : /\ RefRow(c, d)' \in RefDayRows
                                                         /\ RefRow(c, d).signed' = RefRow(c, d).signed
                                                         /\ From(d + 1) <= refNow
<1> DEFINE after == GiveUp(beforeDay)
<1>1. /\ DOMAIN after = RefCells
      /\ \A c \in RefCells :
           /\ DOMAIN after[c] = RefRows(c)
           /\ \A d \in RefRows(c) :
                /\ after[c][d] \in RefDayRows /\ after[c][d].signed = RefRow(c, d).signed
                /\ after[c][d] = RefRow(c, d) \/ (after[c][d].total = None /\ after[c][d].reference = "unchecked")
  BY GivenUp
<1>2. dayRows' = after
  OBVIOUS
<1> HIDE DEF after
<1>3. \A c \in RefCells : /\ RefRows(c)' = RefRows(c)
                          /\ \A d \in RefRows(c) : RefRow(c, d)' = after[c][d]
  BY <1>1, <1>2 DEF RefRows, RefRow
<1>4. JudgedOnce'
  <2> SUFFICES ASSUME NEW c \in RefCells, NEW d \in RefRows(c)
               PROVE  /\ after[c][d].total # None => after[c][d].signed /\ d \in DOMAIN hoursKept[c]
                      /\ after[c][d].reference \in {"agrees", "disputed"} => after[c][d].total # None
                      /\ \A total \in after[c][d].total : after[c][d].reference = JudgeDay(after[c][d], total)
    BY <1>3 DEF JudgedOnce
  <2>1. CASE after[c][d] = RefRow(c, d)
    BY <2>1 DEF JudgedOnce
  <2>2. CASE after[c][d].total = None /\ after[c][d].reference = "unchecked"
    BY <2>2 DEF None
  <2> QED BY <1>1, <2>1, <2>2
<1> QED BY <1>1, <1>2, <1>3, <1>4 DEF RowsAreOver

LEMMA BeginCheckKeeps == ASSUME ReferenceInv, BeginCheck PROVE ReferenceInv'
<1> DEFINE fromDay   == Max({0, RefToday(refNow) - RefWindow})
           beforeDay == IF applies THEN fromDay ELSE MaxRefTime + 1
           ready     == [c \in RefCells |-> Settled(PendingDays(c, fromDay), refNow)]
           waiting   == {c \in RefCells : ready[c] # {}}
           queue     == FromAfter(waiting, lastAsked)
           begun     == [step |-> "asking", at |-> refNow, ready |-> ready, queue |-> queue]
<1>1. RefTypeOK /\ JudgedOnce /\ AskingSigned /\ RowsAreOver /\ TurnsAreKept
  BY DEF ReferenceInv
<1>2. /\ checking = Idle /\ dayRows' = GiveUp(beforeDay)
      /\ waited' = [c \in RefCells |-> IF c \in waiting THEN waited[c] ELSE 0]
      /\ checking' = IF applies /\ waiting # {} THEN begun ELSE [step |-> "asked", at |-> refNow]
      /\ UNCHANGED <<refNow, applies, lastAsked, hoursKept>>
  BY DEF BeginCheck, clockAndChain
<1>3. \A c \in RefCells : \A d \in ready[c] : d \in RefRows(c) /\ RefRow(c, d).signed
  BY DEF Settled, PendingDays
<1> HIDE DEF beforeDay
<1>4. /\ DOMAIN dayRows' = RefCells /\ JudgedOnce'
      /\ \A c \in RefCells : /\ RefRows(c)' = RefRows(c)
                             /\ \A d \in RefRows(c) : /\ RefRow(c, d)' \in RefDayRows
                                                      /\ RefRow(c, d).signed' = RefRow(c, d).signed
                                                      /\ From(d + 1) <= refNow
  BY <1>1, <1>2, RowsAfterGivingUp
<1>5. waiting \subseteq RefCells /\ DOMAIN ready = RefCells
  OBVIOUS
<1>6. ready \in [RefCells -> SUBSET Nat]
  <2>1. \A c \in RefCells : RefRows(c) \subseteq Nat
    BY <1>1 DEF RefTypeOK
  <2> QED BY <1>3, <2>1
<1> HIDE DEF ready, waiting, fromDay
<1>7. lastAsked \in RefCells \cup {-1} /\ waited \in [RefCells -> Nat] /\ refNow \in Nat /\ applies \in BOOLEAN
  BY <1>1 DEF RefTypeOK
<1>8. /\ queue \in Seq(RefCells) /\ Range(queue) = waiting
      /\ \A i, j \in DOMAIN queue : i < j => Before(queue[i], queue[j], lastAsked)
  BY <1>5, <1>7, QueueGoesRound
<1> HIDE DEF queue
<1>9. /\ begun \in Checkings /\ begun.step = "asking" /\ begun.at = refNow /\ begun.ready = ready
      /\ begun.queue = queue
  BY <1>6, <1>7, <1>8 DEF Checkings
<1>10. waited' \in [RefCells -> Nat] /\ \A c \in RefCells : waited'[c] <= waited[c]
  BY <1>2, <1>7
<1>11. RefTypeOK'
  <2>1. checking' \in Checkings
    BY <1>2, <1>7, <1>9 DEF Checkings
  <2>2. DOMAIN hoursKept' = RefCells
    BY <1>1, <1>2 DEF RefTypeOK
  <2>3. \A c \in RefCells : RefRows(c)' \subseteq Nat /\ \A d \in RefRows(c)' : RefRow(c, d)' \in RefDayRows
    BY <1>1, <1>4 DEF RefTypeOK
  <2> QED BY <1>2, <1>4, <1>7, <1>10, <2>1, <2>2, <2>3 DEF RefTypeOK
<1>12. checking'.at = refNow /\ (checking'.step = "asking" => checking' = begun /\ waiting # {})
  BY <1>2, <1>9
<1> HIDE DEF begun
<1>13. AskingSigned'
  <2> SUFFICES ASSUME checking'.step = "asking", NEW i \in DOMAIN checking'.queue,
                      NEW cell, cell = checking'.queue[i], NEW d \in checking'.ready[cell]
               PROVE  d \in RefRows(cell)' /\ RefRow(cell, d).signed'
    BY DEF AskingSigned
  <2>1. cell \in RefCells /\ d \in ready[cell]
    BY <1>8, <1>9, <1>12
  <2> QED BY <1>3, <1>4, <2>1
<1>14. RowsAreOver'
  BY <1>2, <1>4, <1>12 DEF RowsAreOver
<1>15. TurnsAreKept'
  <2>1. \A c \in RefCells : waited'[c] <= Cardinality(PassedSince(c, lastAsked))
    <3> SUFFICES ASSUME NEW c \in RefCells PROVE waited'[c] <= Cardinality(PassedSince(c, lastAsked))
      OBVIOUS
    <3>1. Cardinality(PassedSince(c, lastAsked)) \in Nat /\ waited[c] <= Cardinality(PassedSince(c, lastAsked))
      BY <1>1, <1>7, NeverPassedByItself DEF TurnsAreKept
    <3> QED BY <1>7, <1>10, <3>1
  <2>2. ASSUME checking'.step = "asking"
        PROVE  queue # <<>> /\ \A c \in RefCells : c \notin Range(queue) => waited'[c] = 0
    <3>1. queue # <<>>
      BY <1>8, <1>12, <2>2 DEF Range
    <3> QED BY <1>2, <1>8, <3>1
  <2> QED BY <1>2, <1>8, <1>9, <1>12, <2>1, <2>2 DEF TurnsAreKept
<1> QED BY <1>4, <1>11, <1>13, <1>14, <1>15 DEF ReferenceInv

LEMMA CheckFailsKeeps == ASSUME ReferenceInv, CheckFails PROVE ReferenceInv'
<1>1. RefTypeOK /\ JudgedOnce /\ AskingSigned /\ RowsAreOver /\ TurnsAreKept
  BY DEF ReferenceInv
<1>2. PICK beforeDay : dayRows' = dayRows \/ dayRows' = GiveUp(beforeDay)
  BY DEF CheckFails
<1>3. /\ checking = Idle /\ checking' = [step |-> "asked", at |-> refNow]
      /\ UNCHANGED <<refNow, applies, lastAsked, hoursKept, waited>>
  BY DEF CheckFails, clockAndChain
<1>4. /\ DOMAIN dayRows' = RefCells /\ JudgedOnce'
      /\ \A c \in RefCells : /\ RefRows(c)' = RefRows(c)
                             /\ \A d \in RefRows(c) : /\ RefRow(c, d)' \in RefDayRows
                                                      /\ From(d + 1) <= refNow
  <2>1. CASE dayRows' = GiveUp(beforeDay)
    BY <1>1, <1>3, <2>1, RowsAfterGivingUp
  <2>2. CASE dayRows' = dayRows
    BY <1>1, <1>3, <2>2 DEF RefTypeOK, JudgedOnce, RowsAreOver, RefRows, RefRow
  <2> QED BY <1>2, <2>1, <2>2
<1>5. checking'.step = "asked" /\ checking'.at = refNow /\ checking' \in Checkings
  BY <1>1, <1>3 DEF Checkings, RefTypeOK
<1>6. RefTypeOK'
  BY <1>1, <1>3, <1>4, <1>5 DEF RefTypeOK
<1>7. AskingSigned' /\ RowsAreOver'
  BY <1>3, <1>4, <1>5 DEF AskingSigned, RowsAreOver
<1>8. TurnsAreKept'
  BY <1>1, <1>3, <1>5 DEF TurnsAreKept
<1> QED BY <1>4, <1>6, <1>7, <1>8 DEF ReferenceInv

(* An answer judges days that are on chain and waiting for it.             *)
LEMMA JudgedByTheAnswer ==
  ASSUME NEW rowsOf, NEW named, NEW totals, NEW d \in DOMAIN rowsOf, rowsOf[d] \in RefDayRows,
         totals \in [DOMAIN totals -> Totals],
         NEW row, row = WithVerdicts(rowsOf, named, totals)[d]
  PROVE  \/ row = rowsOf[d]
         \/ /\ d \in named /\ d \in DOMAIN totals /\ row \in RefDayRows /\ row.signed = rowsOf[d].signed
            /\ row.total = {totals[d]} /\ row.reference = JudgeDay(row, totals[d])
<1> DEFINE judged == [rowsOf[d] EXCEPT !.reference = JudgeDay(rowsOf[d], totals[d]), !.total = {totals[d]}]
<1>1. row = rowsOf[d] \/ (d \in named /\ d \in DOMAIN totals /\ row = judged)
  BY DEF WithVerdicts
<1>2. CASE d \in named /\ d \in DOMAIN totals /\ row = judged
  <2>1. JudgeDay(rowsOf[d], totals[d]) \in Verdicts /\ totals[d] \in Totals
    BY <1>2, JudgeDayType
  <2>2. /\ judged \in RefDayRows /\ judged.signed = rowsOf[d].signed /\ judged.total = {totals[d]}
        /\ judged.state = rowsOf[d].state /\ judged.rain = rowsOf[d].rain
        /\ judged.reference = JudgeDay(rowsOf[d], totals[d])
    BY <2>1 DEF RefDayRows
  <2>3. JudgeDay(judged, totals[d]) = JudgeDay(rowsOf[d], totals[d])
    BY <2>2 DEF JudgeDay
  <2> QED BY <1>2, <2>2, <2>3
<1> QED BY <1>1, <1>2

(* The next cell's turn, whatever it answers.                              *)
LEMMA AskCellKeeps == ASSUME ReferenceInv, AskCell PROVE ReferenceInv'
<1> DEFINE cell == Head(checking.queue)
           named == checking.ready[cell]
           rest == Tail(checking.queue)
<1>1. RefTypeOK /\ JudgedOnce /\ AskingSigned /\ RowsAreOver /\ TurnsAreKept /\ checking.step = "asking"
  BY DEF ReferenceInv, AskCell
<1>2. checking \in [step : {"asking"}, at : Nat, ready : [RefCells -> SUBSET Nat], queue : Seq(RefCells)]
  BY <1>1 DEF RefTypeOK, Checkings, Idle
<1>3. /\ checking.queue \in Seq(RefCells) /\ checking.queue # <<>> /\ checking.at \in Nat
      /\ \A i, j \in DOMAIN checking.queue :
           i < j => Before(checking.queue[i], checking.queue[j], lastAsked)
      /\ \A c \in RefCells : c \notin Range(checking.queue) => waited[c] = 0
  BY <1>1, <1>2 DEF TurnsAreKept
<1>4. /\ cell \in RefCells /\ rest \in Seq(RefCells) /\ 1 \in DOMAIN checking.queue /\ cell = checking.queue[1]
      /\ \A i \in DOMAIN rest : i + 1 \in DOMAIN checking.queue /\ rest[i] = checking.queue[i + 1] /\ i >= 1
      /\ \A i \in DOMAIN checking.queue : i = 1 \/ (i - 1 \in DOMAIN rest /\ rest[i - 1] = checking.queue[i])
  BY <1>3
<1>5. /\ lastAsked' = cell
      /\ waited' = [x \in RefCells |-> IF x = cell THEN 0
                      ELSE IF x \in Range(rest) THEN waited[x] + 1 ELSE waited[x]]
      /\ checking' = [step |-> "asked", at |-> checking.at]
           \/ (checking' = [checking EXCEPT !.queue = rest] /\ rest # <<>>)
      /\ UNCHANGED <<refNow, applies, flagged>>
  BY DEF AskCell, clockAndChain
<1>6. PICK c \in RefCells : c = cell
  BY <1>4
<1>7. \/ UNCHANGED <<dayRows, hoursKept>>
      \/ \E totals : /\ totals \in [DOMAIN totals -> Totals]
                     /\ dayRows' = [dayRows EXCEPT ![c] = WithVerdicts(dayRows[c], named, totals)]
                     /\ hoursKept' = [hoursKept EXCEPT ![c] = Kept(totals, hoursKept[c])]
  <2>1. \A totals \in UNION {[ds -> Totals] : ds \in SUBSET Asked(named)} : totals \in [DOMAIN totals -> Totals]
    OBVIOUS
  <2> QED BY <1>6, <2>1 DEF AskCell
<1>8. \A d \in named : d \in RefRows(c) /\ RefRow(c, d).signed
  BY <1>1, <1>4, <1>6 DEF AskingSigned
<1> HIDE DEF cell, named, rest
<1>9. /\ DOMAIN dayRows' = RefCells /\ DOMAIN hoursKept' = RefCells
      /\ \A x \in RefCells : RefRows(x)' = RefRows(x) /\ DOMAIN hoursKept[x] \subseteq DOMAIN hoursKept'[x]
      /\ \A x \in RefCells : \A d \in RefRows(x) :
           LET row == dayRows'[x][d] IN
           \/ row = RefRow(x, d)
           \/ /\ row \in RefDayRows /\ row.signed /\ RefRow(x, d).signed /\ d \in DOMAIN hoursKept'[x]
              /\ row.total # None /\ \A total \in row.total : row.reference = JudgeDay(row, total)
  <2>1. CASE UNCHANGED <<dayRows, hoursKept>>
    BY <1>1, <2>1 DEF RefTypeOK, RefRows, RefRow
  <2>2. CASE \E totals : /\ totals \in [DOMAIN totals -> Totals]
                          /\ dayRows' = [dayRows EXCEPT ![c] = WithVerdicts(dayRows[c], named, totals)]
                          /\ hoursKept' = [hoursKept EXCEPT ![c] = Kept(totals, hoursKept[c])]
    <3>1. PICK totals : /\ totals \in [DOMAIN totals -> Totals]
                        /\ dayRows' = [dayRows EXCEPT ![c] = WithVerdicts(dayRows[c], named, totals)]
                        /\ hoursKept' = [hoursKept EXCEPT ![c] = Kept(totals, hoursKept[c])]
      BY <2>2
    <3>2. /\ DOMAIN WithVerdicts(dayRows[c], named, totals) = RefRows(c)
          /\ DOMAIN Kept(totals, hoursKept[c]) = DOMAIN totals \cup DOMAIN hoursKept[c]
      BY DEF WithVerdicts, RefRows, Kept
    <3>3. /\ DOMAIN dayRows' = RefCells /\ DOMAIN hoursKept' = RefCells
          /\ dayRows'[c] = WithVerdicts(dayRows[c], named, totals)
          /\ hoursKept'[c] = Kept(totals, hoursKept[c])
          /\ \A x \in RefCells : x # c => dayRows'[x] = dayRows[x] /\ hoursKept'[x] = hoursKept[x]
      BY <1>1, <3>1 DEF RefTypeOK
    <3>4. ASSUME NEW d \in RefRows(c), NEW row, row = dayRows'[c][d], row # RefRow(c, d)
          PROVE  /\ row \in RefDayRows /\ row.signed /\ RefRow(c, d).signed /\ d \in DOMAIN hoursKept'[c]
                 /\ row.total # None /\ \A total \in row.total : row.reference = JudgeDay(row, total)
      <4>1. RefRow(c, d) \in RefDayRows /\ RefRow(c, d) = dayRows[c][d] /\ d \in DOMAIN dayRows[c]
        BY <1>1 DEF RefTypeOK, RefRow, RefRows
      <4>2. row = WithVerdicts(dayRows[c], named, totals)[d]
        BY <3>3, <3>4
      <4>3. /\ d \in named /\ d \in DOMAIN totals /\ row \in RefDayRows /\ row.signed = RefRow(c, d).signed
            /\ row.total = {totals[d]} /\ row.reference = JudgeDay(row, totals[d])
        BY <3>1, <3>4, <4>1, <4>2, JudgedByTheAnswer
      <4> QED BY <1>8, <3>2, <3>3, <4>3 DEF None
    <3>5. \A x \in RefCells : RefRows(x)' = RefRows(x) /\ DOMAIN hoursKept[x] \subseteq DOMAIN hoursKept'[x]
      BY <3>2, <3>3 DEF RefRows
    <3>6. \A x \in RefCells : x # c => \A d \in RefRows(x) : dayRows'[x][d] = RefRow(x, d)
      BY <3>3 DEF RefRow
    <3> QED BY <3>3, <3>4, <3>5, <3>6
  <2> QED BY <1>7, <2>1, <2>2
<1>10. checking' \in Checkings /\ checking'.at = checking.at /\ checking'.step \in {"asked", "asking"}
  <2>1. CASE checking' = [step |-> "asked", at |-> checking.at]
    BY <1>3, <2>1 DEF Checkings
  <2>2. CASE checking' = [checking EXCEPT !.queue = rest]
    <3>1. checking' \in [step : {"asking"}, at : Nat, ready : [RefCells -> SUBSET Nat], queue : Seq(RefCells)]
      BY <1>2, <1>4, <2>2
    <3> QED BY <1>2, <2>2, <3>1 DEF Checkings
  <2> QED BY <1>5, <2>1, <2>2
<1>11. checking'.step = "asking" =>
         checking'.queue = rest /\ rest # <<>> /\ checking'.ready = checking.ready
  BY <1>2, <1>5
<1>12. waited' \in [RefCells -> Nat]
  BY <1>1, <1>5 DEF RefTypeOK
<1>13. RefTypeOK'
  <2>1. \A x \in RefCells : RefRows(x)' \subseteq Nat /\ \A d \in RefRows(x)' : RefRow(x, d)' \in RefDayRows
    BY <1>1, <1>9 DEF RefTypeOK, RefRow
  <2> QED BY <1>1, <1>4, <1>5, <1>9, <1>10, <1>12, <2>1 DEF RefTypeOK
<1>14. JudgedOnce'
  <2> SUFFICES ASSUME NEW x \in RefCells, NEW d \in RefRows(x)', NEW row, row = RefRow(x, d)'
               PROVE  /\ row.total # None => row.signed /\ d \in DOMAIN hoursKept'[x]
                      /\ row.reference \in {"agrees", "disputed"} => row.total # None
                      /\ \A total \in row.total : row.reference = JudgeDay(row, total)
    BY DEF JudgedOnce
  <2>1. row = dayRows'[x][d] /\ d \in RefRows(x)
    BY <1>9 DEF RefRow
  <2>2. CASE row = RefRow(x, d)
    BY <1>1, <1>9, <2>1, <2>2 DEF JudgedOnce
  <2>3. CASE row # RefRow(x, d)
    BY <1>9, <2>1, <2>3
  <2> QED BY <2>2, <2>3
<1>15. AskingSigned'
  <2> SUFFICES ASSUME checking'.step = "asking", NEW i \in DOMAIN checking'.queue,
                      NEW x, x = checking'.queue[i], NEW d \in checking'.ready[x]
               PROVE  d \in RefRows(x)' /\ RefRow(x, d).signed'
    BY DEF AskingSigned
  <2>1. i + 1 \in DOMAIN checking.queue /\ x = checking.queue[i + 1] /\ d \in checking.ready[x] /\ x \in RefCells
    BY <1>3, <1>4, <1>11
  <2>2. d \in RefRows(x) /\ RefRow(x, d).signed
    BY <1>1, <2>1 DEF AskingSigned
  <2> QED BY <1>9, <2>1, <2>2 DEF RefRow
<1>16. RowsAreOver'
  <2>1. checking # Idle
    BY <1>1 DEF Idle
  <2> QED BY <1>1, <1>5, <1>9, <1>10, <2>1 DEF RowsAreOver
<1>17. ASSUME NEW i \in DOMAIN rest PROVE Before(c, rest[i], lastAsked) /\ rest[i] \in RefCells
  <2>1. i \in Nat /\ i >= 1 /\ rest[i] \in RefCells
    BY <1>4
  <2>2. 1 < i + 1 /\ 1 \in DOMAIN checking.queue /\ i + 1 \in DOMAIN checking.queue
    BY <1>4, <2>1
  <2>3. Before(checking.queue[1], checking.queue[i + 1], lastAsked)
    BY <1>3, <2>2
  <2> QED BY <1>4, <1>6, <2>1, <2>3
<1>18. lastAsked \in RefCells \cup {-1} /\ RefCells \subseteq Nat /\ waited \in [RefCells -> Nat]
  BY <1>1, ReferenceAssumption DEF RefTypeOK
<1>19. \A x \in RefCells : waited'[x] <= Cardinality(PassedSince(x, c))
  <2> SUFFICES ASSUME NEW x \in RefCells PROVE waited'[x] <= Cardinality(PassedSince(x, c))
    OBVIOUS
  <2>1. Cardinality(PassedSince(x, c)) \in Nat
    BY NeverPassedByItself
  <2>2. CASE x # c /\ x \in Range(rest)
    <3>1. Before(c, x, lastAsked)
      BY <1>17, <2>2 DEF Range
    <3>2. /\ Cardinality(PassedSince(x, c)) >= Cardinality(PassedSince(x, lastAsked)) + 1
          /\ Cardinality(PassedSince(x, lastAsked)) \in Nat
      BY <1>18, <3>1, PassedOnce, NeverPassedByItself
    <3>3. waited[x] <= Cardinality(PassedSince(x, lastAsked))
      BY <1>1 DEF TurnsAreKept
    <3> QED BY <1>5, <1>6, <1>18, <2>1, <2>2, <3>2, <3>3
  <2>3. CASE x = c
    BY <1>5, <1>6, <2>1, <2>3
  <2>4. CASE x # c /\ x \notin Range(rest)
    <3>1. x \notin Range(checking.queue)
      BY <1>4, <1>6, <2>4 DEF Range
    <3>2. waited'[x] = 0
      BY <1>3, <1>5, <1>6, <2>4, <3>1
    <3> QED BY <2>1, <3>2
  <2> QED BY <2>2, <2>3, <2>4
<1>20. ASSUME NEW i \in DOMAIN rest, NEW j \in DOMAIN rest, i < j PROVE Before(rest[i], rest[j], c)
  <2>1. i + 1 < j + 1 /\ i + 1 \in DOMAIN checking.queue /\ j + 1 \in DOMAIN checking.queue
    BY <1>4, <1>20
  <2>2. Before(rest[i], rest[j], lastAsked)
    BY <1>3, <1>4, <2>1
  <2> QED BY <1>17, <1>18, <2>2, TheRestGoesRound
<1>21. ASSUME NEW x \in RefCells, x \notin Range(rest) PROVE waited'[x] = 0
  <2>1. CASE x = c
    BY <1>5, <1>6, <2>1
  <2>2. CASE x # c
    <3>1. x \notin Range(checking.queue)
      BY <1>4, <1>6, <1>21, <2>2 DEF Range
    <3> QED BY <1>3, <1>5, <1>6, <1>21, <2>2, <3>1
  <2> QED BY <2>1, <2>2
<1>22. TurnsAreKept'
  BY <1>5, <1>6, <1>11, <1>19, <1>20, <1>21 DEF TurnsAreKept
<1> QED BY <1>13, <1>14, <1>15, <1>16, <1>22 DEF ReferenceInv

(* Investigating, closing an investigation, and losing the process.        *)
LEMMA RestKeeps ==
  ASSUME ReferenceInv,
         Investigate \/ CrashCheck \/ \E c \in RefCells : CloseInvestigationOf(c)
  PROVE  ReferenceInv'
<1>1. RefTypeOK /\ JudgedOnce /\ AskingSigned /\ RowsAreOver /\ TurnsAreKept
  BY DEF ReferenceInv
<1>2. /\ UNCHANGED <<refNow, applies, dayRows, hoursKept>>
      /\ checking' \in {checking, Idle}
      /\ \/ UNCHANGED <<lastAsked, waited>>
         \/ lastAsked' = -1 /\ waited' = [c \in RefCells |-> 0]
  BY DEF Investigate, CrashCheck, CloseInvestigationOf, clockAndChain
<1>3. RefTypeOK' /\ JudgedOnce'
  BY <1>1, <1>2 DEF RefTypeOK, JudgedOnce, RefRows, RefRow, Checkings
<1>4. AskingSigned' /\ RowsAreOver'
  BY <1>1, <1>2 DEF AskingSigned, RowsAreOver, RefRows, RefRow, Idle
<1>5. TurnsAreKept'
  <2>1. CASE UNCHANGED <<lastAsked, waited>>
    BY <1>1, <1>2, <2>1 DEF TurnsAreKept, Idle
  <2>2. CASE lastAsked' = -1 /\ waited' = [c \in RefCells |-> 0] /\ checking' = Idle
    BY <2>2, NeverPassedByItself DEF TurnsAreKept, Idle
  <2> QED BY <1>2, <2>1, <2>2 DEF Investigate, CrashCheck, CloseInvestigationOf
<1> QED BY <1>3, <1>4, <1>5 DEF ReferenceInv

LEMMA ReferenceNextInv == ReferenceInv /\ [ReferenceNext]_refVars => ReferenceInv'
<1> SUFFICES ASSUME ReferenceInv, [ReferenceNext]_refVars PROVE ReferenceInv'
  OBVIOUS
<1>1. CASE RefTick
  BY <1>1, RefTickKeeps
<1>2. CASE BeginCheck
  BY <1>2, BeginCheckKeeps
<1>3. CASE CheckFails
  BY <1>3, CheckFailsKeeps
<1>4. CASE AskCell
  BY <1>4, AskCellKeeps
<1>5. CASE Investigate \/ CrashCheck \/ \E c \in RefCells : CloseInvestigationOf(c)
  BY <1>5, RestKeeps
<1>6. CASE \E c \in RefCells : \E d \in RefDaysOf[c] :
             \E rain \in RainfallsOf[c], signed \in BOOLEAN : CloseRefDay(c, d, rain, signed)
  BY <1>6, CloseRefDayKeeps
<1>7. CASE UNCHANGED refVars
  BY <1>7 DEF refVars, ReferenceInv, RefTypeOK, JudgedOnce, AskingSigned, RowsAreOver, TurnsAreKept, RefRows, RefRow
<1> QED BY <1>1, <1>2, <1>3, <1>4, <1>5, <1>6, <1>7 DEF ReferenceNext

(* The latest of a set of days before a bound.                             *)
LEMMA LatestDay ==
  ASSUME NEW S \in SUBSET Nat, S # {}, NEW n \in Nat, \A x \in S : x < n
  PROVE  Max(S) \in S /\ \A x \in S : x <= Max(S)
<1> DEFINE Bounds == {u \in Nat : \A x \in S : x <= u}
<1>1. n \in Bounds
  OBVIOUS
<1>2. PICK u \in Bounds : \A v \in Bounds : ~(v < u)
  <2>1. IsWellFoundedOn(OpToRel(<, Nat), Nat)
    BY NatLessThanWellFounded
  <2>2. PICK u \in Bounds : \A v \in Bounds : ~(<<v, u>> \in OpToRel(<, Nat))
    <3> HIDE DEF Bounds
    <3>1. Bounds \subseteq Nat
      BY DEF Bounds
    <3> QED BY <1>1, <2>1, <3>1, WFMin
  <2> QED BY <2>2 DEF OpToRel
<1>3. u \in S
  <2> SUFFICES ASSUME u \notin S PROVE FALSE
    OBVIOUS
  <2>1. \A x \in S : x < u
    BY <1>2
  <2>2. u > 0
    <3>1. PICK x \in S : x \in Nat
      OBVIOUS
    <3> QED BY <2>1, <3>1
  <2>3. u - 1 \in Nat
    BY <2>2
  <2>4. \A x \in S : x <= u - 1
    BY <2>1, <2>3
  <2> QED BY <1>2, <2>3, <2>4
<1>4. \A y \in S : u >= y
  BY <1>2
<1> QED BY <1>3, <1>4 DEF Max

(* A day that was over at a moment comes before that moment's day.         *)
LEMMA OverBeforeToday ==
  ASSUME NEW d \in Nat, NEW t \in Nat, From(d + 1) <= t
  PROVE  d < RefToday(t) /\ RefToday(t) \in Nat
<1>1. RefDayTicks \in Nat /\ RefDayTicks > 0
  BY ReferenceAssumption
<1>2. RefToday(t) \in Nat /\ t < RefDayTicks * RefToday(t) + RefDayTicks
  BY <1>1, Quotient DEF RefToday
<1> DEFINE q == RefToday(t)
<1>3. SUFFICES ASSUME q <= d PROVE FALSE
  BY <1>2
<1> HIDE DEF q
<1>4. RefDayTicks * q <= RefDayTicks * d
  <2>1. d - q \in Nat /\ q \in Nat
    BY <1>2, <1>3 DEF q
  <2>2. RefDayTicks * (d - q) >= 0
    BY <1>1, <2>1
  <2>3. RefDayTicks * d = RefDayTicks * q + RefDayTicks * (d - q)
    BY <1>1, <2>1
  <2>4. RefDayTicks * d \in Int /\ RefDayTicks * q \in Int /\ RefDayTicks * (d - q) \in Int
    BY <1>1, <2>1
  <2> QED BY <2>2, <2>3, <2>4
<1>5. (d + 1) * RefDayTicks = RefDayTicks * d + RefDayTicks
  BY <1>1
<1>6. RefDayTicks * q \in Int /\ RefDayTicks * d \in Int
  BY <1>1, <1>2 DEF q
<1> QED BY <1>1, <1>2, <1>4, <1>5, <1>6 DEF From, q

(* What the worker names was signed before its attempt began, so the log   *)
(* of the chain is no further than that and still answers for it.          *)
LEMMA NamedAreAccepted == ReferenceInv => NamedDaysAreAccepted
<1> SUFFICES ASSUME ReferenceInv, checking.step = "asked", NEW c \in RefCells,
                    NEW today, today = RefToday(checking.at),
                    NEW named, named = InvestigationDays(c, today), named # {}
             PROVE  CheckDisputedDays(named, c, today)
  BY DEF NamedDaysAreAccepted
<1> DEFINE recorded == {x \in RefRows(c) : RefRow(c, x).signed}
<1>1. /\ Cardinality(named) >= DisputedDays
      /\ \A d \in named : /\ d \in RefRows(c) /\ RefRow(c, d).state = "Dry" /\ RefRow(c, d).reference = "disputed"
                         /\ d < today /\ today - d <= DisputesWindow
  <2> DEFINE inWindow == {d \in DisputedDryDays(c, Max({0, today - DisputesWindow})) :
                            d < today /\ today - d <= DisputesWindow}
  <2>1. named = inWindow /\ Cardinality(inWindow) >= DisputedDays
    BY DEF InvestigationDays
  <2> QED BY <2>1 DEF DisputedDryDays
<1>2. checking \in Checkings /\ checking # Idle /\ checking.at \in Nat
  BY DEF ReferenceInv, RefTypeOK, Checkings, Idle
<1>3. \A d \in RefRows(c) : d \in Nat /\ d < today
  BY <1>2, OverBeforeToday DEF ReferenceInv, RefTypeOK, RowsAreOver
<1>4. today \in Nat
  BY <1>2, Quotient, ReferenceAssumption DEF RefToday
<1>5. ASSUME NEW d \in named PROVE ChainDry(c, d)
  <2>1. d \in recorded
    BY <1>1 DEF ReferenceInv, JudgedOnce
  <2>2. Max(recorded) \in recorded
    BY <1>3, <1>4, <2>1, LatestDay
  <2>3. Max(recorded) \in Nat /\ Max(recorded) < today
    BY <1>3, <2>2
  <2>4. Max(recorded) - d < DisputesWindow
    BY <1>1, <1>3, <1>4, <2>3, ReferenceAssumption
  <2> QED BY <1>1, <2>1, <2>4 DEF ChainDry
<1> QED BY <1>1, <1>5 DEF CheckDisputedDays

(* The inductive invariant: a day with a total was judged by it and is on  *)
(* chain; the days asked about are on chain; every row was over when the   *)
(* attempt began; nobody waits longer than the cells that passed it.       *)
THEOREM ReferenceInvariance == ReferenceSpec => []ReferenceInv
BY ReferenceInitInv, ReferenceNextInv, PTL DEF ReferenceSpec

(* An investigation opens on days that were judged on the label the chain  *)
(* holds, and the program takes the days that are named, whatever the      *)
(* source answered and however often the check failed or its process died  *)
(* (reference.ts, investigate.ts, investigation.rs).                       *)
THEOREM VerdictsAlwaysReachTheProgram == ReferenceSpec => []VerdictsReachTheProgram
<1>1. ReferenceInv => VerdictsAreOfTheLog
  BY DEF ReferenceInv, JudgedOnce, VerdictsAreOfTheLog
<1>2. ReferenceInv => VerdictsReachTheProgram
  BY <1>1, NamedAreAccepted DEF VerdictsReachTheProgram
<1> QED BY <1>2, ReferenceInvariance, PTL

(* No cell starves behind a source that hangs or a budget that ends: each  *)
(* of the others is asked at most once before it, for any number of cells  *)
(* (fromAfter in reference.ts).                                            *)
THEOREM NoCellEverStarves == ReferenceSpec => []NoCellStarves
<1>1. ReferenceInv => NoCellStarves
  <2> SUFFICES ASSUME ReferenceInv, NEW c \in RefCells PROVE waited[c] < Cardinality(RefCells)
    BY DEF NoCellStarves
  <2>1. waited[c] \in Nat /\ lastAsked \in RefCells \cup {-1} /\ waited[c] <= Cardinality(PassedSince(c, lastAsked))
    BY DEF ReferenceInv, RefTypeOK, TurnsAreKept
  <2>2. Cardinality(RefCells) \in Nat
    BY ReferenceAssumption, FS_CardinalityType
  <2> QED BY <2>1, <2>2, NeverPassedByItself
<1> QED BY <1>1, ReferenceInvariance, PTL

(***************************************************************************)
(* The scenario: what a run publishes, and who else has written in its     *)
(* days.                                                                   *)
(***************************************************************************)
LEMMA MinOfTwo ==
  ASSUME NEW a \in Int, NEW b \in Int
  PROVE  Min({a, b}) = IF a <= b THEN a ELSE b
<1>1. CASE a <= b
  BY <1>1 DEF Min
<1>2. CASE b < a
  BY <1>2 DEF Min
<1> QED BY <1>1, <1>2

LEMMA HighestCounter ==
  ASSUME NEW S \in SUBSET Nat, IsFiniteSet(S), S # {}
  PROVE  Max(S) \in Nat /\ \A x \in S : x <= Max(S)
<1> DEFINE Bounded == {s \in SUBSET S : \E n \in Nat : \A x \in s : x < n}
<1>1. {} \in Bounded
  OBVIOUS
<1>2. \A s \in SUBSET S : \A x \in S \ s : s \in Bounded => s \cup {x} \in Bounded
  <2> SUFFICES ASSUME NEW s \in SUBSET S, NEW x \in S, NEW n \in Nat, \A y \in s : y < n
               PROVE  \E m \in Nat : \A y \in s \cup {x} : y < m
    OBVIOUS
  <2>1. n + x + 1 \in Nat /\ \A y \in s \cup {x} : y < n + x + 1
    OBVIOUS
  <2> QED BY <2>1
<1>3. S \in Bounded
  <2> HIDE DEF Bounded
  <2> QED BY <1>1, <1>2, SubsetInduction
<1>4. PICK n \in Nat : \A x \in S : x < n
  BY <1>3
<1> QED BY <1>4, LatestDay

LEMMA RemovedOne ==
  ASSUME NEW X, NEW q \in Seq(X), NEW k \in DOMAIN q
  PROVE  /\ RemoveAt(q, k) \in Seq(X)
         /\ \A p \in DOMAIN RemoveAt(q, k) :
              /\ (IF p < k THEN p ELSE p + 1) \in DOMAIN q
              /\ (IF p < k THEN p ELSE p + 1) # k
              /\ RemoveAt(q, k)[p] = q[IF p < k THEN p ELSE p + 1]
         /\ \A i, j \in DOMAIN RemoveAt(q, k) : i # j =>
              (IF i < k THEN i ELSE i + 1) # (IF j < k THEN j ELSE j + 1)
<1> DEFINE n == Len(q)
           before == SubSeq(q, 1, k - 1)
           after  == SubSeq(q, k + 1, n)
<1>1. n \in Nat /\ DOMAIN q = 1 .. n /\ \A p \in 1 .. n : q[p] \in X
  OBVIOUS
<1>2. before \in Seq(X) /\ Len(before) = k - 1 /\ \A p \in 1 .. k - 1 : before[p] = q[p]
  BY <1>1
<1>3. after \in Seq(X) /\ Len(after) = n - k /\ \A p \in 1 .. n - k : after[p] = q[k + p]
  <2>1. k + 1 \in Int /\ n \in Int /\ \A i \in k + 1 .. n : q[i] \in X
    BY <1>1
  <2>2. /\ after \in Seq(X)
        /\ Len(after) = IF k + 1 <= n THEN n - (k + 1) + 1 ELSE 0
        /\ \A i \in 1 .. n - (k + 1) + 1 : after[i] = q[(k + 1) + i - 1]
    <3> HIDE DEF n
    <3> QED BY <2>1, SubSeqProperties
  <2> HIDE DEF after
  <2>3. \A p \in 1 .. n - k : (k + 1) + p - 1 = k + p
    BY <1>1
  <2> QED BY <1>1, <2>2, <2>3
<1>4. RemoveAt(q, k) = before \o after
  BY DEF RemoveAt
<1> HIDE DEF before, after, n
<1>5. RemoveAt(q, k) \in Seq(X) /\ DOMAIN RemoveAt(q, k) = 1 .. n - 1
  <2>1. before \o after \in Seq(X) /\ Len(before \o after) = Len(before) + Len(after)
    BY <1>2, <1>3, ConcatProperties
  <2>2. Len(before) + Len(after) = n - 1
    BY <1>1, <1>2, <1>3
  <2> QED BY <1>4, <2>1, <2>2
<1>6. ASSUME NEW p \in 1 .. n - 1
      PROVE  RemoveAt(q, k)[p] = q[IF p < k THEN p ELSE p + 1]
  <2>1. p \in 1 .. Len(before) + Len(after)
    BY <1>1, <1>2, <1>3
  <2>2. RemoveAt(q, k)[p] = IF p <= Len(before) THEN before[p] ELSE after[p - Len(before)]
    BY <1>2, <1>3, <1>4, <2>1, ConcatProperties
  <2>3. CASE p < k
    BY <1>1, <1>2, <2>2, <2>3
  <2>4. CASE p >= k
    <3>1. p - (k - 1) \in 1 .. n - k /\ k + (p - (k - 1)) = p + 1
      BY <1>1, <2>4
    <3>2. RemoveAt(q, k)[p] = after[p - (k - 1)]
      BY <1>1, <1>2, <2>2, <2>4
    <3>3. after[p - (k - 1)] = q[p + 1]
      BY <1>3, <3>1
    <3> QED BY <1>1, <2>4, <3>2, <3>3
  <2> QED BY <1>1, <2>3, <2>4
<1>7. ASSUME NEW p \in 1 .. n - 1
      PROVE  (IF p < k THEN p ELSE p + 1) \in DOMAIN q /\ (IF p < k THEN p ELSE p + 1) # k
  BY <1>1
<1>8. ASSUME NEW i \in 1 .. n - 1, NEW j \in 1 .. n - 1, i # j
      PROVE  (IF i < k THEN i ELSE i + 1) # (IF j < k THEN j ELSE j + 1)
  BY <1>1, <1>8
<1> QED BY <1>5, <1>6, <1>7, <1>8

PublishedReadings == [counter : Nat, day : Nat, at : Int]

LEMMA IntervalsStart ==
  ASSUME NEW genesis \in Int, NEW day \in Nat, NEW i \in Nat
  PROVE  /\ DemoIntervalStart(genesis, day, i) \in Int /\ day * DayOfTicks \in Nat
         /\ genesis + day * DayOfTicks <= DemoIntervalStart(genesis, day, i)
<1>1. DayOfTicks \in Nat \ {0} /\ IntervalsOfDay \in Nat \ {0}
  BY DemoAssumption
<1>2. i * DayOfTicks \in Nat /\ day * DayOfTicks \in Nat
  BY <1>1
<1>3. (i * DayOfTicks) \div IntervalsOfDay \in Nat
  BY <1>1, <1>2, Quotient
<1> QED BY <1>2, <1>3 DEF DemoIntervalStart

(* A run's readings go on from the counter, from the day it begins with.   *)
LEMMA ReadingsGoOn ==
  ASSUME NEW genesis \in Int, NEW dayOffset \in Nat, NEW counter \in Nat
  PROVE  LET q == ScenarioReadings(genesis, dayOffset, counter) IN
         /\ q \in Seq(PublishedReadings)
         /\ \A p \in DOMAIN q : /\ q[p].counter = counter + p /\ p \in Nat \ {0} /\ q[p].day >= dayOffset
                                /\ genesis + q[p].day * DayOfTicks <= q[p].at
<1> DEFINE S == {m \in (0 .. ProgrammeDays - 1) \X (0 .. IntervalsOfDay - 1) : m[2] >= StretchOf(m[1]).silent}
           n == Cardinality(S)
           first(m, k) == m[1] < k[1] \/ (m[1] = k[1] /\ m[2] < k[2])
           below == [y \in S |-> {x \in S : first(x, y)}]
<1>1. ProgrammeDays \in Nat /\ IntervalsOfDay \in Nat
  <2>1. IsFiniteSet(DOMAIN Programme) /\ \A i \in DOMAIN Programme : Programme[i].days \in Nat
    <3>1. Programme \in Seq(Range(Programme)) /\ \A i \in DOMAIN Programme : Programme[i].days \in Nat
      BY DemoAssumption
    <3>2. DOMAIN Programme = 1 .. Len(Programme) /\ Len(Programme) \in Nat
      BY <3>1
    <3> QED BY <3>1, <3>2, FS_Interval
  <2> DEFINE lengths == [i \in DOMAIN Programme |-> Programme[i].days]
  <2>2. DOMAIN lengths = DOMAIN Programme /\ \A i \in DOMAIN Programme : lengths[i] \in Nat
    BY <2>1
  <2>3. ProgrammeDays = SumFunctionOnSet(lengths, DOMAIN lengths)
    BY DEF ProgrammeDays, SumFunction
  <2> HIDE DEF lengths
  <2>4. SumFunctionOnSet(lengths, DOMAIN lengths) \in Nat
    BY <2>1, <2>2, SumType
  <2> QED BY <2>3, <2>4, DemoAssumption
<1>2. IsFiniteSet(S) /\ S \subseteq Nat \X Nat
  <2>1. ProgrammeDays - 1 \in Int /\ IntervalsOfDay - 1 \in Int
    BY <1>1
  <2>2. IsFiniteSet(0 .. ProgrammeDays - 1) /\ IsFiniteSet(0 .. IntervalsOfDay - 1)
    BY <2>1, FS_Interval
  <2>3. IsFiniteSet((0 .. ProgrammeDays - 1) \X (0 .. IntervalsOfDay - 1))
    BY <2>2, FS_Product
  <2>4. S \subseteq (0 .. ProgrammeDays - 1) \X (0 .. IntervalsOfDay - 1)
    OBVIOUS
  <2>5. 0 .. ProgrammeDays - 1 \subseteq Nat /\ 0 .. IntervalsOfDay - 1 \subseteq Nat
    BY <2>1
  <2> HIDE DEF S
  <2> QED BY <2>3, <2>4, <2>5, FS_Subset
<1>3. n \in Nat
  BY <1>2, FS_CardinalityType
<1>4. below \in [S -> SUBSET S]
  OBVIOUS
<1> HIDE DEF S
<1>5. \A x \in S : x \notin below[x]
  BY <1>2
<1>6. \A x, y \in S : x = y \/ x \in below[y] \/ y \in below[x]
  BY <1>2
<1>7. \A x, y \in S : x \in below[y] => below[x] \subseteq below[y]
  BY <1>2
<1>8. PICK order \in [1 .. n -> S] :
        \A k \in 1 .. n, x \in S : Cardinality(below[x]) = k - 1 <=> x = order[k]
  <2> HIDE DEF below
  <2>1. IsFiniteSet(S) /\ ComparesAny(below, S)
    BY <1>2, <1>4, <1>5, <1>6, <1>7 DEF ComparesAny
  <2>2. PICK order : Enumerates(order, below, S)
    BY <2>1, RanksOfAnOrder
  <2> QED BY <2>2 DEF Enumerates
<1> HIDE DEF n
<1>9. ASSUME NEW k \in 1 .. n
      PROVE  (CHOOSE x \in S : Cardinality({y \in S : first(y, x)}) = k - 1) = order[k]
  <2>1. \A x \in S : Cardinality({y \in S : first(y, x)}) = k - 1 <=> x = order[k]
    BY <1>8
  <2>2. order[k] \in S
    BY <1>8
  <2> HIDE DEF below, first
  <2> QED BY <2>1, <2>2
<1> DEFINE q == ScenarioReadings(genesis, dayOffset, counter)
           reading(k) == [counter |-> counter + k, day |-> dayOffset + order[k][1],
                          at |-> DemoIntervalStart(genesis, dayOffset + order[k][1], order[k][2])]
<1>10. q = [k \in 1 .. n |-> reading(k)]
  <2> DEFINE ordered == [k \in 1 .. n |-> CHOOSE x \in S : Cardinality({y \in S : first(y, x)}) = k - 1]
  <2>1. q = [k \in DOMAIN ordered |->
               [counter |-> counter + k, day |-> dayOffset + ordered[k][1],
                at |-> DemoIntervalStart(genesis, dayOffset + ordered[k][1], ordered[k][2])]]
    BY DEF ScenarioReadings, ByRank, S, n
  <2>2. DOMAIN ordered = 1 .. n /\ \A k \in 1 .. n : ordered[k] = order[k]
    BY <1>9
  <2> HIDE DEF ordered, q
  <2> QED BY <2>1, <2>2
<1>11. ASSUME NEW k \in 1 .. n
       PROVE  /\ reading(k) \in PublishedReadings /\ reading(k).counter = counter + k /\ k \in Nat \ {0}
              /\ reading(k).day >= dayOffset /\ genesis + reading(k).day * DayOfTicks <= reading(k).at
  <2>1. order[k][1] \in Nat /\ order[k][2] \in Nat
    BY <1>2, <1>8
  <2>2. dayOffset + order[k][1] \in Nat /\ dayOffset + order[k][1] >= dayOffset
    BY <2>1
  <2>3. k \in Nat \ {0} /\ counter + k \in Nat
    BY <1>3
  <2> QED BY <2>1, <2>2, <2>3, IntervalsStart DEF PublishedReadings
<1> HIDE DEF q, reading
<1>12. q \in Seq(PublishedReadings) /\ DOMAIN q = 1 .. n
  <2>1. q \in [1 .. n -> PublishedReadings]
    BY <1>10, <1>11
  <2> QED BY <1>3, <2>1
<1> QED BY <1>10, <1>11, <1>12 DEF q

RunStates ==
  {NoRun} \cup [phase : {"checking"}, at : Nat, genesis : Int]
  \cup [phase : {"counted"}, at : Nat, genesis : Int, counter : Nat]
  \cup [phase : {"signing", "running"}, genesis : Int, readings : Seq(PublishedReadings)]
  \cup [phase : {"refused", "done", "failed"}]

TableRows == [counter : Nat, day : Nat, genesis : Int, run : Requests]

ScenarioTypeOK ==
  /\ demoNow \in Nat /\ active \in Requests \cup {Nobody} /\ raced \in BOOLEAN
  /\ runs \in [Requests -> RunStates]
  /\ table \subseteq TableRows /\ IsFiniteSet(table)
  /\ refused \subseteq Requests

UnderWay(r) == runs[r].phase \in Preparing \cup {"running"}
HasReadings(r) == runs[r].phase \in {"signing", "running"}

(* Nothing is published before its day begins.                             *)
NothingBeforeItsDay ==
  /\ \A x \in table : x.genesis + x.day * DayOfTicks <= demoNow
  /\ \A r \in Requests : HasReadings(r) => \A p \in DOMAIN runs[r].readings :
       runs[r].genesis + runs[r].readings[p].day * DayOfTicks <= runs[r].readings[p].at

(* The run under way is the only one, and knows all there is: whatever the *)
(* table holds is before its counter, and nobody else has written in a day *)
(* it will write in, by its clock.  Where the days begin with the request  *)
(* or after it, nothing is counted from there yet.                         *)
OnlyWriter ==
  /\ \A r, x \in Requests : UnderWay(r) /\ UnderWay(x) => r = x
  /\ \A r \in Requests : runs[r].phase = "running" => active = r
  /\ \A r \in Requests : runs[r].phase \in {"checking", "counted"} /\ runs[r].at <= runs[r].genesis =>
       \A x \in table : x.genesis # runs[r].genesis
  /\ \A r \in Requests : runs[r].phase = "counted" => \A x \in table : x.counter <= runs[r].counter
  /\ \A r \in Requests : HasReadings(r) =>
       /\ \A p \in DOMAIN runs[r].readings : \A x \in table :
            /\ x.counter # runs[r].readings[p].counter
            /\ x.genesis = runs[r].genesis /\ x.day = runs[r].readings[p].day => x.run = r
       /\ \A p, o \in DOMAIN runs[r].readings : p # o => runs[r].readings[p].counter # runs[r].readings[o].counter

ScenarioInv ==
  /\ ScenarioTypeOK /\ NothingBeforeItsDay
  /\ ~raced => OnlyWriter
  /\ RunsContinueEachOther

LEMMA ScenarioInitInv == ScenarioInit => ScenarioInv
<1> SUFFICES ASSUME ScenarioInit PROVE ScenarioInv
  OBVIOUS
<1>1. ScenarioTypeOK
  BY FS_EmptySet DEF ScenarioInit, ScenarioTypeOK, RunStates
<1>2. \A r \in Requests : runs[r].phase = "none"
  BY DEF ScenarioInit, NoRun
<1> QED BY <1>1, <1>2 DEF ScenarioInit, ScenarioInv, NothingBeforeItsDay, OnlyWriter, RunsContinueEachOther,
             UnderWay, HasReadings, Preparing

LEMMA RunPhases ==
  ASSUME ScenarioTypeOK, NEW r \in Requests
  PROVE  /\ runs[r].phase \in {"none", "checking", "counted", "signing", "running", "refused", "done", "failed"}
         /\ runs[r].phase = "none" => runs[r] = NoRun
         /\ runs[r].phase = "checking" => runs[r].at \in Nat /\ runs[r].genesis \in Int
         /\ runs[r].phase = "counted" => runs[r].at \in Nat /\ runs[r].genesis \in Int /\ runs[r].counter \in Nat
         /\ HasReadings(r) => /\ runs[r] = [phase |-> runs[r].phase, genesis |-> runs[r].genesis,
                                            readings |-> runs[r].readings]
                              /\ runs[r].genesis \in Int
                              /\ runs[r].readings \in Seq(PublishedReadings)
<1>1. runs[r] \in RunStates
  BY DEF ScenarioTypeOK
<1>2. CASE runs[r] = NoRun
  BY <1>2 DEF NoRun, HasReadings
<1>3. CASE runs[r] \in [phase : {"checking"}, at : Nat, genesis : Int]
  BY <1>3 DEF HasReadings
<1>4. CASE runs[r] \in [phase : {"counted"}, at : Nat, genesis : Int, counter : Nat]
  BY <1>4 DEF HasReadings
<1>5. CASE runs[r] \in [phase : {"signing", "running"}, genesis : Int, readings : Seq(PublishedReadings)]
  BY <1>5 DEF HasReadings
<1>6. CASE runs[r] \in [phase : {"refused", "done", "failed"}]
  BY <1>6 DEF HasReadings
<1> QED BY <1>1, <1>2, <1>3, <1>4, <1>5, <1>6 DEF RunStates

LEMMA OneRunMoves ==
  ASSUME ScenarioTypeOK, NEW r \in Requests, NEW state \in RunStates, runs' = [runs EXCEPT ![r] = state]
  PROVE  /\ runs' \in [Requests -> RunStates]
         /\ runs'[r] = state /\ \A x \in Requests : x # r => runs'[x] = runs[x]
BY DEF ScenarioTypeOK

LEMMA ScenarioTickKeeps == ASSUME ScenarioInv, ScenarioTick PROVE ScenarioInv'
<1>1. demoNow \in Nat /\ demoNow' = demoNow + 1 /\ UNCHANGED <<active, runs, table, refused, raced>>
  BY DEF ScenarioTick, ScenarioInv, ScenarioTypeOK
<1>2. ScenarioTypeOK'
  BY <1>1 DEF ScenarioInv, ScenarioTypeOK
<1>3. \A x \in table : x.genesis + x.day * DayOfTicks <= demoNow'
  <2> SUFFICES ASSUME NEW x \in table PROVE x.genesis + x.day * DayOfTicks <= demoNow'
    OBVIOUS
  <2>1. x.genesis \in Int /\ x.day \in Nat /\ DayOfTicks \in Nat
    BY DemoAssumption DEF ScenarioInv, ScenarioTypeOK, TableRows
  <2>2. x.genesis + x.day * DayOfTicks \in Int /\ x.genesis + x.day * DayOfTicks <= demoNow
    BY <2>1 DEF ScenarioInv, NothingBeforeItsDay
  <2> QED BY <1>1, <2>2
<1>4. NothingBeforeItsDay'
  BY <1>1, <1>3 DEF ScenarioInv, NothingBeforeItsDay, HasReadings
<1> QED BY <1>1, <1>2, <1>4 DEF ScenarioInv, OnlyWriter, UnderWay, HasReadings, RunsContinueEachOther

LEMMA RequestRunKeeps == ASSUME ScenarioInv, NEW r \in Requests, RequestRun(r) PROVE ScenarioInv'
<1>1. PICK genesis \in Int :
        /\ genesis = demoNow => \A x \in table : x.genesis # genesis
        /\ runs' = [runs EXCEPT ![r] = [phase |-> "checking", at |-> demoNow, genesis |-> genesis]]
  <2>1. PICK genesis \in Geneses \cup {demoNow} :
          /\ genesis = demoNow => \A x \in table : x.genesis # genesis
          /\ runs' = [runs EXCEPT ![r] = [phase |-> "checking", at |-> demoNow, genesis |-> genesis]]
    BY DEF RequestRun
  <2>2. genesis \in Int
    <3>1. demoNow \in Int
      BY DEF ScenarioInv, ScenarioTypeOK
    <3>2. Geneses \subseteq Int
      BY DemoAssumption
    <3> QED BY <3>1, <3>2
  <2> QED BY <2>1, <2>2
<1> DEFINE state == [phase |-> "checking", at |-> demoNow, genesis |-> genesis]
<1>2. /\ state \in RunStates /\ state.phase = "checking" /\ state.at = demoNow /\ state.genesis = genesis
      /\ state # NoRun
  BY DEF ScenarioInv, ScenarioTypeOK, RunStates, NoRun
<1>8. /\ active = Nobody /\ runs' = [runs EXCEPT ![r] = state]
      /\ raced' = (raced \/ \E x \in Requests : runs[x].phase \in Preparing)
      /\ UNCHANGED <<demoNow, active, table, refused>>
  BY <1>1 DEF RequestRun
<1> HIDE DEF state
<1>3. runs' \in [Requests -> RunStates] /\ runs'[r] = state /\ \A x \in Requests : x # r => runs'[x] = runs[x]
  BY <1>2, <1>8, OneRunMoves DEF ScenarioInv
<1>4. ScenarioTypeOK'
  BY <1>3, <1>8 DEF ScenarioInv, ScenarioTypeOK
<1>5. NothingBeforeItsDay'
  BY <1>2, <1>3, <1>8 DEF ScenarioInv, NothingBeforeItsDay, HasReadings
<1>6. ASSUME ~raced' PROVE OnlyWriter'
  <2>1. ~raced /\ \A x \in Requests : runs[x].phase \notin Preparing
    BY <1>6, <1>8
  <2>2. OnlyWriter
    BY <2>1 DEF ScenarioInv
  <2>3. \A x \in Requests : ~UnderWay(x)
    <3>1. Nobody \notin Requests
      BY DemoAssumption DEF Nobody
    <3> QED BY <1>8, <2>1, <2>2, <3>1 DEF OnlyWriter, UnderWay
  <2>4. \A x \in Requests : x # r => ~UnderWay(x)' /\ ~HasReadings(x)' /\ runs'[x].phase \notin {"checking", "counted"}
    BY <1>3, <2>3 DEF UnderWay, HasReadings, Preparing
  <2>5. ASSUME demoNow <= genesis, NEW x \in table PROVE x.genesis # genesis
    <3>1. x.genesis \in Int /\ x.day \in Nat /\ DayOfTicks \in Nat /\ demoNow \in Nat
      BY DemoAssumption DEF ScenarioInv, ScenarioTypeOK, TableRows
    <3>2. x.day * DayOfTicks \in Nat /\ x.genesis + x.day * DayOfTicks <= demoNow
      BY <3>1 DEF ScenarioInv, NothingBeforeItsDay
    <3> QED BY <1>1, <2>5, <3>1, <3>2
  <2> QED BY <1>2, <1>3, <1>8, <2>4, <2>5 DEF OnlyWriter, UnderWay, HasReadings
<1>7. RunsContinueEachOther'
  BY <1>8 DEF ScenarioInv, RunsContinueEachOther
<1> QED BY <1>4, <1>5, <1>6, <1>7 DEF ScenarioInv

(* A run that is over, well or badly.                                      *)
LEMMA RunEnds ==
  ASSUME ScenarioInv, NEW r \in Requests, NEW phase \in {"refused", "done", "failed"},
         runs' = [runs EXCEPT ![r] = [phase |-> phase]], UNCHANGED <<demoNow, table, refused, raced>>,
         runs[r].phase # "none",
         active' \in Requests \cup {Nobody},
         \A x \in Requests : x # r /\ runs[x].phase = "running" /\ active = x => active' = x
  PROVE  ScenarioInv'
<1> DEFINE state == [phase |-> phase]
<1>1. state \in RunStates /\ state.phase = phase /\ state # NoRun
  BY DEF RunStates, NoRun
<1> HIDE DEF state
<1>2. runs' \in [Requests -> RunStates] /\ runs'[r] = state /\ \A x \in Requests : x # r => runs'[x] = runs[x]
  BY <1>1, OneRunMoves DEF ScenarioInv, state
<1>3. ScenarioTypeOK'
  BY <1>2 DEF ScenarioInv, ScenarioTypeOK
<1>4. ~UnderWay(r)' /\ ~HasReadings(r)' /\ runs'[r].phase \notin {"checking", "counted", "running"}
  BY <1>1, <1>2 DEF UnderWay, HasReadings, Preparing
<1>5. NothingBeforeItsDay'
  BY <1>1, <1>2, <1>4 DEF ScenarioInv, NothingBeforeItsDay, HasReadings
<1>6. ASSUME ~raced' PROVE OnlyWriter'
  <2>1. OnlyWriter
    BY <1>6 DEF ScenarioInv
  <2>2. \A x \in Requests : UnderWay(x)' => x # r /\ UnderWay(x)
    BY <1>2, <1>4 DEF UnderWay
  <2>3. \A x \in Requests : HasReadings(x)' => x # r /\ HasReadings(x) /\ runs'[x] = runs[x]
    BY <1>2, <1>4 DEF HasReadings
  <2>4. \A x \in Requests : runs'[x].phase \in {"checking", "counted", "running"} => x # r /\ runs'[x] = runs[x]
    BY <1>2, <1>4
  <2> QED BY <2>1, <2>2, <2>3, <2>4 DEF OnlyWriter
<1>7. RunsContinueEachOther'
  BY DEF ScenarioInv, RunsContinueEachOther
<1> QED BY <1>3, <1>5, <1>6, <1>7 DEF ScenarioInv

LEMMA RefuseRunKeeps == ASSUME ScenarioInv, NEW r \in Requests, RefuseRun(r) PROVE ScenarioInv'
<1>1. active' = active /\ active \in Requests \cup {Nobody}
  BY DEF RefuseRun, ScenarioInv, ScenarioTypeOK
<1> QED BY <1>1, RunEnds DEF RefuseRun

LEMMA EndRunKeeps == ASSUME ScenarioInv, NEW r \in Requests, EndRun(r) PROVE ScenarioInv'
<1>1. PICK phase \in {"refused", "done", "failed"} : runs' = [runs EXCEPT ![r] = [phase |-> phase]]
  BY DEF EndRun
<1>2. active' = (IF active = r THEN Nobody ELSE active) /\ active \in Requests \cup {Nobody}
  BY DEF EndRun, ScenarioInv, ScenarioTypeOK
<1> QED BY <1>1, <1>2, RunEnds DEF EndRun

LEMMA DaysSinceAreNatural ==
  ASSUME NEW genesis \in Int, NEW readyAt \in Nat
  PROVE  DaysSince(genesis, readyAt) \in Nat
<1>1. CASE readyAt > genesis
  <2>1. DaysSince(genesis, readyAt) = (readyAt - genesis) \div DayOfTicks
    BY <1>1, Zenon DEF DaysSince
  <2>2. readyAt - genesis \in Nat /\ DayOfTicks \in Nat \ {0}
    BY <1>1, DemoAssumption
  <2>3. (readyAt - genesis) \div DayOfTicks \in Nat
    BY <2>2, Quotient
  <2> QED BY <2>1, <2>3
<1>2. CASE ~(readyAt > genesis)
  <2>1. DaysSince(genesis, readyAt) = 0
    BY <1>2, Zenon DEF DaysSince
  <2> QED BY <2>1
<1> QED BY <1>1, <1>2

LEMMA NoCounterIsHigher ==
  ASSUME ScenarioTypeOK
  PROVE  LastCounter \in Nat /\ \A x \in table : x.counter <= LastCounter
<1> DEFINE counters == {x.counter : x \in table}
<1>1. IsFiniteSet(counters)
  <2> DEFINE f == [x \in table |-> x.counter]
  <2>1. f \in Surjection(table, counters)
    BY DEF Surjection
  <2> HIDE DEF f, counters
  <2> QED BY <2>1, FS_Surjection DEF ScenarioTypeOK
<1>2. IsFiniteSet({0} \cup counters) /\ {0} \cup counters \in SUBSET Nat /\ {0} \cup counters # {}
  <2>1. IsFiniteSet(counters \cup {0})
    BY <1>1, FS_AddElement
  <2>2. counters \cup {0} = {0} \cup counters
    OBVIOUS
  <2>3. IsFiniteSet({0} \cup counters)
    BY <2>1, <2>2
  <2>4. counters \subseteq Nat
    BY DEF ScenarioTypeOK, TableRows
  <2>5. {0} \cup counters \in SUBSET Nat /\ {0} \cup counters # {}
    <3> HIDE DEF counters
    <3> QED BY <2>4
  <2> QED BY <2>3, <2>5
<1>3. LastCounter = Max({0} \cup counters)
  BY DEF LastCounter
<1>4. LastCounter \in Nat /\ \A c \in {0} \cup counters : c <= LastCounter
  <2> HIDE DEF counters
  <2> QED BY <1>2, <1>3, HighestCounter
<1> QED BY <1>4

LEMMA ReadCountersKeeps == ASSUME ScenarioInv, NEW r \in Requests, ReadCounters(r) PROVE ScenarioInv'
<1> DEFINE state == [phase |-> "counted", at |-> runs[r].at, genesis |-> runs[r].genesis, counter |-> LastCounter]
<1>1. runs[r].phase = "checking" /\ UNCHANGED <<demoNow, active, table, refused, raced>>
  BY DEF ReadCounters
<1>2. runs' = [runs EXCEPT ![r] = state]
  BY DEF ReadCounters, ScenarioInv, ScenarioTypeOK
<1>3. LastCounter \in Nat /\ \A x \in table : x.counter <= LastCounter
  BY NoCounterIsHigher DEF ScenarioInv
<1>4. /\ state \in RunStates /\ state.phase = "counted" /\ state.at = runs[r].at
      /\ state.genesis = runs[r].genesis /\ state.counter = LastCounter /\ state # NoRun
  <2>1. runs[r].at \in Nat /\ runs[r].genesis \in Int
    BY <1>1, RunPhases DEF ScenarioInv
  <2> QED BY <1>3, <2>1 DEF RunStates, NoRun
<1> HIDE DEF state
<1>5. runs' \in [Requests -> RunStates] /\ runs'[r] = state /\ \A x \in Requests : x # r => runs'[x] = runs[x]
  BY <1>2, <1>4, OneRunMoves DEF ScenarioInv
<1>6. ScenarioTypeOK'
  BY <1>1, <1>5 DEF ScenarioInv, ScenarioTypeOK
<1>7. NothingBeforeItsDay'
  <2>1. \A x \in Requests : HasReadings(x)' => HasReadings(x) /\ runs'[x] = runs[x]
    BY <1>4, <1>5 DEF HasReadings
  <2> QED BY <1>1, <2>1 DEF ScenarioInv, NothingBeforeItsDay
<1>8. ASSUME ~raced' PROVE OnlyWriter'
  <2>1. OnlyWriter
    BY <1>1, <1>8 DEF ScenarioInv
  <2>2. \A x \in Requests : UnderWay(x)' => UnderWay(x)
    BY <1>1, <1>5 DEF UnderWay, Preparing
  <2>3. \A x \in Requests : HasReadings(x)' => HasReadings(x) /\ runs'[x] = runs[x]
    BY <1>4, <1>5 DEF HasReadings
  <2>4. \A x \in Requests : runs'[x].phase = "running" => runs[x].phase = "running"
    BY <1>4, <1>5
  <2>5. \A x \in Requests : runs'[x].phase \in {"checking", "counted"} =>
          /\ runs[x].phase \in {"checking", "counted"}
          /\ runs'[x].at = runs[x].at /\ runs'[x].genesis = runs[x].genesis
    BY <1>1, <1>4, <1>5
  <2>6. \A x \in Requests : runs'[x].phase = "counted" => \A y \in table : y.counter <= runs'[x].counter
    BY <1>3, <1>4, <1>5, <2>1 DEF OnlyWriter
  <2> QED BY <1>1, <2>1, <2>2, <2>3, <2>4, <2>5, <2>6 DEF OnlyWriter
<1>9. RunsContinueEachOther'
  BY <1>1 DEF ScenarioInv, RunsContinueEachOther
<1> QED BY <1>6, <1>7, <1>8, <1>9 DEF ScenarioInv

(* The day a run begins with has not begun yet, where days were counted    *)
(* from its genesis before: nobody can have written in it.                 *)
LEMMA DayBeginsLater ==
  ASSUME NEW genesis \in Int, NEW at \in Nat, NEW time \in Nat, NEW estimate \in Nat, NEW day \in Nat,
         genesis + day * DayOfTicks <= time, at > genesis
  PROVE  day < ScenarioStart(genesis, at, time + estimate)
<1> DEFINE q == DaysSince(genesis, time + estimate)
           n == DayOfTicks
<1>1. n \in Nat \ {0}
  BY DemoAssumption
<1>2. q \in Nat /\ time + estimate - genesis < n * q + n
  <2>1. CASE time + estimate > genesis
    <3>1. time + estimate - genesis \in Nat /\ q = (time + estimate - genesis) \div n
      BY <2>1 DEF DaysSince
    <3> HIDE DEF q, n
    <3> QED BY <1>1, <3>1, Quotient
  <2>2. CASE ~(time + estimate > genesis)
    BY <1>1, <2>2 DEF DaysSince
  <2> QED BY <2>1, <2>2
<1>3. ScenarioStart(genesis, at, time + estimate) = q + 1
  BY DEF ScenarioStart
<1> HIDE DEF q, n
<1>4. ASSUME q + 1 <= day PROVE FALSE
  <2>1. n * (q + 1) <= n * day /\ n * day = day * n
    BY <1>1, <1>2, <1>4
  <2>2. n * (q + 1) = n * q + n /\ n * q \in Nat /\ n * day \in Nat
    BY <1>1, <1>2
  <2> QED BY <1>1, <1>2, <2>1, <2>2 DEF n
<1> QED BY <1>2, <1>3, <1>4

LEMMA ChooseDayKeeps == ASSUME ScenarioInv, NEW r \in Requests, ChooseDay(r) PROVE ScenarioInv'
<1>1. runs[r].phase = "counted" /\ UNCHANGED <<demoNow, active, table, refused, raced>>
  BY DEF ChooseDay
<1>2. PICK estimate \in 0 .. MaxSigning :
        runs' = [runs EXCEPT ![r] =
          [phase |-> "signing", genesis |-> runs[r].genesis,
           readings |-> ScenarioReadings(runs[r].genesis,
                          ScenarioStart(runs[r].genesis, runs[r].at, demoNow + estimate), runs[r].counter)]]
  BY DEF ChooseDay, ScenarioInv, ScenarioTypeOK
<1> DEFINE genesis == runs[r].genesis
           start == ScenarioStart(genesis, runs[r].at, demoNow + estimate)
           q == ScenarioReadings(genesis, start, runs[r].counter)
           state == [phase |-> "signing", genesis |-> genesis, readings |-> q]
<1>3. /\ runs[r].at \in Nat /\ genesis \in Int /\ runs[r].counter \in Nat
      /\ demoNow \in Nat /\ estimate \in Nat
  <2>1. runs[r].at \in Nat /\ genesis \in Int /\ runs[r].counter \in Nat
    BY <1>1, RunPhases DEF ScenarioInv
  <2>2. demoNow \in Nat /\ estimate \in Nat
    BY DemoAssumption DEF ScenarioInv, ScenarioTypeOK
  <2> QED BY <2>1, <2>2
<1> HIDE DEF genesis
<1>4. start \in Nat
  <2>1. DaysSince(genesis, demoNow + estimate) \in Nat
    <3>1. demoNow + estimate \in Nat
      BY <1>3
    <3> QED BY <1>3, <3>1, DaysSinceAreNatural
  <2> QED BY <2>1 DEF ScenarioStart
<1>5. /\ q \in Seq(PublishedReadings)
      /\ \A p \in DOMAIN q : /\ q[p].counter = runs[r].counter + p /\ p \in Nat \ {0} /\ q[p].day >= start
                             /\ genesis + q[p].day * DayOfTicks <= q[p].at
  BY <1>3, <1>4, ReadingsGoOn
<1>6. \A p \in DOMAIN q : q[p].day \in Nat
  <2> HIDE DEF q
  <2>1. \A p \in DOMAIN q : q[p] \in PublishedReadings
    BY <1>5
  <2> QED BY <2>1 DEF PublishedReadings
<1> HIDE DEF q
<1>7. state \in RunStates /\ state.phase = "signing" /\ state.genesis = genesis /\ state.readings = q /\ state # NoRun
  BY <1>3, <1>5 DEF RunStates, NoRun
<1>8. runs' = [runs EXCEPT ![r] = state]
  BY <1>2 DEF q, genesis
<1> HIDE DEF state
<1>9. runs' \in [Requests -> RunStates] /\ runs'[r] = state /\ \A x \in Requests : x # r => runs'[x] = runs[x]
  BY <1>7, <1>8, OneRunMoves DEF ScenarioInv
<1>10. ScenarioTypeOK'
  BY <1>1, <1>9 DEF ScenarioInv, ScenarioTypeOK
<1>11. NothingBeforeItsDay'
  <2>1. \A x \in Requests : HasReadings(x)' => \A p \in DOMAIN runs'[x].readings :
          runs'[x].genesis + runs'[x].readings[p].day * DayOfTicks <= runs'[x].readings[p].at
    BY <1>5, <1>7, <1>9 DEF ScenarioInv, NothingBeforeItsDay, HasReadings
  <2> QED BY <1>1, <2>1 DEF ScenarioInv, NothingBeforeItsDay
<1>12. ASSUME ~raced' PROVE OnlyWriter'
  <2>1. OnlyWriter
    BY <1>1, <1>12 DEF ScenarioInv
  <2>2. \A x \in Requests : UnderWay(x)' => UnderWay(x)
    BY <1>1, <1>9 DEF UnderWay, Preparing
  <2>3. \A x \in Requests : runs'[x].phase \in {"checking", "counted", "running"} => x # r /\ runs'[x] = runs[x]
    BY <1>7, <1>9
  <2>4. ASSUME NEW p \in DOMAIN q, NEW y \in table
        PROVE  y.counter # q[p].counter /\ (y.genesis = genesis => y.day # q[p].day)
    <3>1. y.counter \in Nat /\ y.day \in Nat /\ y.genesis + y.day * DayOfTicks <= demoNow
      BY DEF ScenarioInv, ScenarioTypeOK, TableRows, NothingBeforeItsDay
    <3>2. y.counter <= runs[r].counter /\ (runs[r].at <= genesis => y.genesis # genesis)
      BY <1>1, <2>1 DEF OnlyWriter, genesis
    <3>3. y.genesis = genesis => y.day < start
      <4> SUFFICES ASSUME y.genesis = genesis PROVE y.day < start
        OBVIOUS
      <4>1. runs[r].at > genesis
        BY <1>3, <3>2
      <4> QED BY <1>3, <3>1, <4>1, DayBeginsLater
    <3>4. q[p].counter = runs[r].counter + p /\ p \in Nat \ {0} /\ q[p].day >= start /\ q[p].day \in Nat
      BY <1>5, <1>6
    <3> QED BY <1>3, <1>4, <3>1, <3>2, <3>3, <3>4
  <2>5. \A p, o \in DOMAIN q : p # o => q[p].counter # q[o].counter
    BY <1>3, <1>5
  <2>6. ASSUME NEW x \in Requests, HasReadings(x)'
        PROVE /\ \A p \in DOMAIN runs'[x].readings : \A y \in table :
                   /\ y.counter # runs'[x].readings[p].counter
                   /\ y.genesis = runs'[x].genesis /\ y.day = runs'[x].readings[p].day => y.run = x
              /\ \A p, o \in DOMAIN runs'[x].readings :
                   p # o => runs'[x].readings[p].counter # runs'[x].readings[o].counter
    <3>1. CASE x = r
      BY <1>7, <1>9, <2>4, <2>5, <3>1
    <3>2. CASE x # r
      BY <1>9, <2>1, <2>6, <3>2 DEF OnlyWriter, HasReadings
    <3> QED BY <3>1, <3>2
  <2> QED BY <1>1, <2>1, <2>2, <2>3, <2>6 DEF OnlyWriter
<1>13. RunsContinueEachOther'
  BY <1>1 DEF ScenarioInv, RunsContinueEachOther
<1> QED BY <1>10, <1>11, <1>12, <1>13 DEF ScenarioInv

LEMMA LaunchRunKeeps == ASSUME ScenarioInv, NEW r \in Requests, LaunchRun(r) PROVE ScenarioInv'
<1> DEFINE state == [phase |-> "running", genesis |-> runs[r].genesis, readings |-> runs[r].readings]
<1>1. runs[r].phase = "signing" /\ active' = r /\ UNCHANGED <<demoNow, table, refused, raced>>
  BY DEF LaunchRun
<1>10. /\ runs[r] = [phase |-> "signing", genesis |-> runs[r].genesis, readings |-> runs[r].readings]
       /\ runs[r].genesis \in Int /\ runs[r].readings \in Seq(PublishedReadings)
  BY <1>1, RunPhases DEF ScenarioInv, HasReadings
<1>2. runs' = [runs EXCEPT ![r] = state]
  <2>1. runs' = [runs EXCEPT ![r] = [runs[r] EXCEPT !.phase = "running"]]
    BY DEF LaunchRun, ScenarioInv, ScenarioTypeOK
  <2> DEFINE q       == runs[r].readings
             genesis == runs[r].genesis
  <2>2. [runs[r] EXCEPT !.phase = "running"] = state
    <3>1. runs[r] = [phase |-> "signing", genesis |-> genesis, readings |-> q]
      BY <1>10
    <3>2. state = [phase |-> "running", genesis |-> genesis, readings |-> q]
      OBVIOUS
    <3> HIDE DEF q, genesis, state
    <3> QED BY <3>1, <3>2
  <2> QED BY <2>1, <2>2
<1>3. /\ state \in RunStates /\ state.phase = "running" /\ state.genesis = runs[r].genesis
      /\ state.readings = runs[r].readings /\ state # NoRun
  BY <1>10 DEF RunStates, NoRun
<1> HIDE DEF state
<1>4. runs' \in [Requests -> RunStates] /\ runs'[r] = state /\ \A x \in Requests : x # r => runs'[x] = runs[x]
  BY <1>2, <1>3, OneRunMoves DEF ScenarioInv
<1>5. ScenarioTypeOK'
  BY <1>1, <1>4 DEF ScenarioInv, ScenarioTypeOK
<1>6. \A x \in Requests : HasReadings(x)' =>
        HasReadings(x) /\ runs'[x].genesis = runs[x].genesis /\ runs'[x].readings = runs[x].readings
  BY <1>1, <1>3, <1>4 DEF HasReadings
<1>7. NothingBeforeItsDay'
  BY <1>1, <1>6 DEF ScenarioInv, NothingBeforeItsDay
<1>8. ASSUME ~raced' PROVE OnlyWriter'
  <2>1. OnlyWriter
    BY <1>1, <1>8 DEF ScenarioInv
  <2>2. \A x \in Requests : UnderWay(x)' => UnderWay(x)
    BY <1>1, <1>4 DEF UnderWay, Preparing
  <2>3. \A x \in Requests : runs'[x].phase \in {"checking", "counted"} => x # r /\ runs'[x] = runs[x]
    BY <1>3, <1>4
  <2>4. \A x \in Requests : runs'[x].phase = "running" => active' = x
    <3> SUFFICES ASSUME NEW x \in Requests, runs'[x].phase = "running" PROVE x = r
      BY <1>1
    <3>1. UnderWay(x)' /\ UnderWay(r)
      BY <1>1 DEF UnderWay, Preparing
    <3> QED BY <2>1, <2>2, <3>1 DEF OnlyWriter
  <2> QED BY <1>1, <1>6, <2>1, <2>2, <2>3, <2>4 DEF OnlyWriter
<1>9. RunsContinueEachOther'
  BY <1>1 DEF ScenarioInv, RunsContinueEachOther
<1> QED BY <1>5, <1>7, <1>8, <1>9 DEF ScenarioInv

LEMMA PublishReadingKeeps == ASSUME ScenarioInv, NEW r \in Requests, PublishReading(r) PROVE ScenarioInv'
<1> DEFINE q == runs[r].readings
           genesis == runs[r].genesis
<1>1. runs[r].phase = "running" /\ UNCHANGED <<demoNow, active, raced>>
  BY DEF PublishReading
<1>2. /\ runs[r] = [phase |-> "running", genesis |-> genesis, readings |-> q]
      /\ genesis \in Int /\ q \in Seq(PublishedReadings)
  BY <1>1, RunPhases DEF ScenarioInv, HasReadings
<1>3. PICK k \in 1 .. Min({PublishConcurrency, Len(q)}) :
        /\ q[k].at <= demoNow
        /\ \/ /\ q[k].counter \notin {x.counter : x \in table} /\ UNCHANGED refused
              /\ table' = table \cup {[counter |-> q[k].counter, day |-> q[k].day, genesis |-> genesis, run |-> r]}
           \/ q[k].counter \in {x.counter : x \in table} /\ refused' = refused \cup {r} /\ UNCHANGED table
           \/ UNCHANGED <<table, refused>>
        /\ runs' = [runs EXCEPT ![r].readings = RemoveAt(@, k)]
  BY DEF PublishReading
<1>4. k \in DOMAIN q
  <2> HIDE DEF q
  <2>1. PublishConcurrency \in Int /\ Len(q) \in Nat /\ DOMAIN q = 1 .. Len(q)
    BY <1>2, DemoAssumption
  <2>2. Min({PublishConcurrency, Len(q)}) <= Len(q) /\ Min({PublishConcurrency, Len(q)}) \in Int
    BY <2>1, MinOfTwo
  <2> QED BY <2>1, <2>2
<1> DEFINE rest == RemoveAt(q, k)
           old(p) == IF p < k THEN p ELSE p + 1
           state == [phase |-> "running", genesis |-> genesis, readings |-> rest]
           row == [counter |-> q[k].counter, day |-> q[k].day, genesis |-> genesis, run |-> r]
<1>5. /\ rest \in Seq(PublishedReadings)
      /\ \A p \in DOMAIN rest : old(p) \in DOMAIN q /\ old(p) # k /\ rest[p] = q[old(p)]
      /\ \A i, j \in DOMAIN rest : i # j => old(i) # old(j)
  <2> HIDE DEF q
  <2> QED BY <1>2, <1>4, RemovedOne
<1>6. runs' = [runs EXCEPT ![r] = state]
  <2>1. runs' = [runs EXCEPT ![r] = [runs[r] EXCEPT !.readings = rest]]
    BY <1>3 DEF ScenarioInv, ScenarioTypeOK
  <2>2. [runs[r] EXCEPT !.readings = rest] = state
    <3> HIDE DEF rest, q, genesis
    <3> QED BY <1>2
  <2> QED BY <2>1, <2>2
<1>7. q[k] \in PublishedReadings
  <2> HIDE DEF q
  <2> QED BY <1>2, <1>4
<1> HIDE DEF rest, old, q, genesis
<1>8. /\ state \in RunStates /\ state.phase = "running" /\ state.genesis = genesis /\ state.readings = rest
      /\ state # NoRun
  BY <1>2, <1>5 DEF RunStates, NoRun
<1> HIDE DEF state
<1>9. runs' \in [Requests -> RunStates] /\ runs'[r] = state /\ \A x \in Requests : x # r => runs'[x] = runs[x]
  BY <1>6, <1>8, OneRunMoves DEF ScenarioInv
<1>10. /\ row \in TableRows /\ row.counter = q[k].counter /\ row.day = q[k].day /\ row.genesis = genesis
       /\ row.run = r
  BY <1>2, <1>7 DEF PublishedReadings, TableRows
<1>11. table' = table \/ table' = table \cup {row}
  BY <1>3 DEF q, genesis
<1> HIDE DEF row
<1>12. ScenarioTypeOK'
  <2>1. IsFiniteSet(table')
    BY <1>11, FS_AddElement DEF ScenarioInv, ScenarioTypeOK
  <2>2. refused' \subseteq Requests
    BY <1>3 DEF ScenarioInv, ScenarioTypeOK
  <2>3. table' \subseteq TableRows
    BY <1>10, <1>11 DEF ScenarioInv, ScenarioTypeOK
  <2> QED BY <1>1, <1>9, <2>1, <2>2, <2>3 DEF ScenarioInv, ScenarioTypeOK
<1>13. NothingBeforeItsDay'
  <2>1. \A p \in DOMAIN q : genesis + q[p].day * DayOfTicks <= q[p].at
    BY <1>1 DEF ScenarioInv, NothingBeforeItsDay, HasReadings, q, genesis
  <2>2. row.genesis + row.day * DayOfTicks <= demoNow
    <3>1. q[k].at <= demoNow /\ demoNow \in Nat /\ q[k].at \in Int /\ q[k].day \in Nat /\ DayOfTicks \in Nat
      BY <1>3, <1>7, DemoAssumption DEF ScenarioInv, ScenarioTypeOK, PublishedReadings, q
    <3>2. q[k].day * DayOfTicks \in Nat
      BY <3>1
    <3> QED BY <1>2, <1>4, <1>10, <2>1, <3>1, <3>2
  <2>3. \A x \in table' : x.genesis + x.day * DayOfTicks <= demoNow
    BY <1>11, <2>2 DEF ScenarioInv, NothingBeforeItsDay
  <2>4. ASSUME NEW x \in Requests, HasReadings(x)', NEW p \in DOMAIN runs'[x].readings
        PROVE runs'[x].genesis + runs'[x].readings[p].day * DayOfTicks <= runs'[x].readings[p].at
    <3>1. CASE x = r
      BY <1>5, <1>8, <1>9, <2>1, <2>4, <3>1
    <3>2. CASE x # r
      BY <1>9, <2>4, <3>2 DEF ScenarioInv, NothingBeforeItsDay, HasReadings
    <3> QED BY <3>1, <3>2
  <2> QED BY <1>1, <2>3, <2>4 DEF NothingBeforeItsDay
<1>14. ASSUME ~raced'
       PROVE  /\ OnlyWriter /\ (\A x \in Requests : UnderWay(x) => x = r)
              /\ q[k].counter \notin {x.counter : x \in table}
              /\ \A x \in table : x.genesis = genesis /\ x.day = q[k].day => x.run = r
              /\ \A p \in DOMAIN q : \A x \in table :
                   x.counter # q[p].counter /\ (x.genesis = genesis /\ x.day = q[p].day => x.run = r)
              /\ \A p, o \in DOMAIN q : p # o => q[p].counter # q[o].counter
  <2>1. OnlyWriter
    BY <1>1, <1>14 DEF ScenarioInv
  <2>2. UnderWay(r) /\ HasReadings(r)
    BY <1>1 DEF UnderWay, HasReadings
  <2> QED BY <1>4, <2>1, <2>2 DEF OnlyWriter, q, genesis
<1>15. ASSUME ~raced' PROVE OnlyWriter'
  <2>1. \A x \in Requests : UnderWay(x)' => x = r
    BY <1>9, <1>14, <1>15 DEF UnderWay
  <2>2. \A x \in Requests : runs'[x].phase \in {"checking", "counted", "running"} => x = r
    BY <2>1 DEF UnderWay, Preparing
  <2>3. active' = r
    BY <1>1, <1>14, <1>15 DEF OnlyWriter
  <2>4. \A x \in Requests : HasReadings(x)' => x = r
    BY <2>1 DEF UnderWay, HasReadings, Preparing
  <2>5. ASSUME NEW p \in DOMAIN rest, NEW x \in table'
        PROVE  x.counter # rest[p].counter /\ (x.genesis = genesis /\ x.day = rest[p].day => x.run = r)
    <3>1. old(p) \in DOMAIN q /\ old(p) # k /\ rest[p] = q[old(p)]
      BY <1>5
    <3>2. CASE x \in table
      BY <1>14, <1>15, <3>1, <3>2
    <3>3. CASE x = row
      BY <1>4, <1>10, <1>14, <1>15, <3>1, <3>3
    <3> QED BY <1>11, <3>2, <3>3
  <2>6. \A p, o \in DOMAIN rest : p # o => rest[p].counter # rest[o].counter
    BY <1>5, <1>14, <1>15
  <2>7. runs'[r].phase = "running" /\ runs'[r].genesis = genesis /\ runs'[r].readings = rest
    BY <1>8, <1>9
  <2> QED BY <2>1, <2>2, <2>3, <2>4, <2>5, <2>6, <2>7 DEF OnlyWriter
<1>16. RunsContinueEachOther'
  <2> SUFFICES ASSUME ~raced'
               PROVE  refused' = {} /\ \A x, y \in table' : x.genesis = y.genesis /\ x.day = y.day => x.run = y.run
    BY DEF RunsContinueEachOther
  <2>1. refused = {} /\ \A x, y \in table : x.genesis = y.genesis /\ x.day = y.day => x.run = y.run
    BY <1>1 DEF ScenarioInv, RunsContinueEachOther
  <2>2. refused' = {}
    BY <1>3, <1>14, <2>1 DEF q
  <2>3. \A x, y \in table' : x.genesis = y.genesis /\ x.day = y.day => x.run = y.run
    BY <1>10, <1>11, <1>14, <2>1
  <2> QED BY <2>2, <2>3
<1> QED BY <1>12, <1>13, <1>15, <1>16 DEF ScenarioInv

LEMMA CrashRunsKeeps == ASSUME ScenarioInv, CrashRuns PROVE ScenarioInv'
<1>1. /\ active' = Nobody /\ UNCHANGED <<demoNow, table, refused, raced>>
      /\ runs' = [r \in Requests |-> IF runs[r] = NoRun THEN NoRun ELSE [phase |-> "failed"]]
  BY DEF CrashRuns
<1>2. ASSUME NEW r \in Requests
      PROVE  /\ runs'[r] \in RunStates /\ (runs'[r] = NoRun => runs[r] = NoRun)
             /\ ~UnderWay(r)' /\ ~HasReadings(r)' /\ runs'[r].phase \notin {"checking", "counted", "running"}
  <2>1. runs'[r] = NoRun \/ runs'[r] = [phase |-> "failed"]
    BY <1>1
  <2>2. NoRun.phase = "none" /\ NoRun # [phase |-> "failed"]
    BY DEF NoRun
  <2> QED BY <1>1, <2>1, <2>2 DEF RunStates, UnderWay, HasReadings, Preparing
<1>3. ScenarioTypeOK'
  <2>1. runs' \in [Requests -> RunStates]
    BY <1>1, <1>2
  <2> QED BY <1>1, <2>1 DEF ScenarioInv, ScenarioTypeOK
<1>4. NothingBeforeItsDay'
  BY <1>1, <1>2 DEF ScenarioInv, NothingBeforeItsDay
<1>5. OnlyWriter'
  BY <1>2 DEF OnlyWriter
<1>6. RunsContinueEachOther'
  BY <1>1 DEF ScenarioInv, RunsContinueEachOther
<1> QED BY <1>3, <1>4, <1>5, <1>6 DEF ScenarioInv

LEMMA ScenarioNextInv == ScenarioInv /\ [ScenarioNext]_scenarioVars => ScenarioInv'
<1> SUFFICES ASSUME ScenarioInv, [ScenarioNext]_scenarioVars PROVE ScenarioInv'
  OBVIOUS
<1>1. CASE ScenarioTick
  BY <1>1, ScenarioTickKeeps
<1>2. CASE CrashRuns
  BY <1>2, CrashRunsKeeps
<1>3. ASSUME NEW r \in Requests,
             \/ RequestRun(r) \/ RefuseRun(r) \/ ReadCounters(r) \/ ChooseDay(r)
             \/ LaunchRun(r) \/ PublishReading(r) \/ EndRun(r)
      PROVE  ScenarioInv'
  BY <1>3, RequestRunKeeps, RefuseRunKeeps, ReadCountersKeeps, ChooseDayKeeps, LaunchRunKeeps, PublishReadingKeeps,
     EndRunKeeps
<1>4. CASE UNCHANGED scenarioVars
  BY <1>4 DEF scenarioVars, ScenarioInv, ScenarioTypeOK, NothingBeforeItsDay, OnlyWriter, UnderWay, HasReadings,
              RunsContinueEachOther
<1> QED BY <1>1, <1>2, <1>3, <1>4 DEF ScenarioNext

THEOREM ScenarioInvariance == ScenarioSpec => []ScenarioInv
BY ScenarioInitInv, ScenarioNextInv, PTL DEF ScenarioSpec

(* As long as two runs did not begin unaware of each other, the intake     *)
(* refuses nothing of theirs and, of those that count from one genesis, no *)
(* day has two in it, whichever genesis each request names or leaves out   *)
(* (apps/worker/src/scenario.ts, apps/api/src/routes/scenario.ts).         *)
THEOREM RunsAlwaysContinueEachOther == ScenarioSpec => []RunsContinueEachOther
<1>1. ScenarioInv => RunsContinueEachOther
  BY DEF ScenarioInv
<1> QED BY <1>1, ScenarioInvariance, PTL

(***************************************************************************)
(* The feeder: what a tick publishes, and what it leaves behind.           *)
(***************************************************************************)
Feeders == Range(FeederSensors)

DueReadings(at) ==
  {x \in (DOMAIN FeederSensors) \X DueHours(at) : InTime(FeederSensors[x[1]], x[2], at)}

(* The order they are published in: by the hour, then by the sensor.       *)
DueBefore(x, y) == x[2] < y[2] \/ (x[2] = y[2] /\ x[1] < y[1])

LEMMA MeasuredAt ==
  ASSUME NEW s \in Feeders, NEW h \in Nat
  PROVE  /\ SecondOf[s] \in Nat /\ SecondOf[s] < HourTicks /\ HourTicks \in Nat \ {0}
         /\ h * HourTicks \in Nat
         /\ MeasuredIn(s, h) \in Nat /\ MeasuredIn(s, h) = h * HourTicks + SecondOf[s]
         /\ h <= MeasuredIn(s, h)
<1>1. HourTicks \in Nat \ {0} /\ SecondOf[s] \in 0 .. HourTicks - 1
  BY DemoAssumption DEF Feeders
<1>2. h * HourTicks \in Nat /\ h <= h * HourTicks
  BY <1>1
<1> QED BY <1>1, <1>2 DEF MeasuredIn

LEMMA MeasuredLater ==
  ASSUME NEW s \in Feeders, NEW t \in Feeders, NEW h \in Nat, NEW k \in Nat, h < k
  PROVE  /\ MeasuredIn(s, h) < k * HourTicks /\ MeasuredIn(s, h) < MeasuredIn(t, k)
<1>1. /\ SecondOf[s] \in Nat /\ SecondOf[s] < HourTicks /\ HourTicks \in Nat
      /\ MeasuredIn(s, h) = h * HourTicks + SecondOf[s]
      /\ SecondOf[t] \in Nat /\ MeasuredIn(t, k) = k * HourTicks + SecondOf[t]
  BY MeasuredAt
<1> DEFINE a == h * HourTicks
           b == k * HourTicks
<1>2. a + HourTicks <= b
  <2>1. (h + 1) * HourTicks <= k * HourTicks
    BY <1>1
  <2>2. (h + 1) * HourTicks = h * HourTicks + HourTicks
    BY <1>1
  <2> QED BY <2>1, <2>2
<1>3. a \in Nat /\ b \in Nat
  BY <1>1
<1> HIDE DEF a, b
<1> QED BY <1>1, <1>2, <1>3 DEF a, b

LEMMA MaxOfTwo ==
  ASSUME NEW a \in Int, NEW b \in Int
  PROVE  Max({a} \cup {b}) \in Int /\ \A h \in Int : h >= Max({a} \cup {b}) <=> h >= a /\ h >= b
<1>1. CASE a >= b
  <2>1. Max({a} \cup {b}) = a
    BY <1>1 DEF Max
  <2> QED BY <1>1, <2>1
<1>2. CASE b > a
  <2>1. Max({a} \cup {b}) = b
    BY <1>2 DEF Max
  <2> QED BY <1>2, <2>1
<1> QED BY <1>1, <1>2

LEMMA Lowest ==
  ASSUME NEW S \in SUBSET Nat, S # {}
  PROVE  Min(S) \in S /\ \A x \in S : Min(S) <= x
<1>1. PICK u \in S : \A v \in S : ~(<<v, u>> \in OpToRel(<, Nat))
  BY NatLessThanWellFounded, WFMin
<1>2. ASSUME NEW v \in S PROVE u <= v
  <2>1. u \in Nat /\ v \in Nat
    OBVIOUS
  <2>2. ~(v < u)
    BY <1>1, <2>1 DEF OpToRel
  <2> QED BY <2>1, <2>2
<1> QED BY <1>2 DEF Min

(* The network left off at an hour that every sensor has reached.          *)
LEMMA LeftOff ==
  ASSUME hoursOf \in [Feeders -> SUBSET Nat], NEW time \in Nat, \A s \in Feeders : \A h \in hoursOf[s] : h <= time
  PROVE  \/ LastFullHour = {} /\ \E s \in Feeders : hoursOf[s] = {}
         \/ /\ \A s \in Feeders : hoursOf[s] # {}
            /\ \E last \in Nat : LastFullHour = {last} /\ \A s \in Feeders : \E k \in hoursOf[s] : last <= k
<1>1. CASE \E s \in Feeders : hoursOf[s] = {}
  BY <1>1 DEF LastFullHour, Feeders
<1>2. CASE \A s \in Feeders : hoursOf[s] # {}
  <2> DEFINE lasts == {Max(hoursOf[s]) : s \in Feeders}
  <2>1. ASSUME NEW s \in Feeders PROVE Max(hoursOf[s]) \in hoursOf[s] /\ Max(hoursOf[s]) \in Nat
    <3>1. hoursOf[s] \in SUBSET Nat /\ hoursOf[s] # {}
      BY <1>2
    <3>2. time + 1 \in Nat /\ \A h \in hoursOf[s] : h < time + 1
      BY <3>1
    <3>3. Max(hoursOf[s]) \in hoursOf[s]
      BY <3>1, <3>2, LatestDay
    <3> QED BY <3>1, <3>3
  <2>2. lasts \in SUBSET Nat /\ lasts # {}
    <3>1. Feeders # {}
      <4>1. FeederSensors \in Seq(Range(FeederSensors)) /\ FeederSensors # <<>>
        BY DemoAssumption
      <4>2. 1 \in DOMAIN FeederSensors
        BY <4>1
      <4> QED BY <4>2 DEF Feeders, Range
    <3> QED BY <2>1, <3>1
  <2>3. Min(lasts) \in lasts /\ \A x \in lasts : Min(lasts) <= x
    <3> HIDE DEF lasts
    <3> QED BY <2>2, Lowest
  <2>4. LastFullHour = {Min(lasts)}
    BY <1>2 DEF LastFullHour, Feeders
  <2>5. ASSUME NEW s \in Feeders PROVE \E k \in hoursOf[s] : Min(lasts) <= k
    BY <2>1, <2>3
  <2> QED BY <1>2, <2>2, <2>3, <2>4, <2>5
<1> QED BY <1>1, <1>2

(* The hours a tick is about: the ones within reach that follow where the  *)
(* network left off.                                                       *)
LEMMA DueAreHours ==
  ASSUME hoursOf \in [Feeders -> SUBSET Nat], NEW time \in Nat, \A s \in Feeders : \A h \in hoursOf[s] : h <= time,
         NEW at \in Nat
  PROVE  /\ HourOf(at) \in Nat /\ IsFiniteSet(DueHours(at)) /\ DueHours(at) \subseteq 0 .. HourOf(at)
         /\ \E from \in Int : /\ DueHours(at) = {h \in 0 .. HourOf(at) : h >= from}
                              /\ \A last \in LastFullHour : \A h \in Int :
                                   h > last /\ h >= HourOf(at) - (MaxAgeTicks + HourTicks - 1) \div HourTicks => h >= from
<1>1. HourOf(at) \in Nat
  BY DemoAssumption, Quotient DEF HourOf
<1>2. IsFiniteSet(0 .. HourOf(at))
  BY <1>1, FS_Interval
<1>3. DueHours(at) \subseteq 0 .. HourOf(at)
  BY DEF DueHours
<1> DEFINE back == HourOf(at) - (MaxAgeTicks + HourTicks - 1) \div HourTicks
           goesOn == IF LastFullHour = {} THEN {HourOf(at)} ELSE {h + 1 : h \in LastFullHour}
           from == Max({back} \cup goesOn)
<1>4. DueHours(at) = {h \in 0 .. HourOf(at) : h >= from}
  BY DEF DueHours
<1>5. back \in Int
  <2>1. MaxAgeTicks + HourTicks - 1 \in Nat /\ HourTicks \in Nat \ {0}
    BY DemoAssumption
  <2>2. (MaxAgeTicks + HourTicks - 1) \div HourTicks \in Nat
    BY <2>1, Quotient
  <2> QED BY <1>1, <2>2
<1>6. \E b \in Int : goesOn = {b} /\ \A last \in LastFullHour : b = last + 1 /\ last \in Nat
  <2>1. CASE LastFullHour = {}
    BY <1>1, <2>1
  <2>2. CASE LastFullHour # {}
    <3>1. PICK last \in Nat : LastFullHour = {last}
      BY <2>2, LeftOff
    <3>2. goesOn = {last + 1}
      BY <3>1
    <3> QED BY <3>1, <3>2
  <2> QED BY <2>1, <2>2
<1>7. PICK b \in Int : goesOn = {b} /\ \A last \in LastFullHour : b = last + 1 /\ last \in Nat
  BY <1>6
<1> HIDE DEF goesOn, back
<1>8. from \in Int /\ \A h \in Int : h >= from <=> h >= back /\ h >= b
  BY <1>5, <1>7, MaxOfTwo
<1> HIDE DEF from
<1>9. \A last \in LastFullHour : \A h \in Int : h > last /\ h >= back => h >= from
  BY <1>7, <1>8
<1> QED BY <1>1, <1>2, <1>3, <1>4, <1>8, <1>9, FS_Subset DEF back

(* What a tick publishes is what is due, each once, in the order.          *)
LEMMA PublishedInOrder ==
  ASSUME NEW at \in Nat, IsFiniteSet(DueHours(at)), DueHours(at) \subseteq Nat
  PROVE  \E order \in [1 .. Cardinality(DueReadings(at)) -> DueReadings(at)] :
           /\ Cardinality(DueReadings(at)) \in Nat
           /\ FeederReadings(at) = [k \in 1 .. Cardinality(DueReadings(at)) |->
                                      <<FeederSensors[order[k][1]], order[k][2]>>]
           /\ \A x \in DueReadings(at) : \E k \in 1 .. Cardinality(DueReadings(at)) : order[k] = x
           /\ \A i, j \in 1 .. Cardinality(DueReadings(at)) : i < j <=> DueBefore(order[i], order[j])
<1> DEFINE S == DueReadings(at)
           n == Cardinality(S)
           below == [y \in S |-> {x \in S : DueBefore(x, y)}]
<1>1. IsFiniteSet(DOMAIN FeederSensors) /\ DOMAIN FeederSensors \subseteq Nat
  <2>1. FeederSensors \in Seq(Range(FeederSensors))
    BY DemoAssumption
  <2>2. DOMAIN FeederSensors = 1 .. Len(FeederSensors) /\ Len(FeederSensors) \in Nat
    BY <2>1
  <2> QED BY <2>2, FS_Interval
<1>2. IsFiniteSet(S) /\ S \subseteq Nat \X Nat
  <2>1. IsFiniteSet((DOMAIN FeederSensors) \X DueHours(at))
    BY <1>1, FS_Product
  <2>2. S \subseteq (DOMAIN FeederSensors) \X DueHours(at)
    BY DEF DueReadings
  <2> QED BY <1>1, <2>1, <2>2, FS_Subset
<1>3. n \in Nat
  BY <1>2, FS_CardinalityType
<1>4. below \in [S -> SUBSET S]
  OBVIOUS
<1>5. \A x \in S : x \notin below[x]
  BY <1>2 DEF DueBefore
<1>6. \A x, y \in S : x = y \/ x \in below[y] \/ y \in below[x]
  BY <1>2 DEF DueBefore
<1>7. \A x, y \in S : x \in below[y] => below[x] \subseteq below[y]
  BY <1>2 DEF DueBefore
<1>8. PICK order \in [1 .. n -> S] :
        /\ \A k \in 1 .. n, x \in S : Cardinality(below[x]) = k - 1 <=> x = order[k]
        /\ \A x \in S : \E k \in 1 .. n : order[k] = x
        /\ \A i, j \in 1 .. n : i < j <=> order[i] \in below[order[j]]
  <2> HIDE DEF below, S
  <2>1. IsFiniteSet(S) /\ ComparesAny(below, S)
    BY <1>2, <1>4, <1>5, <1>6, <1>7 DEF ComparesAny
  <2>2. PICK order : Enumerates(order, below, S)
    BY <2>1, RanksOfAnOrder
  <2> QED BY <2>2 DEF Enumerates
<1>9. ASSUME NEW i \in 1 .. n, NEW j \in 1 .. n PROVE i < j <=> DueBefore(order[i], order[j])
  <2> HIDE DEF S, n
  <2> QED BY <1>8
<1>10. ASSUME NEW k \in 1 .. n
       PROVE (CHOOSE x \in S : Cardinality({y \in S : DueBefore(y, x)}) = k - 1) = order[k]
  <2>1. \A x \in S : Cardinality({y \in S : DueBefore(y, x)}) = k - 1 <=> x = order[k]
    <3> HIDE DEF S, n
    <3> QED BY <1>8
  <2>2. order[k] \in S
    <3> HIDE DEF S, n
    <3> QED BY <1>8
  <2> HIDE DEF S, n
  <2> QED BY <2>1, <2>2
<1>11. FeederReadings(at) = [k \in 1 .. n |-> <<FeederSensors[order[k][1]], order[k][2]>>]
  <2> DEFINE ordered == [k \in 1 .. n |-> CHOOSE x \in S : Cardinality({y \in S : DueBefore(y, x)}) = k - 1]
  <2>1. FeederReadings(at) = [k \in DOMAIN ordered |-> <<FeederSensors[ordered[k][1]], ordered[k][2]>>]
    BY DEF FeederReadings, ByRank, DueReadings, DueBefore
  <2> HIDE DEF S, n
  <2>2. DOMAIN ordered = 1 .. n /\ \A k \in 1 .. n : ordered[k] = order[k]
    BY <1>10
  <2> HIDE DEF ordered
  <2> QED BY <2>1, <2>2
<1> HIDE DEF S, n, below
<1> QED BY <1>3, <1>8, <1>9, <1>11 DEF S, n

LEMMA AgeOf ==
  ASSUME NEW s \in Feeders, NEW h \in Nat, NEW at \in Nat
  PROVE  InTime(s, h, at) <=> MeasuredIn(s, h) <= at /\ at - MeasuredIn(s, h) <= MaxAgeTicks
<1>1. MeasuredIn(s, h) \in Nat
  BY MeasuredAt
<1> QED BY <1>1 DEF InTime

(* Every reading that is due is published, and between two of one sensor   *)
(* there is a batch of others.                                             *)
LEMMA PublishedApart ==
  ASSUME NEW at \in 0 .. MaxFeederTime, IsFiniteSet(DueHours(at)), HourOf(at) \in Nat,
         DueHours(at) \subseteq 0 .. HourOf(at),
         \A h, k \in DueHours(at) : h < k => h + 1 \in DueHours(at)
  PROVE  /\ FeederReadings(at) \in Seq(Feeders \X Nat)
         /\ \A p \in DOMAIN FeederReadings(at) : InTime(FeederReadings(at)[p][1], FeederReadings(at)[p][2], at)
         /\ \A s \in Feeders, h \in DueHours(at) : InTime(s, h, at) =>
              \E p \in DOMAIN FeederReadings(at) : FeederReadings(at)[p] = <<s, h>>
         /\ \A a, b \in DOMAIN FeederReadings(at) :
              /\ FeederReadings(at)[a][1] = FeederReadings(at)[b][1]
              /\ FeederReadings(at)[a][2] < FeederReadings(at)[b][2]
              => a + FeederBatch <= b
<1> DEFINE S == DueReadings(at)
           n == Cardinality(S)
           published == FeederReadings(at)
<1>1. at \in Nat /\ DueHours(at) \subseteq Nat /\ MaxFeederTime \in Nat
  BY DemoAssumption
<1>2. PICK order \in [1 .. n -> S] :
        /\ n \in Nat
        /\ published = [k \in 1 .. n |-> <<FeederSensors[order[k][1]], order[k][2]>>]
        /\ \A x \in S : \E k \in 1 .. n : order[k] = x
        /\ \A i, j \in 1 .. n : i < j <=> DueBefore(order[i], order[j])
  BY <1>1, PublishedInOrder
<1>3. FeederSensors \in Seq(Feeders) /\ DOMAIN FeederSensors \subseteq Nat /\ IsInjective(FeederSensors)
  <2>1. FeederSensors \in Seq(Feeders)
    BY DemoAssumption DEF Feeders
  <2>2. DOMAIN FeederSensors = 1 .. Len(FeederSensors)
    BY <2>1
  <2> QED BY <2>1, <2>2, DemoAssumption
<1>4. ASSUME NEW x \in S
      PROVE  /\ x = <<x[1], x[2]>> /\ x[1] \in DOMAIN FeederSensors /\ x[2] \in DueHours(at) /\ x[2] \in Nat
             /\ FeederSensors[x[1]] \in Feeders /\ InTime(FeederSensors[x[1]], x[2], at)
  BY <1>1, <1>3 DEF DueReadings
<1>5. ASSUME NEW i \in DOMAIN FeederSensors, NEW h \in DueHours(at), InTime(FeederSensors[i], h, at)
      PROVE  <<i, h>> \in S
  BY <1>5 DEF DueReadings
<1> HIDE DEF S, n, published
<1>6. published \in Seq(Feeders \X Nat) /\ DOMAIN published = 1 .. n
  <2>1. published \in [1 .. n -> Feeders \X Nat]
    BY <1>2, <1>4
  <2> QED BY <1>2, <2>1
<1>7. ASSUME NEW p \in 1 .. n PROVE InTime(published[p][1], published[p][2], at)
  BY <1>2, <1>4
<1>8. ASSUME NEW s \in Feeders, NEW h \in DueHours(at), InTime(s, h, at)
      PROVE  \E p \in 1 .. n : published[p] = <<s, h>>
  <2>1. PICK i \in DOMAIN FeederSensors : FeederSensors[i] = s
    BY DEF Feeders, Range
  <2>2. <<i, h>> \in S
    BY <1>5, <1>8, <2>1
  <2>3. PICK p \in 1 .. n : order[p] = <<i, h>>
    BY <1>2, <2>2
  <2> QED BY <1>2, <2>1, <2>3
<1>9. ASSUME NEW a \in 1 .. n, NEW b \in 1 .. n, published[a][1] = published[b][1], published[a][2] < published[b][2]
      PROVE  a + FeederBatch <= b
  <2> DEFINE i == order[a][1]
             h == order[a][2]
             k == order[b][2]
             s == FeederSensors[i]
  <2>1. /\ i \in DOMAIN FeederSensors /\ s \in Feeders
        /\ order[a] = <<i, h>> /\ order[b] = <<i, k>>
        /\ h \in DueHours(at) /\ k \in DueHours(at) /\ h < k /\ h \in Nat /\ k \in Nat
        /\ InTime(s, h, at) /\ InTime(s, k, at)
    <3>1. order[a] \in S /\ order[b] \in S
      BY <1>2
    <3>2. FeederSensors[order[a][1]] = FeederSensors[order[b][1]] /\ order[a][2] < order[b][2]
      BY <1>2, <1>9
    <3>3. order[a][1] = order[b][1]
      BY <1>3, <1>4, <3>1, <3>2 DEF IsInjective
    <3> QED BY <1>4, <3>1, <3>2, <3>3
  <2>2. h + 1 \in DueHours(at) /\ InTime(s, h + 1, at)
    <3>1. h + 1 \in DueHours(at)
      BY <2>1
    <3> HIDE DEF h, k, s
    <3>2. MeasuredIn(s, h) < MeasuredIn(s, h + 1) /\ MeasuredIn(s, h + 1) <= MeasuredIn(s, k)
      <4>1. h + 1 < k \/ h + 1 = k
        BY <2>1
      <4>2. MeasuredIn(s, h) \in Nat /\ MeasuredIn(s, h + 1) \in Nat /\ MeasuredIn(s, k) \in Nat
        BY <2>1, MeasuredAt
      <4> QED BY <2>1, <4>1, <4>2, MeasuredLater
    <3>3. InTime(s, h + 1, at)
      <4>1. MeasuredIn(s, h) \in Nat /\ MeasuredIn(s, h + 1) \in Nat /\ MeasuredIn(s, k) \in Nat
        BY <2>1, MeasuredAt
      <4>2. MaxAgeTicks \in Nat
        BY DemoAssumption
      <4>3. at - MeasuredIn(s, h) <= MaxAgeTicks /\ MeasuredIn(s, k) <= at
        BY <1>1, <2>1, AgeOf
      <4>4. at - MeasuredIn(s, h + 1) <= MaxAgeTicks /\ MeasuredIn(s, h + 1) <= at
        BY <1>1, <3>2, <4>1, <4>2, <4>3
      <4> QED BY <1>1, <2>1, <4>4, AgeOf
    <3> QED BY <3>1, <3>3
  <2> DEFINE between == {j \in DOMAIN FeederSensors :
                           IF j < i THEN InTime(FeederSensors[j], h + 1, at) ELSE InTime(FeederSensors[j], h, at)}
             of(j) == <<j, IF j < i THEN h + 1 ELSE h>>
             place == [j \in between |-> CHOOSE p \in 1 .. n : order[p] = of(j)]
  <2>3. FeederBatch <= Cardinality(between)
    <3>1. h \in 0 .. HourOf(at)
      BY <2>1
    <3> QED BY <2>1, <2>2, <3>1, BatchesAssumption
  <2> HIDE DEF i, h, k, s
  <2>4. ASSUME NEW j \in between
        PROVE  /\ of(j) \in S /\ ~DueBefore(of(j), order[a]) /\ DueBefore(of(j), order[b])
    <3>1. j \in DOMAIN FeederSensors /\ j \in Nat /\ i \in Nat
      BY <1>3, <2>1
    <3>2. CASE j < i
      <4>1. of(j) = <<j, h + 1>> /\ InTime(FeederSensors[j], h + 1, at)
        BY <3>2
      <4>2. of(j) \in S
        BY <1>5, <2>2, <3>1, <4>1
      <4> QED BY <2>1, <3>1, <3>2, <4>1, <4>2 DEF DueBefore
    <3>3. CASE ~(j < i)
      <4>1. of(j) = <<j, h>> /\ InTime(FeederSensors[j], h, at)
        BY <3>3
      <4>2. of(j) \in S
        BY <1>5, <2>1, <3>1, <4>1
      <4> QED BY <2>1, <3>1, <3>3, <4>1, <4>2 DEF DueBefore
    <3> QED BY <3>2, <3>3
  <2>5. ASSUME NEW j \in between PROVE place[j] \in a .. b - 1 /\ order[place[j]] = of(j)
    <3> HIDE DEF of, between
    <3>1. place[j] \in 1 .. n /\ order[place[j]] = of(j)
      <4>1. \E p \in 1 .. n : order[p] = of(j)
        BY <1>2, <2>4
      <4> QED BY <4>1
    <3> HIDE DEF place
    <3>2. ~(place[j] < a) /\ place[j] < b
      BY <1>2, <2>4, <3>1
    <3> QED BY <1>2, <3>1, <3>2
  <2>6. place \in Injection(between, a .. b - 1)
    <3>1. place \in [between -> a .. b - 1]
      <4> HIDE DEF of, between
      <4> QED BY <2>5
    <3>2. ASSUME NEW j \in between, NEW l \in between, place[j] = place[l] PROVE j = l
      <4>1. of(j) = of(l)
        <5> HIDE DEF of, between, place
        <5> QED BY <2>5, <3>2
      <4> QED BY <4>1
    <3> HIDE DEF of, between, place
    <3> QED BY <3>1, <3>2 DEF Injection, IsInjective
  <2>7. a \in Int /\ b \in Int /\ a < b
    <3>1. a \in Nat /\ b \in Nat
      BY <1>2
    <3>2. DueBefore(order[a], order[b])
      BY <2>1 DEF DueBefore
    <3> QED BY <1>2, <3>1, <3>2
  <2>8. IsFiniteSet(a .. b - 1) /\ Cardinality(a .. b - 1) = b - a
    <3>1. b - 1 \in Int /\ Cardinality(a .. b - 1) = (b - 1) - a + 1
      BY <2>7, FS_Interval
    <3> QED BY <2>7, <3>1, FS_Interval
  <2>9. Cardinality(between) <= b - a /\ Cardinality(between) \in Nat
    <3> HIDE DEF of, between, place
    <3> QED BY <2>6, <2>8, FS_Injection, FS_CardinalityType
  <2>10. FeederBatch \in Nat
    BY DemoAssumption
  <2> HIDE DEF between
  <2> QED BY <2>3, <2>7, <2>9, <2>10
<1> QED BY <1>6, <1>7, <1>8, <1>9 DEF published

FeederTypeOK ==
  /\ feederNow \in 0 .. MaxFeederTime
  /\ hoursOf \in [Feeders -> SUBSET Nat]
  /\ ticking \subseteq [at : 0 .. MaxFeederTime, readings : Seq(Feeders \X Nat)]
  /\ sinceFull \subseteq Nat
  /\ turnedAway \subseteq Feeders \X Nat

(* One tick at a time; what is stored, and what is yet to be, had been     *)
(* measured when it began.                                                 *)
MeasuredBefore ==
  /\ \A one, other \in ticking : one = other
  /\ \A s \in Feeders : \A h \in hoursOf[s] : MeasuredIn(s, h) <= feederNow
  /\ \A tick \in ticking :
       /\ tick.at <= feederNow
       /\ \A s \in Feeders : \A h \in hoursOf[s] : MeasuredIn(s, h) <= tick.at
       /\ \A p \in DOMAIN tick.readings : InTime(tick.readings[p][1], tick.readings[p][2], tick.at)

(* A batch never holds two readings of one sensor.                         *)
BatchesApart ==
  \A tick \in ticking : \A a, b \in DOMAIN tick.readings :
    tick.readings[a][1] = tick.readings[b][1] /\ tick.readings[a][2] < tick.readings[b][2] => a + FeederBatch <= b

Answered(s, h) == h \in hoursOf[s] \/ <<s, h>> \in turnedAway

(* Below an hour a sensor has stored, nothing that can still be published  *)
(* is missing.                                                             *)
NoneMissingAt(at) ==
  \A full \in sinceFull, s \in Feeders, h \in Nat :
    MeasuredIn(s, h) > full /\ InTime(s, h, at) /\ (\E k \in hoursOf[s] : h < k) => Answered(s, h)

(* Whatever a tick in flight could publish is stored, turned away or yet   *)
(* to come.                                                                *)
NothingSkipped ==
  \A tick \in ticking, full \in sinceFull, s \in Feeders, h \in Nat :
    MeasuredIn(s, h) > full /\ InTime(s, h, tick.at) => Answered(s, h) \/ <<s, h>> \in Range(tick.readings)

FeederInv ==
  /\ FeederTypeOK /\ MeasuredBefore /\ BatchesApart
  /\ sinceFull # {} => \A s \in Feeders : hoursOf[s] # {}
  /\ NoneMissingAt(feederNow) /\ \A tick \in ticking : NoneMissingAt(tick.at)
  /\ NothingSkipped

LEMMA FeederInitInv == FeederInit => FeederInv
<1> SUFFICES ASSUME FeederInit PROVE FeederInv
  OBVIOUS
<1>1. FeederTypeOK
  BY DemoAssumption DEF FeederInit, FeederTypeOK, Feeders
<1>2. MeasuredBefore /\ BatchesApart
  BY DEF FeederInit, MeasuredBefore, BatchesApart, Feeders
<1> QED BY <1>1, <1>2 DEF FeederInit, FeederInv, NoneMissingAt, NothingSkipped

(* As time goes by less can be published of what was measured by then.     *)
LEMMA InTimeBefore ==
  ASSUME NEW s \in Feeders, NEW h \in Nat, NEW k \in Nat, h < k,
         NEW at \in Nat, NEW later \in Nat, at <= later, InTime(s, h, later), MeasuredIn(s, k) <= at
  PROVE  InTime(s, h, at)
<1>1. MeasuredIn(s, h) \in Nat /\ MeasuredIn(s, k) \in Nat /\ MeasuredIn(s, h) < MeasuredIn(s, k)
  BY MeasuredAt, MeasuredLater
<1>2. later - MeasuredIn(s, h) <= MaxAgeTicks /\ MaxAgeTicks \in Nat
  BY AgeOf, DemoAssumption
<1>3. MeasuredIn(s, h) <= at /\ at - MeasuredIn(s, h) <= MaxAgeTicks
  BY <1>1, <1>2
<1> QED BY <1>3, AgeOf

LEMMA FeederTimeKeeps == ASSUME FeederInv, FeederTime PROVE FeederInv'
<1>1. feederNow \in Nat /\ feederNow' = feederNow + 1 /\ feederNow' \in 0 .. MaxFeederTime /\ feederNow' \in Nat
  BY DemoAssumption DEF FeederInv, FeederTypeOK, FeederTime
<1>2. UNCHANGED <<hoursOf, ticking, sinceFull, turnedAway>>
  BY DEF FeederTime
<1>3. FeederTypeOK'
  BY <1>1, <1>2 DEF FeederInv, FeederTypeOK
<1>4. MeasuredBefore'
  <2>1. \A s \in Feeders : \A h \in hoursOf[s] : MeasuredIn(s, h) <= feederNow'
    <3> SUFFICES ASSUME NEW s \in Feeders, NEW h \in hoursOf[s] PROVE MeasuredIn(s, h) <= feederNow'
      OBVIOUS
    <3>1. h \in Nat
      BY DEF FeederInv, FeederTypeOK
    <3>2. MeasuredIn(s, h) <= feederNow /\ MeasuredIn(s, h) \in Nat
      BY <3>1, MeasuredAt DEF FeederInv, MeasuredBefore
    <3> QED BY <1>1, <3>2
  <2>2. \A tick \in ticking : tick.at <= feederNow'
    <3> SUFFICES ASSUME NEW tick \in ticking PROVE tick.at <= feederNow'
      OBVIOUS
    <3>1. tick.at \in 0 .. MaxFeederTime /\ tick.at <= feederNow
      BY DEF FeederInv, FeederTypeOK, MeasuredBefore
    <3> QED BY <1>1, <3>1
  <2> QED BY <1>2, <2>1, <2>2 DEF FeederInv, MeasuredBefore, MeasuredIn, InTime
<1>5. BatchesApart' /\ NothingSkipped' /\ (sinceFull # {} => \A s \in Feeders : hoursOf[s] # {})'
  BY <1>2 DEF FeederInv, BatchesApart, NothingSkipped, InTime, MeasuredIn, Answered
<1>6. NoneMissingAt(feederNow')
  <2> SUFFICES ASSUME NEW full \in sinceFull, NEW s \in Feeders, NEW h \in Nat,
                      MeasuredIn(s, h) > full, InTime(s, h, feederNow'), NEW k \in hoursOf[s], h < k
               PROVE  Answered(s, h)
    BY DEF NoneMissingAt
  <2>1. MeasuredIn(s, k) <= feederNow /\ feederNow <= feederNow' /\ k \in Nat
    BY <1>1 DEF FeederInv, FeederTypeOK, MeasuredBefore
  <2>2. InTime(s, h, feederNow)
    BY <1>1, <2>1, InTimeBefore
  <2> QED BY <2>2 DEF FeederInv, NoneMissingAt
<1>7. NoneMissingAt(feederNow)' /\ \A tick \in ticking' : NoneMissingAt(tick.at)'
  BY <1>2, <1>6 DEF FeederInv, NoneMissingAt, Answered, InTime, MeasuredIn
<1> QED BY <1>3, <1>4, <1>5, <1>7 DEF FeederInv

(* What can still be published was measured within the hours looked back.  *)
LEMMA WithinReach ==
  ASSUME NEW s \in Feeders, NEW h \in Nat, NEW at \in Nat, InTime(s, h, at)
  PROVE  h \in 0 .. HourOf(at) /\ h >= HourOf(at) - (MaxAgeTicks + HourTicks - 1) \div HourTicks
<1> DEFINE c == HourOf(at)
           g == (MaxAgeTicks + HourTicks - 1) \div HourTicks
           reach == MaxAgeTicks + HourTicks - 1
           n == HourTicks
           m == MeasuredIn(s, h)
<1>1. n \in Nat \ {0} /\ MaxAgeTicks \in Nat /\ reach \in Nat
  <2>1. HourTicks \in Nat \ {0} /\ MaxAgeTicks \in Nat
    BY DemoAssumption
  <2> QED BY <2>1
<1>2. c \in Nat /\ n * c <= at /\ at < n * c + n
  BY <1>1, Quotient DEF HourOf
<1>3. g \in Nat /\ n * g <= reach /\ reach < n * g + n
  BY <1>1, Quotient
<1>4. m \in Nat /\ m = h * n + SecondOf[s] /\ SecondOf[s] \in Nat /\ SecondOf[s] < n
  BY MeasuredAt
<1>5. m <= at /\ at - m <= MaxAgeTicks /\ reach = MaxAgeTicks + n - 1
  BY AgeOf
<1> HIDE DEF c, g, reach, n, m
<1>6. h <= c
  <2> SUFFICES ASSUME c + 1 <= h PROVE FALSE
    BY <1>2
  <2>1. n * (c + 1) <= n * h /\ n * (c + 1) = n * c + n /\ n * h = h * n
    BY <1>1, <1>2
  <2>2. n * c \in Nat /\ n * h \in Nat
    BY <1>1, <1>2
  <2> QED BY <1>1, <1>2, <1>4, <1>5, <2>1, <2>2
<1>7. h >= c - g
  <2> SUFFICES ASSUME h + g + 1 <= c PROVE FALSE
    BY <1>2, <1>3
  <2>1. n * (h + g + 1) <= n * c
    BY <1>1, <1>2, <1>3
  <2>2. n * (h + g + 1) = n * h + n * g + n /\ n * h = h * n
    BY <1>1, <1>2, <1>3
  <2>3. n * c \in Nat /\ n * h \in Nat /\ n * g \in Nat
    BY <1>1, <1>2, <1>3
  <2> QED BY <1>1, <1>2, <1>3, <1>4, <1>5, <2>1, <2>2, <2>3
<1> QED BY <1>2, <1>6, <1>7 DEF c, g, reach, n

LEMMA StartTickKeeps == ASSUME FeederInv, StartTick PROVE FeederInv'
<1> DEFINE at == feederNow
           published == FeederReadings(at)
<1>1. /\ ticking = {} /\ ticking' = {[at |-> at, readings |-> published]}
      /\ UNCHANGED <<feederNow, hoursOf, sinceFull, turnedAway>>
  BY DEF StartTick
<1>2. at \in 0 .. MaxFeederTime /\ at \in Nat /\ hoursOf \in [Feeders -> SUBSET Nat]
  BY DemoAssumption DEF FeederInv, FeederTypeOK
<1>3. \A s \in Feeders : \A h \in hoursOf[s] : h <= at
  <2> SUFFICES ASSUME NEW s \in Feeders, NEW h \in hoursOf[s] PROVE h <= at
    OBVIOUS
  <2>1. h \in Nat
    BY <1>2
  <2>2. MeasuredIn(s, h) <= at /\ MeasuredIn(s, h) \in Nat /\ h <= MeasuredIn(s, h)
    BY <2>1, MeasuredAt DEF FeederInv, MeasuredBefore
  <2> QED BY <1>2, <2>1, <2>2
<1>4. /\ HourOf(at) \in Nat /\ IsFiniteSet(DueHours(at)) /\ DueHours(at) \subseteq 0 .. HourOf(at)
      /\ \E from \in Int : /\ DueHours(at) = {h \in 0 .. HourOf(at) : h >= from}
                           /\ \A last \in LastFullHour : \A h \in Int :
                                h > last /\ h >= HourOf(at) - (MaxAgeTicks + HourTicks - 1) \div HourTicks => h >= from
  BY <1>2, <1>3, DueAreHours
<1>5. /\ published \in Seq(Feeders \X Nat)
      /\ \A p \in DOMAIN published : InTime(published[p][1], published[p][2], at)
      /\ \A s \in Feeders, h \in DueHours(at) : InTime(s, h, at) =>
           \E p \in DOMAIN published : published[p] = <<s, h>>
      /\ \A a, b \in DOMAIN published :
           published[a][1] = published[b][1] /\ published[a][2] < published[b][2] => a + FeederBatch <= b
  <2>1. \A h, k \in DueHours(at) : h < k => h + 1 \in DueHours(at)
    BY <1>4
  <2> QED BY <1>2, <1>4, <2>1, PublishedApart
<1> HIDE DEF at, published
<1>6. FeederTypeOK'
  BY <1>1, <1>2, <1>5 DEF FeederInv, FeederTypeOK
<1>7. MeasuredBefore'
  <2>1. at <= feederNow
    BY <1>2 DEF at
  <2>2. \A s \in Feeders : \A h \in hoursOf[s] : MeasuredIn(s, h) <= at
    BY DEF FeederInv, MeasuredBefore, at
  <2> QED BY <1>1, <1>5, <2>1, <2>2 DEF FeederInv, MeasuredBefore, MeasuredIn, InTime
<1>8. BatchesApart'
  BY <1>1, <1>5 DEF BatchesApart
<1>9. NoneMissingAt(feederNow)' /\ \A tick \in ticking' : NoneMissingAt(tick.at)'
  BY <1>1 DEF FeederInv, NoneMissingAt, at, Answered, InTime, MeasuredIn
<1>10. NothingSkipped'
  <2> SUFFICES ASSUME NEW full \in sinceFull, NEW s \in Feeders, NEW h \in Nat,
                      MeasuredIn(s, h) > full, InTime(s, h, at), ~Answered(s, h)
               PROVE  <<s, h>> \in Range(published)
    BY <1>1 DEF NothingSkipped, Answered, InTime, MeasuredIn
  <2>1. PICK last \in Nat : LastFullHour = {last} /\ \A t \in Feeders : \E k \in hoursOf[t] : last <= k
    <3>1. \A t \in Feeders : hoursOf[t] # {}
      BY DEF FeederInv
    <3> QED BY <1>2, <1>3, <3>1, LeftOff
  <2>2. h > last
    <3> SUFFICES ASSUME h <= last PROVE FALSE
      OBVIOUS
    <3>1. PICK k \in hoursOf[s] : last <= k
      BY <2>1
    <3>2. k \in Nat /\ h <= k
      BY <1>2, <3>1
    <3>3. h # k
      BY <3>1 DEF Answered
    <3>4. NoneMissingAt(at)
      BY DEF FeederInv, at
    <3> QED BY <3>2, <3>3, <3>4 DEF NoneMissingAt
  <2>3. h \in DueHours(at)
    BY <1>2, <1>4, <2>1, <2>2, WithinReach
  <2> QED BY <1>5, <2>3 DEF Range
<1>11. (sinceFull # {} => \A s \in Feeders : hoursOf[s] # {})'
  BY <1>1 DEF FeederInv
<1> QED BY <1>6, <1>7, <1>8, <1>9, <1>10, <1>11 DEF FeederInv

LEMMA EndTickKeeps == ASSUME FeederInv, EndTick PROVE FeederInv'
<1>1. PICK tick \in ticking :
        /\ tick.readings = <<>> /\ ticking' = {}
        /\ sinceFull' = IF sinceFull = {} /\ LastFullHour # {} THEN {tick.at} ELSE sinceFull
        /\ UNCHANGED <<feederNow, hoursOf, turnedAway>>
  BY DEF EndTick
<1>2. tick.at \in Nat /\ hoursOf \in [Feeders -> SUBSET Nat] /\ feederNow \in Nat
  BY DemoAssumption DEF FeederInv, FeederTypeOK
<1>3. FeederTypeOK' /\ MeasuredBefore' /\ BatchesApart' /\ NothingSkipped'
  BY <1>1, <1>2 DEF FeederInv, FeederTypeOK, MeasuredBefore, BatchesApart, NothingSkipped, MeasuredIn, InTime
<1>4. CASE sinceFull' = sinceFull
  BY <1>1, <1>3, <1>4 DEF FeederInv, NoneMissingAt, Answered, MeasuredIn, InTime
<1>5. CASE sinceFull' # sinceFull
  <2>1. LastFullHour # {} /\ sinceFull' = {tick.at}
    BY <1>1, <1>5
  <2>2. \A s \in Feeders : hoursOf[s] # {}
    BY <2>1 DEF LastFullHour, Feeders
  <2>3. NoneMissingAt(feederNow)'
    <3> SUFFICES ASSUME NEW s \in Feeders, NEW h \in Nat, MeasuredIn(s, h) > tick.at, NEW k \in hoursOf[s], h < k
                 PROVE  FALSE
      BY <1>1, <2>1 DEF NoneMissingAt, MeasuredIn
    <3>1. k \in Nat
      BY <1>2
    <3>2. MeasuredIn(s, h) < MeasuredIn(s, k) /\ MeasuredIn(s, h) \in Nat /\ MeasuredIn(s, k) \in Nat
      BY <3>1, MeasuredAt, MeasuredLater
    <3>3. MeasuredIn(s, k) <= tick.at
      BY DEF FeederInv, MeasuredBefore
    <3> QED BY <1>2, <3>2, <3>3
  <2> QED BY <1>1, <1>3, <2>2, <2>3 DEF FeederInv
<1> QED BY <1>4, <1>5

(* A batch is the first so many of what is to be published, and the rest   *)
(* follows.                                                                *)
LEMMA BatchAndRest ==
  ASSUME NEW X, NEW q \in Seq(X)
  PROVE  LET rest == SubSeq(q, FeederBatch + 1, Len(q)) IN
         /\ rest \in Seq(X)
         /\ \A y \in Range(Batch(q)) : \E p \in DOMAIN q : p <= FeederBatch /\ q[p] = y
         /\ \A p \in DOMAIN rest : p + FeederBatch \in DOMAIN q /\ rest[p] = q[p + FeederBatch]
         /\ Range(q) \subseteq Range(Batch(q)) \cup Range(rest)
<1> DEFINE n == Len(q)
           b == FeederBatch
           rest == SubSeq(q, b + 1, n)
           size == Min({b, n})
<1>1. n \in Nat /\ b \in Nat /\ DOMAIN q = 1 .. n /\ \A p \in 1 .. n : q[p] \in X
  BY DemoAssumption
<1>2. size = IF b <= n THEN b ELSE n
  BY <1>1, MinOfTwo
<1> HIDE DEF n, b
<1>3. DOMAIN Batch(q) = 1 .. size /\ \A p \in 1 .. size : Batch(q)[p] = q[p]
  <2>1. Batch(q) = SubSeq(q, 1, size)
    BY DEF Batch, b, n
  <2> HIDE DEF size
  <2>2. size \in Nat
    BY <1>1, <1>2
  <2> QED BY <2>1, <2>2
<1> HIDE DEF size
<1>4. rest \in Seq(X) /\ DOMAIN rest = 1 .. (IF b <= n THEN n - b ELSE 0) /\ \A p \in DOMAIN rest : rest[p] = q[p + b]
  <2>1. b + 1 \in Int /\ n \in Int /\ \A i \in b + 1 .. n : q[i] \in X
    BY <1>1
  <2>2. /\ rest \in Seq(X) /\ Len(rest) = IF b + 1 <= n THEN n - (b + 1) + 1 ELSE 0
        /\ \A i \in 1 .. n - (b + 1) + 1 : rest[i] = q[(b + 1) + i - 1]
    BY <2>1, SubSeqProperties
  <2> HIDE DEF rest
  <2>3. Len(rest) = (IF b <= n THEN n - b ELSE 0) /\ DOMAIN rest = 1 .. Len(rest)
    BY <1>1, <2>2
  <2>4. ASSUME NEW p \in DOMAIN rest PROVE rest[p] = q[p + b]
    <3>1. p \in 1 .. n - (b + 1) + 1 /\ (b + 1) + p - 1 = p + b
      BY <1>1, <2>3
    <3> QED BY <2>2, <3>1
  <2> QED BY <2>2, <2>3, <2>4
<1> HIDE DEF rest
<1>5. \A y \in Range(Batch(q)) : \E p \in DOMAIN q : p <= b /\ q[p] = y
  <2> SUFFICES ASSUME NEW p \in 1 .. size PROVE p \in 1 .. n /\ p <= b
    BY <1>1, <1>3 DEF Range
  <2> QED BY <1>1, <1>2
<1>6. \A p \in DOMAIN rest : p + b \in DOMAIN q
  <2> SUFFICES ASSUME NEW p \in DOMAIN rest PROVE p + b \in 1 .. n
    BY <1>1
  <2> QED BY <1>1, <1>4
<1>7. ASSUME NEW p \in 1 .. n PROVE q[p] \in Range(Batch(q)) \cup Range(rest)
  <2>1. CASE p <= b
    <3>1. p \in 1 .. size
      BY <1>1, <1>2, <2>1
    <3> QED BY <1>3, <3>1 DEF Range
  <2>2. CASE b < p
    <3>1. p - b \in DOMAIN rest /\ (p - b) + b = p
      BY <1>1, <1>4, <2>2
    <3>2. rest[p - b] = q[p]
      BY <1>4, <3>1
    <3> QED BY <3>1, <3>2 DEF Range
  <2> QED BY <1>1, <2>1, <2>2
<1>8. Range(q) \subseteq Range(Batch(q)) \cup Range(rest)
  BY <1>1, <1>7 DEF Range
<1> QED BY <1>4, <1>5, <1>6, <1>8 DEF rest, b, n

(* Of a batch anything may be stored, and nothing is missing below it: of  *)
(* a sensor the batch has no earlier reading.                              *)
LEMMA StoredOfABatch ==
  ASSUME FeederInv, NEW tick \in ticking, NEW stored \in SUBSET Range(Batch(tick.readings)), Store(stored),
         UNCHANGED <<feederNow, sinceFull>>,
         turnedAway \subseteq turnedAway', turnedAway' \subseteq Feeders \X Nat,
         ticking' = {} \/ \E rest \in Seq(Feeders \X Nat) :
                             /\ ticking' = {[at |-> tick.at, readings |-> rest]}
                             /\ \A p \in DOMAIN rest : p + FeederBatch \in DOMAIN tick.readings
                                                       /\ rest[p] = tick.readings[p + FeederBatch]
  PROVE  /\ FeederTypeOK' /\ MeasuredBefore' /\ BatchesApart'
         /\ (sinceFull # {} => \A s \in Feeders : hoursOf[s] # {})'
         /\ NoneMissingAt(feederNow)' /\ \A t \in ticking' : NoneMissingAt(t.at)'
         /\ \A s \in Feeders : \A h \in hoursOf'[s] : h \in hoursOf[s] \/ <<s, h>> \in stored
         /\ \A s \in Feeders, h \in Nat : h \in hoursOf[s] \/ <<s, h>> \in stored => h \in hoursOf'[s]
<1> DEFINE q == tick.readings
           at == tick.at
<1>1. /\ at \in 0 .. MaxFeederTime /\ at \in Nat /\ q \in Seq(Feeders \X Nat)
      /\ feederNow \in Nat /\ at <= feederNow /\ hoursOf \in [Feeders -> SUBSET Nat] /\ FeederBatch \in Nat
  <2>1. tick.at <= feederNow
    BY DEF FeederInv, MeasuredBefore
  <2>2. tick \in [at : 0 .. MaxFeederTime, readings : Seq(Feeders \X Nat)]
    BY DEF FeederInv, FeederTypeOK
  <2> QED BY <2>1, <2>2, DemoAssumption DEF FeederInv, FeederTypeOK
<1>2. ASSUME NEW y \in stored
      PROVE  \E p \in DOMAIN q : p <= FeederBatch /\ q[p] = y /\ y \in Feeders \X Nat /\ InTime(y[1], y[2], at)
  <2>1. PICK p \in DOMAIN q : p <= FeederBatch /\ q[p] = y
    BY <1>1, BatchAndRest
  <2>2. InTime(q[p][1], q[p][2], at)
    BY DEF FeederInv, MeasuredBefore
  <2> QED BY <1>1, <2>1, <2>2
<1>3. /\ hoursOf' \in [Feeders -> SUBSET Nat]
      /\ \A s \in Feeders : hoursOf'[s] = hoursOf[s] \cup {y[2] : y \in {z \in stored : z[1] = s}}
  <2>1. hoursOf' = [s \in Feeders |-> hoursOf[s] \cup {y[2] : y \in {z \in stored : z[1] = s}}]
    BY <1>1 DEF Store
  <2>2. ASSUME NEW s \in Feeders PROVE {y[2] : y \in {z \in stored : z[1] = s}} \subseteq Nat
    BY <1>2
  <2> QED BY <1>1, <2>1, <2>2
<1>4. /\ \A s \in Feeders : \A h \in hoursOf'[s] : h \in hoursOf[s] \/ <<s, h>> \in stored
      /\ \A s \in Feeders, h \in Nat : h \in hoursOf[s] \/ <<s, h>> \in stored => h \in hoursOf'[s]
  <2>1. ASSUME NEW s \in Feeders, NEW h \in hoursOf'[s], h \notin hoursOf[s] PROVE <<s, h>> \in stored
    <3>1. PICK y \in stored : y[1] = s /\ y[2] = h
      BY <1>3, <2>1
    <3>2. y = <<s, h>>
      BY <1>2, <3>1
    <3> QED BY <3>1, <3>2
  <2>2. ASSUME NEW s \in Feeders, NEW h \in Nat, h \in hoursOf[s] \/ <<s, h>> \in stored PROVE h \in hoursOf'[s]
    <3>1. CASE <<s, h>> \in stored
      <4>1. <<s, h>> \in {z \in stored : z[1] = s} /\ <<s, h>>[2] = h
        BY <3>1
      <4> QED BY <1>3, <4>1
    <3> QED BY <1>3, <2>2, <3>1
  <2> QED BY <2>1, <2>2
<1>5. ASSUME NEW s \in Feeders, NEW h \in hoursOf'[s] PROVE MeasuredIn(s, h) <= at
  <2>1. CASE h \in hoursOf[s]
    BY <2>1 DEF FeederInv, MeasuredBefore
  <2>2. CASE <<s, h>> \in stored
    <3>1. h \in Nat /\ InTime(s, h, at)
      BY <1>2, <2>2
    <3> QED BY <1>1, <3>1, AgeOf
  <2> QED BY <1>4, <2>1, <2>2
<1>6. ASSUME NEW t \in ticking'
      PROVE  /\ ticking' = {t} /\ t.at = at /\ t \in [at : 0 .. MaxFeederTime, readings : Seq(Feeders \X Nat)]
             /\ \A p \in DOMAIN t.readings : p + FeederBatch \in DOMAIN q /\ t.readings[p] = q[p + FeederBatch]
             /\ DOMAIN t.readings \subseteq Nat
  <2>1. PICK rest \in Seq(Feeders \X Nat) : /\ ticking' = {[at |-> at, readings |-> rest]}
             /\ \A p \in DOMAIN rest : p + FeederBatch \in DOMAIN q /\ rest[p] = q[p + FeederBatch]
    OBVIOUS
  <2>2. t = [at |-> at, readings |-> rest] /\ DOMAIN rest = 1 .. Len(rest) /\ Len(rest) \in Nat
    BY <2>1
  <2> HIDE DEF at, q
  <2>3. t.readings = rest /\ t.at = at
    BY <2>2
  <2> QED BY <1>1, <2>1, <2>2, <2>3
<1>7. FeederTypeOK'
  BY <1>1, <1>3, <1>6 DEF FeederInv, FeederTypeOK
<1>8. MeasuredBefore'
  <2>1. \A one, other \in ticking' : one = other
    BY <1>6
  <2>2. ASSUME NEW s \in Feeders, NEW h \in hoursOf'[s] PROVE MeasuredIn(s, h) <= feederNow'
    <3>1. MeasuredIn(s, h) <= at /\ MeasuredIn(s, h) \in Nat
      BY <1>3, <1>5, MeasuredAt
    <3>2. feederNow' = feederNow
      OBVIOUS
    <3> HIDE DEF at
    <3> QED BY <1>1, <3>1, <3>2
  <2>3. ASSUME NEW t \in ticking', NEW p \in DOMAIN t.readings PROVE InTime(t.readings[p][1], t.readings[p][2], t.at)
    BY <1>6, <2>3 DEF FeederInv, MeasuredBefore
  <2> QED BY <1>1, <1>5, <1>6, <2>1, <2>2, <2>3 DEF MeasuredBefore, MeasuredIn, InTime
<1>9. BatchesApart'
  <2> SUFFICES ASSUME NEW t \in ticking', NEW a \in DOMAIN t.readings, NEW b \in DOMAIN t.readings,
                      t.readings[a][1] = t.readings[b][1], t.readings[a][2] < t.readings[b][2]
               PROVE  a + FeederBatch <= b
    BY DEF BatchesApart
  <2>1. (a + FeederBatch) + FeederBatch <= b + FeederBatch
    <3>1. /\ a + FeederBatch \in DOMAIN q /\ t.readings[a] = q[a + FeederBatch]
          /\ b + FeederBatch \in DOMAIN q /\ t.readings[b] = q[b + FeederBatch]
      BY <1>6
    <3>2. \A i, j \in DOMAIN q : q[i][1] = q[j][1] /\ q[i][2] < q[j][2] => i + FeederBatch <= j
      BY DEF FeederInv, BatchesApart
    <3> HIDE DEF q
    <3> QED BY <3>1, <3>2
  <2>2. a \in Nat /\ b \in Nat
    BY <1>6
  <2> QED BY <1>1, <2>1, <2>2
<1>10. NoneMissingAt(at)'
  <2> SUFFICES ASSUME NEW full \in sinceFull, NEW s \in Feeders, NEW h \in Nat,
                      MeasuredIn(s, h) > full, InTime(s, h, at), NEW k \in hoursOf'[s], h < k,
                      ~Answered(s, h)
               PROVE  h \in hoursOf'[s]
    BY <1>1, <1>3, <1>4 DEF NoneMissingAt, Answered, InTime, MeasuredIn
  <2>1. <<s, k>> \in stored
    <3>1. k \notin hoursOf[s]
      BY DEF FeederInv, NoneMissingAt
    <3> QED BY <1>4, <3>1
  <2>2. PICK b \in DOMAIN q : b <= FeederBatch /\ q[b] = <<s, k>>
    BY <1>2, <2>1
  <2>3. <<s, h>> \in Range(q)
    BY DEF FeederInv, NothingSkipped
  <2>4. PICK a \in DOMAIN q : q[a] = <<s, h>>
    BY <2>3 DEF Range
  <2>5. a + FeederBatch <= b
    BY <2>2, <2>4 DEF FeederInv, BatchesApart
  <2>6. a \in Nat /\ b \in Nat /\ a >= 1
    <3>1. DOMAIN q = 1 .. Len(q)
      BY <1>1
    <3> HIDE DEF q
    <3> QED BY <3>1
  <2> QED BY <1>1, <2>2, <2>5, <2>6
<1>11. NoneMissingAt(feederNow)'
  <2> SUFFICES ASSUME NEW full \in sinceFull', NEW s \in Feeders, NEW h \in Nat,
                      MeasuredIn(s, h) > full, InTime(s, h, feederNow), NEW k \in hoursOf'[s], h < k
               PROVE  Answered(s, h)'
    BY DEF NoneMissingAt, MeasuredIn, InTime
  <2>1. MeasuredIn(s, k) <= at /\ k \in Nat
    BY <1>3, <1>5
  <2>2. InTime(s, h, at)
    BY <1>1, <2>1, InTimeBefore
  <2> QED BY <1>10, <2>2 DEF NoneMissingAt, InTime, MeasuredIn
<1>12. (sinceFull # {} => \A s \in Feeders : hoursOf[s] # {})'
  BY <1>3 DEF FeederInv
<1>13. \A t \in ticking' : NoneMissingAt(t.at)'
  <2> SUFFICES ASSUME NEW t \in ticking' PROVE NoneMissingAt(t.at)'
    OBVIOUS
  <2>1. t.at = at
    BY <1>6
  <2> HIDE DEF at
  <2> QED BY <1>10, <2>1 DEF NoneMissingAt, InTime, MeasuredIn
<1> HIDE DEF at, q
<1> QED BY <1>4, <1>7, <1>8, <1>9, <1>11, <1>12, <1>13

LEMMA PublishBatchKeeps == ASSUME FeederInv, PublishBatch PROVE FeederInv'
<1>1. PICK tick \in ticking : \E stored \in SUBSET Range(Batch(tick.readings)) :
        /\ Store(stored) /\ turnedAway' = turnedAway \cup (Range(Batch(tick.readings)) \ stored)
        /\ ticking' = {[tick EXCEPT !.readings = SubSeq(@, FeederBatch + 1, Len(@))]}
        /\ UNCHANGED <<feederNow, sinceFull>>
  BY DEF PublishBatch
<1>2. PICK stored \in SUBSET Range(Batch(tick.readings)) :
        /\ Store(stored) /\ turnedAway' = turnedAway \cup (Range(Batch(tick.readings)) \ stored)
        /\ ticking' = {[tick EXCEPT !.readings = SubSeq(@, FeederBatch + 1, Len(@))]}
        /\ UNCHANGED <<feederNow, sinceFull>>
  BY <1>1
<1> DEFINE q == tick.readings
           rest == SubSeq(q, FeederBatch + 1, Len(q))
<1>3. tick = [at |-> tick.at, readings |-> q] /\ q \in Seq(Feeders \X Nat)
  BY DEF FeederInv, FeederTypeOK
<1>4. ticking' = {[at |-> tick.at, readings |-> rest]}
  <2>1. [tick EXCEPT !.readings = rest] = [at |-> tick.at, readings |-> rest]
    <3> HIDE DEF rest, q
    <3> QED BY <1>3
  <2> QED BY <1>2, <2>1
<1> HIDE DEF rest
<1>5. /\ rest \in Seq(Feeders \X Nat)
      /\ \A y \in Range(Batch(q)) : \E p \in DOMAIN q : p <= FeederBatch /\ q[p] = y
      /\ \A p \in DOMAIN rest : p + FeederBatch \in DOMAIN q /\ rest[p] = q[p + FeederBatch]
      /\ Range(q) \subseteq Range(Batch(q)) \cup Range(rest)
  BY <1>3, BatchAndRest DEF rest
<1>6. Range(Batch(q)) \subseteq Feeders \X Nat
  <2> SUFFICES ASSUME NEW y \in Range(Batch(q)) PROVE y \in Feeders \X Nat
    OBVIOUS
  <2>1. PICK p \in DOMAIN q : q[p] = y
    BY <1>5
  <2> HIDE DEF q
  <2> QED BY <1>3, <2>1
<1>7. turnedAway \subseteq turnedAway' /\ turnedAway' \subseteq Feeders \X Nat
  BY <1>2, <1>6 DEF FeederInv, FeederTypeOK
<1>8. /\ FeederTypeOK' /\ MeasuredBefore' /\ BatchesApart'
      /\ (sinceFull # {} => \A s \in Feeders : hoursOf[s] # {})'
      /\ NoneMissingAt(feederNow)' /\ \A t \in ticking' : NoneMissingAt(t.at)'
      /\ \A s \in Feeders, h \in Nat : h \in hoursOf[s] \/ <<s, h>> \in stored => h \in hoursOf'[s]
  <2>1. \E more \in Seq(Feeders \X Nat) :
          /\ ticking' = {[at |-> tick.at, readings |-> more]}
          /\ \A p \in DOMAIN more : p + FeederBatch \in DOMAIN tick.readings
                                  /\ more[p] = tick.readings[p + FeederBatch]
    BY <1>4, <1>5
  <2>2. Store(stored) /\ UNCHANGED <<feederNow, sinceFull>>
    BY <1>2
  <2> HIDE DEF q
  <2> QED BY <1>7, <2>1, <2>2, StoredOfABatch
<1>9. NothingSkipped'
  <2> SUFFICES ASSUME NEW full \in sinceFull, NEW s \in Feeders, NEW h \in Nat,
                      MeasuredIn(s, h) > full, InTime(s, h, tick.at), <<s, h>> \notin Range(rest)
               PROVE  Answered(s, h)'
    BY <1>2, <1>4 DEF NothingSkipped, InTime, MeasuredIn
  <2>1. Answered(s, h) \/ <<s, h>> \in Range(Batch(q))
    <3>1. Answered(s, h) \/ <<s, h>> \in Range(q)
      BY DEF FeederInv, NothingSkipped
    <3> QED BY <1>5, <3>1
  <2>2. CASE <<s, h>> \in stored \/ h \in hoursOf[s]
    BY <1>8, <2>2 DEF Answered
  <2>3. CASE <<s, h>> \notin stored /\ h \notin hoursOf[s]
    BY <1>2, <2>1, <2>3 DEF Answered
  <2> QED BY <2>2, <2>3
<1> QED BY <1>8, <1>9 DEF FeederInv

LEMMA CrashTickKeeps == ASSUME FeederInv, CrashTick PROVE FeederInv'
<1>1. PICK tick \in ticking : \E stored \in SUBSET Range(Batch(tick.readings)) :
        /\ Store(stored) /\ ticking' = {} /\ UNCHANGED <<feederNow, sinceFull, turnedAway>>
  BY DEF CrashTick
<1>2. PICK stored \in SUBSET Range(Batch(tick.readings)) :
        /\ Store(stored) /\ ticking' = {} /\ UNCHANGED <<feederNow, sinceFull, turnedAway>>
  BY <1>1
<1>3. turnedAway \subseteq turnedAway' /\ turnedAway' \subseteq Feeders \X Nat
  BY <1>2 DEF FeederInv, FeederTypeOK
<1>4. /\ FeederTypeOK' /\ MeasuredBefore' /\ BatchesApart'
      /\ (sinceFull # {} => \A s \in Feeders : hoursOf[s] # {})'
      /\ NoneMissingAt(feederNow)' /\ \A t \in ticking' : NoneMissingAt(t.at)'
  BY <1>2, <1>3, StoredOfABatch
<1>5. NothingSkipped'
  BY <1>2 DEF NothingSkipped
<1> QED BY <1>4, <1>5 DEF FeederInv

LEMMA FeederNextInv == FeederInv /\ [FeederNext]_feederVars => FeederInv'
<1> SUFFICES ASSUME FeederInv, [FeederNext]_feederVars PROVE FeederInv'
  OBVIOUS
<1>1. CASE FeederTime
  BY <1>1, FeederTimeKeeps
<1>2. CASE StartTick
  BY <1>2, StartTickKeeps
<1>3. CASE PublishBatch
  BY <1>3, PublishBatchKeeps
<1>4. CASE EndTick
  BY <1>4, EndTickKeeps
<1>5. CASE CrashTick
  BY <1>5, CrashTickKeeps
<1>6. CASE UNCHANGED feederVars
  BY <1>6 DEF feederVars, FeederInv, FeederTypeOK, MeasuredBefore, BatchesApart, NoneMissingAt, NothingSkipped,
              Answered, InTime, MeasuredIn
<1> QED BY <1>1, <1>2, <1>3, <1>4, <1>5, <1>6 DEF FeederNext

THEOREM FeederInvariance == FeederSpec => []FeederInv
BY FeederInitInv, FeederNextInv, PTL DEF FeederSpec

(* However often a tick dies half way, the next to end has left no hole in *)
(* what the network has published (apps/worker/src/feeder.ts).             *)
THEOREM NetworkHasNoHoles == FeederSpec => []FeederLeavesNoHole
<1>1. FeederInv => FeederLeavesNoHole
  <2> SUFFICES ASSUME FeederInv, NEW tick \in ticking, tick.readings = <<>>, NEW full \in sinceFull,
                      NEW s \in Feeders, NEW h \in HourOf(full) .. HourOf(tick.at),
                      InTime(s, h, tick.at), MeasuredIn(s, h) > full
               PROVE  Answered(s, h)
    BY DEF FeederLeavesNoHole, Answered, Feeders
  <2>1. h \in Nat
    <3>1. full \in Nat /\ tick.at \in Nat
      BY DEF FeederInv, FeederTypeOK
    <3>2. \A at \in Nat : HourOf(at) \in Nat
      BY DemoAssumption, Quotient DEF HourOf
    <3> QED BY <3>1, <3>2
  <2>2. Range(tick.readings) = {}
    BY DEF Range
  <2> QED BY <2>1, <2>2 DEF FeederInv, NothingSkipped
<1> QED BY <1>1, FeederInvariance, PTL
=============================================================================
