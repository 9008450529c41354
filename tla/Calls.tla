------------------------------- MODULE Calls -------------------------------
(***************************************************************************)
(* Calls in flight: a page or a script builds one from the accounts it     *)
(* read, others' calls land meanwhile, and the program takes it or not.    *)
(* The chain holds the accounts an address or a role depends on; what a    *)
(* call does beyond them is in Policies, Sensors and DayLog.  A call is    *)
(* taken here when its accounts, addresses and cells pass: amounts, days   *)
(* and whether the sensor is active are judged there, so that a            *)
(* reinstatement, say, may land here at any time.                          *)
(***************************************************************************)
EXTENDS Client

CONSTANTS CallOperators,    \* the wallets that register sensors
          CallKeys,         \* the keys of sensors
          CallOwners,       \* the wallets that buy a policy
          CallAggregators,  \* the keys the pool may be opened with as its aggregator
          CallCells

(* An account nobody has is nobody's.                                      *)
ASSUME CallsAssumption == Missing \notin CallOperators \cup CallKeys \cup CallOwners \cup CallAggregators

VARIABLES callChain,   \* address -> account
          callRead,    \* the accounts the caller read
          callMade     \* the call in flight, if any

callVars == <<callChain, callRead, callMade>>

Authority == <<"authority">>
Nonce     == "nonce"
Asset     == [mint |-> <<"usdc">>, program |-> <<"token">>]
CallWallets   == CallOperators \cup CallOwners
TokensOf(wallet) == AssociatedTokenAddress(wallet, Asset.mint, Asset.program)

(* The fields of the accounts that an address or a role is read from. *)
PoolAccount(authority, mint, aggregator) ==
  [authority |-> authority, assetMint |-> mint, vault |-> VaultPda, stakeVault |-> StakeVaultPda,
   aggregator |-> aggregator]

SensorAccount(key, operator, cellId, previousCellId) ==
  [sensorKey |-> key, operator |-> operator, cellId |-> cellId, previousCellId |-> previousCellId]

PolicyAccount(owner, nonce, cellId) == [owner |-> owner, nonce |-> nonce, cellId |-> cellId]

CallsTokens ==
  WithEntry([a \in {TokensOf(w) : w \in CallWallets} |-> [authority |-> a[2]]],
            Asset.mint, [program |-> Asset.program])

CallsInit ==
  /\ callChain = CallsTokens
  /\ callRead  = CallsTokens
  /\ callMade  = {}

(***************************************************************************)
(* The calls the accounts read allow: every builder, with the addresses a  *)
(* page takes from the accounts.                                           *)
(***************************************************************************)
SensorsRead(read)  == {read[a] : a \in {SensorPda(k) : k \in CallKeys} \cap DOMAIN read}
PoliciesRead(read) == {read[a] : a \in {PolicyPda(o, Nonce) : o \in CallOwners} \cap DOMAIN read}

SensorCalls(s, key) ==
  LET tokens == TokensOf(s.operator) IN
  {StakeSensorInstruction(s.operator, key, Asset, tokens, "amount"),
   RequestUnstakeInstruction(s.operator, key, "amount"),
   WithdrawStakeInstruction(s.operator, key, Asset, tokens),
   ExcludeSensorInstruction(s.operator, key, s.cellId, s.previousCellId, Asset),
   ReinstateSensorInstruction(s.operator, key, s.cellId),
   ClaimRewardInstruction(s.operator, key, s.cellId, Asset, tokens),
   ClaimRewardInstruction(s.operator, key, s.previousCellId, Asset, tokens)}
  \cup {MoveSensorInstruction(s.operator, key, c, s.previousCellId) : c \in CallCells \ {s.cellId}}

PolicyCalls(p, caller) ==
  {SettlePolicyInstruction(caller, p.owner, p.nonce, p.cellId, Asset, TokensOf(p.owner)),
   ClosePolicyInstruction(caller, p.owner, p.nonce, p.cellId),
   ClaimUnclaimedPayoutInstruction(caller, p.owner, p.nonce, p.cellId, Asset, TokensOf(p.owner))}

PoolCalls(read) ==
  LET aggregator == read[PoolPda].aggregator  authority == read[PoolPda].authority IN
  {SetPoolParamsInstruction(authority)}
  \cup {DepositCapitalInstruction(w, Asset, TokensOf(w)) : w \in CallWallets}
  \cup (UNION {{SubmitDayRecordInstruction(aggregator, c), SubmitDayReputationInstruction(aggregator, c),
                OpenInvestigationInstruction(aggregator, c), CloseInvestigationInstruction(authority, c)} : c \in CallCells})
  \cup {IssuePolicyInstruction(o, Asset, TokensOf(o), Nonce, c) :
          o \in {w \in CallOwners : PolicyPda(w, Nonce) \notin DOMAIN read}, c \in CallCells}
  \cup {RegisterSensorInstruction(o, k, c) :
          o \in CallOperators, k \in {x \in CallKeys : SensorPda(x) \notin DOMAIN read}, c \in CallCells}

CallsFrom(read) ==
  IF PoolPda \notin DOMAIN read THEN {InitializePoolInstruction(Authority, Asset, a) : a \in CallAggregators}
  ELSE PoolCalls(read)
       \cup (UNION {SensorCalls(s, s.sensorKey) : s \in SensorsRead(read)})
       \cup (UNION {PolicyCalls(p, Authority) : p \in PoliciesRead(read)})

(***************************************************************************)
(* The accounts a call the program takes leaves behind.                    *)
(***************************************************************************)
Landed(call, chain) ==
  LET at == call.accounts  args == call.args IN
  CASE call.name = "initializePool" ->
         WithEntry(chain, PoolPda, PoolAccount(at["authority"], at["assetMint"], args["aggregator"]))
    [] call.name = "registerSensor" ->
         WithEntry(chain, at["sensor"],
                   SensorAccount(at["sensorKey"], at["operator"], args["cellId"], args["cellId"]))
    [] call.name = "moveSensor" ->
         [chain EXCEPT ![at["sensor"]].previousCellId = chain[at["sensor"]].cellId,
                       ![at["sensor"]].cellId = args["cellId"]]
    [] call.name = "reinstateSensor" ->
         [chain EXCEPT ![at["sensor"]].previousCellId = chain[at["sensor"]].cellId]
    [] call.name = "issuePolicy" ->
         WithEntry(chain, at["policy"], PolicyAccount(at["owner"], args["nonce"], args["cellId"]))
    [] OTHER -> chain

ReadAccounts ==
  /\ callMade = {} /\ callRead # callChain
  /\ callRead' = callChain
  /\ UNCHANGED <<callChain, callMade>>

BuildCall ==
  /\ callMade = {}
  /\ \E call \in CallsFrom(callRead) : callMade' = {call}
  /\ UNCHANGED <<callChain, callRead>>

CallLands ==
  /\ \E call \in callMade :
       callChain' = IF Accepts(call, callChain) THEN Landed(call, callChain) ELSE callChain
  /\ callMade' = {}
  /\ UNCHANGED callRead

(* Another caller, who read the accounts a moment ago. *)
AnotherCallLands ==
  /\ \E call \in CallsFrom(callChain) :
       Accepts(call, callChain) /\ callChain' = Landed(call, callChain)
  /\ UNCHANGED <<callRead, callMade>>

CallsNext == ReadAccounts \/ BuildCall \/ CallLands \/ AnotherCallLands

CallsSpec == CallsInit /\ [][CallsNext]_callVars

(***************************************************************************)
(* Properties.                                                             *)
(***************************************************************************)

(* A call built from what the chain holds is laid out as the program       *)
(* expects it: the client's accounts and the program's seeds, roles and    *)
(* constraints agree on all nineteen instructions, wherever the sensor has *)
(* been; and what no field seed can derive, the builder has supplied.      *)
FreshCallsLand ==
  /\ callRead = callChain => \A call \in CallsFrom(callRead) : Accepts(call, callChain)
  /\ \A call \in callMade : ~Throws(call)

(* A stale call never does its work on other accounts than a fresh one     *)
(* would name: if the program takes it, somebody who read the chain just   *)
(* now would have built the same call.                                     *)
AcceptedMeansFresh ==
  \A call \in callMade : Accepts(call, callChain) => call \in CallsFrom(callChain)

(* A call the program takes is the call of somebody who has read the chain *)
(* as it is, and theirs are all taken (instructions.ts against #[derive(   *)
(* Accounts)] of every instruction).                                       *)
ClientAgreesWithProgram == FreshCallsLand /\ AcceptedMeansFresh
=============================================================================
