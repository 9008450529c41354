------------------------------- MODULE Client -------------------------------
(***************************************************************************)
(* What a caller sends: packages/anchor-client.  An instruction's accounts *)
(* are laid out by the IDL (src/idl/idl.ts), which buildInstruction        *)
(* interprets, and a builder supplies what the IDL cannot derive.  The     *)
(* program has the same list, and reads on chain what the client could     *)
(* not: Accepts is its side of every call.                                 *)
(*                                                                         *)
(* An address is the sequence of its seeds, whatever the hash; encodings   *)
(* and bumps are left out.  Amounts and terms are arguments no address     *)
(* depends on, and are left out where nothing else reads them.             *)
(***************************************************************************)
EXTENDS Integers, Sequences, SequencesExt, FiniteSets

(***************************************************************************)
(* The IDL.                                                                *)
(***************************************************************************)
Const(prefix)    == [kind |-> "const", path |-> prefix]
Arg(name)        == [kind |-> "arg", path |-> name]
Account(name)    == [kind |-> "account", path |-> name]
Field(of, field) == [kind |-> "field", path |-> of, field |-> field]

Item(name, signs, seeds) == [name |-> name, signs |-> signs, seeds |-> seeds]
Signer(name)      == Item(name, TRUE, <<>>)
Plain(name)       == Item(name, FALSE, <<>>)
Derived(n, seeds) == Item(n, FALSE, seeds)

ThePool          == Derived("pool", <<Const("pool")>>)
SensorByKey      == Derived("sensor", <<Const("sensor"), Account("sensorKey")>>)
SensorByItself   == Derived("sensor", <<Const("sensor"), Field("sensor", "sensorKey")>>)
CellByArg        == Derived("cell", <<Const("cell"), Arg("cellId")>>)
CellOfPolicy     == Derived("cell", <<Const("cell"), Field("policy", "cellId")>>)
PolicyByItself   == Derived("policy", <<Const("policy"), Field("policy", "owner"), Field("policy", "nonce")>>)
InCell(name, prefix, field) == Derived(name, <<Const(prefix), Field("sensor", field)>>)

IdlClaimReward ==
  <<Signer("caller"), ThePool, SensorByItself, Derived("rewards", <<Const("rewards"), Arg("cellId")>>),
    Plain("assetMint"), Plain("vault"), Plain("operatorTokens"), Plain("tokenProgram")>>

IdlClaimUnclaimedPayout ==
  <<Signer("caller"), ThePool, CellOfPolicy, PolicyByItself,
    Plain("assetMint"), Plain("vault"), Plain("ownerTokens"), Plain("tokenProgram")>>

IdlCloseInvestigation == <<Signer("authority"), ThePool, CellByArg>>

IdlClosePolicy == <<Signer("caller"), ThePool, CellOfPolicy, PolicyByItself>>

IdlDepositCapital ==
  <<Signer("depositor"), ThePool, Plain("assetMint"), Plain("vault"), Plain("depositorTokens"),
    Derived("position", <<Const("lp"), Account("depositor")>>), Plain("tokenProgram")>>

IdlExcludeSensor ==
  <<Signer("caller"), ThePool, SensorByItself,
    InCell("reputation", "reputation", "cellId"), InCell("previousReputation", "reputation", "previousCellId"),
    InCell("rewards", "rewards", "cellId"), InCell("previousRewards", "rewards", "previousCellId"),
    Plain("assetMint"), Plain("stakeVault"), Plain("vault"), Plain("tokenProgram")>>

IdlInitializePool ==
  <<Signer("authority"), ThePool, Plain("assetMint"),
    Derived("vault", <<Const("vault"), Account("pool")>>),
    Derived("stakeVault", <<Const("stake_vault"), Account("pool")>>), Plain("tokenProgram")>>

IdlIssuePolicy ==
  <<Signer("owner"), ThePool, CellByArg, Derived("policy", <<Const("policy"), Account("owner"), Arg("nonce")>>),
    Derived("rewards", <<Const("rewards"), Arg("cellId")>>),
    Plain("assetMint"), Plain("vault"), Plain("ownerTokens"), Plain("tokenProgram")>>

(* Mutant: the schedule of the slot before the last move is anybody's.     *)
IdlMoveSensorUnseeded ==
  <<Signer("operator"), Signer("sensorKey"), ThePool, SensorByKey, CellByArg, Plain("previousRewards")>>

IdlMoveSensor ==
  <<Signer("operator"), Signer("sensorKey"), ThePool, SensorByKey, CellByArg,
    InCell("previousRewards", "rewards", "previousCellId")>>

IdlOpenInvestigation == <<Signer("aggregator"), ThePool, CellByArg>>

IdlRegisterSensor == <<Signer("operator"), Signer("sensorKey"), ThePool, CellByArg, SensorByKey>>

IdlReinstateSensor == <<Signer("operator"), SensorByItself, InCell("reputation", "reputation", "cellId")>>

IdlRequestUnstake == <<Signer("operator"), ThePool, SensorByItself>>

IdlSetPoolParams == <<Signer("authority"), ThePool>>

IdlSettlePolicy ==
  <<Signer("caller"), ThePool, CellOfPolicy, PolicyByItself,
    Plain("assetMint"), Plain("vault"), Plain("ownerTokens"), Plain("tokenProgram")>>

IdlStakeSensor ==
  <<Signer("operator"), ThePool, SensorByItself,
    Plain("assetMint"), Plain("stakeVault"), Plain("operatorTokens"), Plain("tokenProgram")>>

IdlSubmitDayRecord == <<Signer("aggregator"), ThePool, CellByArg>>

IdlSubmitDayReputation ==
  <<Signer("aggregator"), ThePool, CellByArg,
    Derived("reputation", <<Const("reputation"), Arg("cellId")>>),
    Derived("rewards", <<Const("rewards"), Arg("cellId")>>)>>

IdlWithdrawStake ==
  <<Signer("operator"), ThePool, SensorByItself,
    Plain("assetMint"), Plain("stakeVault"), Plain("operatorTokens"), Plain("tokenProgram")>>

Idl ==
  [claimReward |-> IdlClaimReward, claimUnclaimedPayout |-> IdlClaimUnclaimedPayout,
   closeInvestigation |-> IdlCloseInvestigation, closePolicy |-> IdlClosePolicy,
   depositCapital |-> IdlDepositCapital, excludeSensor |-> IdlExcludeSensor,
   initializePool |-> IdlInitializePool, issuePolicy |-> IdlIssuePolicy,
   moveSensor |-> IdlMoveSensor, openInvestigation |-> IdlOpenInvestigation,
   registerSensor |-> IdlRegisterSensor, reinstateSensor |-> IdlReinstateSensor,
   requestUnstake |-> IdlRequestUnstake, setPoolParams |-> IdlSetPoolParams,
   settlePolicy |-> IdlSettlePolicy, stakeSensor |-> IdlStakeSensor,
   submitDayRecord |-> IdlSubmitDayRecord, submitDayReputation |-> IdlSubmitDayReputation,
   withdrawStake |-> IdlWithdrawStake]

(***************************************************************************)
(* Building a call.  An address nobody supplied and nothing derives is     *)
(* Missing: the builder throws.                                            *)
(***************************************************************************)
Missing == <<>>

(* A field of an account only the chain holds cannot be followed. *)
SeedValue(seed, resolved, args) ==
  CASE seed.kind = "const"                                         -> {seed.path}
    [] seed.kind = "account" /\ seed.path \in DOMAIN resolved      -> {resolved[seed.path]}
    [] seed.kind = "arg" /\ seed.path \in DOMAIN args              -> {args[seed.path]}
    [] OTHER                                                       -> {}

DeriveFromIdl(seeds, resolved, args) ==
  IF seeds = <<>> \/ \E i \in DOMAIN seeds : SeedValue(seeds[i], resolved, args) = {} THEN Missing
  ELSE [i \in DOMAIN seeds |-> CHOOSE v \in SeedValue(seeds[i], resolved, args) : TRUE]

(* A map with one entry more, or another one.                              *)
WithEntry(map, key, value) == [x \in DOMAIN map \cup {key} |-> IF x = key THEN value ELSE map[x]]

ResolveAccount(item, resolved, supplied, args) ==
  IF item.name \in DOMAIN supplied THEN supplied[item.name]
  ELSE DeriveFromIdl(item.seeds, resolved, args)

BuildInstruction(name, supplied, args) ==
  [name     |-> name,
   args     |-> args,
   accounts |-> FoldLeft(LAMBDA resolved, item :
                           WithEntry(resolved, item.name, ResolveAccount(item, resolved, supplied, args)),
                         <<>>, Idl[name])]

Throws(call) == Missing \in {call.accounts[n] : n \in DOMAIN call.accounts}

SignersOf(call) == {call.accounts[n] : n \in {item.name : item \in
                     {Idl[call.name][i] : i \in {j \in DOMAIN Idl[call.name] : Idl[call.name][j].signs}}}}

(***************************************************************************)
(* Addresses (pda.ts), and the token account of a wallet.                  *)
(***************************************************************************)
PoolPda               == <<"pool">>
VaultPda              == <<"vault", PoolPda>>
StakeVaultPda         == <<"stake_vault", PoolPda>>
CellPda(cellId)       == <<"cell", cellId>>
ReputationPda(cellId) == <<"reputation", cellId>>
RewardsPda(cellId)    == <<"rewards", cellId>>
SensorPda(sensorKey)  == <<"sensor", sensorKey>>
PolicyPda(owner, n)   == <<"policy", owner, n>>

AssociatedTokenAddress(owner, mint, tokenProgram) == <<"ata", owner, tokenProgram, mint>>

(***************************************************************************)
(* The builders (instructions.ts).  asset is the mint and its program.     *)
(***************************************************************************)
Assets(asset, rest) == WithEntry(WithEntry(rest, "assetMint", asset.mint), "tokenProgram", asset.program)

InitializePoolInstruction(authority, asset, aggregator) ==
  BuildInstruction("initializePool",
    [authority |-> authority, assetMint |-> asset.mint, tokenProgram |-> asset.program],
    [aggregator |-> aggregator])

SetPoolParamsInstruction(authority) == BuildInstruction("setPoolParams", [authority |-> authority], <<>>)

DepositCapitalInstruction(depositor, asset, tokens) ==
  BuildInstruction("depositCapital",
    Assets(asset, [depositor |-> depositor, vault |-> VaultPda, depositorTokens |-> tokens]), <<>>)

IssuePolicyInstruction(owner, asset, tokens, nonce, cellId) ==
  BuildInstruction("issuePolicy",
    Assets(asset, [owner |-> owner, vault |-> VaultPda, ownerTokens |-> tokens]),
    [nonce |-> nonce, cellId |-> cellId])

SubmitDayRecordInstruction(aggregator, cellId) ==
  BuildInstruction("submitDayRecord", [aggregator |-> aggregator], [cellId |-> cellId])

PolicyCall(name, caller, owner, nonce, cellId, asset, tokens) ==
  BuildInstruction(name,
    Assets(asset, [caller |-> caller, policy |-> PolicyPda(owner, nonce), cell |-> CellPda(cellId),
                   vault |-> VaultPda, ownerTokens |-> tokens]), <<>>)

SettlePolicyInstruction(caller, owner, nonce, cellId, asset, tokens) ==
  PolicyCall("settlePolicy", caller, owner, nonce, cellId, asset, tokens)

ClosePolicyInstruction(caller, owner, nonce, cellId) ==
  BuildInstruction("closePolicy",
    [caller |-> caller, policy |-> PolicyPda(owner, nonce), cell |-> CellPda(cellId)], <<>>)

ClaimUnclaimedPayoutInstruction(caller, owner, nonce, cellId, asset, tokens) ==
  PolicyCall("claimUnclaimedPayout", caller, owner, nonce, cellId, asset, tokens)

RegisterSensorInstruction(operator, sensorKey, cellId) ==
  BuildInstruction("registerSensor", [operator |-> operator, sensorKey |-> sensorKey], [cellId |-> cellId])

StakeSensorInstruction(operator, sensorKey, asset, tokens, amount) ==
  BuildInstruction("stakeSensor",
    Assets(asset, [operator |-> operator, sensor |-> SensorPda(sensorKey),
                   stakeVault |-> StakeVaultPda, operatorTokens |-> tokens]), [amount |-> amount])

RequestUnstakeInstruction(operator, sensorKey, amount) ==
  BuildInstruction("requestUnstake",
    [operator |-> operator, sensor |-> SensorPda(sensorKey)], [amount |-> amount])

WithdrawStakeInstruction(operator, sensorKey, asset, tokens) ==
  BuildInstruction("withdrawStake",
    Assets(asset, [operator |-> operator, sensor |-> SensorPda(sensorKey),
                   stakeVault |-> StakeVaultPda, operatorTokens |-> tokens]), <<>>)

SubmitDayReputationInstruction(aggregator, cellId) ==
  BuildInstruction("submitDayReputation", [aggregator |-> aggregator], [cellId |-> cellId])

(* Mutant: both rings are the one of the cell the sensor is in.            *)
ExcludeOnOneRing(caller, sensorKey, cellId, previousCellId, asset) ==
  BuildInstruction("excludeSensor",
    Assets(asset, [caller |-> caller, sensor |-> SensorPda(sensorKey),
                   reputation |-> ReputationPda(cellId), previousReputation |-> ReputationPda(cellId),
                   rewards |-> RewardsPda(cellId), previousRewards |-> RewardsPda(previousCellId),
                   stakeVault |-> StakeVaultPda, vault |-> VaultPda]), <<>>)

ExcludeSensorInstruction(caller, sensorKey, cellId, previousCellId, asset) ==
  BuildInstruction("excludeSensor",
    Assets(asset, [caller |-> caller, sensor |-> SensorPda(sensorKey),
                   reputation |-> ReputationPda(cellId), previousReputation |-> ReputationPda(previousCellId),
                   rewards |-> RewardsPda(cellId), previousRewards |-> RewardsPda(previousCellId),
                   stakeVault |-> StakeVaultPda, vault |-> VaultPda]), <<>>)

ReinstateSensorInstruction(operator, sensorKey, cellId) ==
  BuildInstruction("reinstateSensor",
    [operator |-> operator, sensor |-> SensorPda(sensorKey), reputation |-> ReputationPda(cellId)], <<>>)

ClaimRewardInstruction(caller, sensorKey, cellId, asset, tokens) ==
  BuildInstruction("claimReward",
    Assets(asset, [caller |-> caller, sensor |-> SensorPda(sensorKey), vault |-> VaultPda,
                   operatorTokens |-> tokens]), [cellId |-> cellId])

(* Mutant: the schedule of the cell before the last move is not supplied.  *)
MoveSensorUnscheduled(operator, sensorKey, cellId, previousCellId) ==
  BuildInstruction("moveSensor", [operator |-> operator, sensorKey |-> sensorKey], [cellId |-> cellId])

MoveSensorInstruction(operator, sensorKey, cellId, previousCellId) ==
  BuildInstruction("moveSensor",
    [operator |-> operator, sensorKey |-> sensorKey, previousRewards |-> RewardsPda(previousCellId)],
    [cellId |-> cellId])

OpenInvestigationInstruction(aggregator, cellId) ==
  BuildInstruction("openInvestigation", [aggregator |-> aggregator], [cellId |-> cellId])

CloseInvestigationInstruction(authority, cellId) ==
  BuildInstruction("closeInvestigation", [authority |-> authority], [cellId |-> cellId])

(***************************************************************************)
(* The program's side.  chain maps the address of an account it holds to   *)
(* the account; a seed that is a field is read from the account itself.    *)
(***************************************************************************)
ProgramSeed(seed, call, chain) ==
  CASE seed.kind = "const"   -> {seed.path}
    [] seed.kind = "account" -> {call.accounts[seed.path]}
    [] seed.kind = "arg"     -> {call.args[seed.path]}
    [] seed.kind = "field"   -> IF call.accounts[seed.path] \notin DOMAIN chain THEN {}
                                ELSE {chain[call.accounts[seed.path]][seed.field]}

SeedsHold(item, call, chain) ==
  item.seeds # <<>> =>
    /\ \A i \in DOMAIN item.seeds : ProgramSeed(item.seeds[i], call, chain) # {}
    /\ call.accounts[item.name] =
         [i \in DOMAIN item.seeds |-> CHOOSE v \in ProgramSeed(item.seeds[i], call, chain) : TRUE]

(* address = pool.x, has_one, and the authority over a token account.      *)
RolesHold(call, chain) ==
  LET at == call.accounts  pool == chain[PoolPda]  names == DOMAIN at
      holds(tokens, wallet) == at[tokens] \in DOMAIN chain /\ chain[at[tokens]].authority = wallet IN
  /\ "assetMint" \in names => at["assetMint"] = pool.assetMint /\ at["tokenProgram"] = chain[pool.assetMint].program
  /\ "vault" \in names => at["vault"] = pool.vault
  /\ "stakeVault" \in names => at["stakeVault"] = pool.stakeVault
  /\ "aggregator" \in names => at["aggregator"] = pool.aggregator
  /\ "authority" \in names => at["authority"] = pool.authority
  /\ "operator" \in names /\ call.name # "registerSensor" => at["operator"] = chain[at["sensor"]].operator
  /\ "operatorTokens" \in names => holds("operatorTokens", chain[at["sensor"]].operator)
  /\ "depositorTokens" \in names => holds("depositorTokens", at["depositor"])
  /\ "ownerTokens" \in names =>
       holds("ownerTokens", IF call.name = "issuePolicy" THEN at["owner"] ELSE chain[at["policy"]].owner)

(* The accounts an instruction opens are not there yet (init). *)
Opened(name) ==
  CASE name = "initializePool" -> {"pool", "vault", "stakeVault"}
    [] name = "registerSensor" -> {"sensor"}
    [] name = "issuePolicy"    -> {"policy"}
    [] OTHER                   -> {}

(* What a handler asks of the cell it is given. *)
CellIsTheSensors(call, chain) ==
  /\ call.name = "claimReward" =>
       call.args["cellId"] \in {chain[call.accounts["sensor"]].cellId, chain[call.accounts["sensor"]].previousCellId}
  /\ call.name = "moveSensor" => call.args["cellId"] # chain[call.accounts["sensor"]].cellId

Accepts(call, chain) ==
  /\ ~Throws(call)
  /\ \A n \in Opened(call.name) : call.accounts[n] \notin DOMAIN chain
  /\ {call.accounts[n] : n \in {"pool", "sensor", "policy"} \cap (DOMAIN call.accounts \ Opened(call.name))} \subseteq DOMAIN chain
  /\ \A i \in DOMAIN Idl[call.name] : SeedsHold(Idl[call.name][i], call, chain)
  /\ call.name # "initializePool" => RolesHold(call, chain)
  /\ CellIsTheSensors(call, chain)
=============================================================================
