------------------------------ MODULE MCChain -------------------------------
(***************************************************************************)
(* The parts that keep, name or price what is on chain, each on an         *)
(* instance of its own; a behaviour is one part's.                         *)
(*                                                                         *)
(* DayLog:    a ring of three days and a clock that runs twice round it    *)
(*            and beyond.                                                  *)
(* DrySpell:  every well-formed ring of three days whose last record is    *)
(*            day 4 at the latest, and windows before, inside, after and   *)
(*            across it.                                                   *)
(* Calls:     one operator, one sensor that moves and is reinstated, one   *)
(*            policy owner, two cells, a pool opened with either of two    *)
(*            aggregators.                                                 *)
(* Sensors:   one sensor with a stake and one that takes a slot, two cells *)
(*            of two slots, one transaction in flight.                     *)
(* Merkle:    days of up to five intervals.                                *)
(* Collusion: cells of up to five slots, and up to five honest votes.      *)
(***************************************************************************)
EXTENDS DayLog, DrySpell, Calls, Sensors, Merkle, Collusion

VARIABLE part

MCReadable ==
  {c \in [first : 0 .. 2, last : -1 .. 4,
          log : [RingSlots -> DayStates], contributors : [RingSlots -> {{}}]] :
     TracksLast(c) /\ OnlyWindowFilled(c)}

MCOperators   == {<<"op">>}
MCKeys        == {<<"key">>}
MCOwners      == {<<"own">>}
MCAggregators == {<<"agg1">>, <<"agg2">>}

MCColumnMin == -9
MCSymmetry  == Permutations(SensorCells)

(* A loop that has read its window, for the parts that are not DrySpell.   *)
IdleLoop ==
  /\ spellCell = EmptyCell /\ start = 0 /\ end = 0 /\ day = 0
  /\ run = 0 /\ best = 0 /\ complete = TRUE

(* No cell to price and nobody who reads accounts, likewise.               *)
NoCaller ==
  callChain = CallsTokens /\ callRead = <<>> /\ callMade = {}

NoPrice ==
  /\ rows = <<>> /\ givenUp = 0 /\ votes = <<>>
  /\ pool = [minStake |-> 2, minVotes |-> 1, capital |-> 4, exposureBps |-> 5000]

(* And a registry with no slot to give.                                    *)
NoRegistry ==
  /\ chain = [RegistryStart EXCEPT !.taken = [c \in SensorCells |-> SlotsPerCell]]
  /\ mirror = <<>> /\ sent = {} /\ dropped = {} /\ askedOn = [k \in SensorKeys |-> Never]

ChainInit ==
  /\ Init /\ MerkleInit
  /\ \/ part = "spell" /\ SpellInit /\ NoPrice /\ NoCaller /\ NoRegistry
     \/ part = "collusion" /\ IdleLoop /\ CollusionInit /\ NoCaller /\ NoRegistry
     \/ part = "calls" /\ IdleLoop /\ NoPrice /\ CallsInit /\ NoRegistry
     \/ part = "sensors" /\ IdleLoop /\ NoPrice /\ NoCaller /\ SensorsInit
     \/ part \in {"log", "merkle"} /\ IdleLoop /\ NoPrice /\ NoCaller /\ NoRegistry

ChainNext ==
  /\ UNCHANGED part
  /\ \/ part = "log" /\ Next /\ UNCHANGED <<spellVars, callVars, sensorVars, leaves, priceVars>>
     \/ part = "spell" /\ SpellNext /\ UNCHANGED <<vars, callVars, sensorVars, leaves, priceVars>>
     \/ part = "calls" /\ CallsNext /\ UNCHANGED <<vars, spellVars, sensorVars, leaves, priceVars>>
     \/ part = "sensors" /\ SensorsNext /\ UNCHANGED <<vars, spellVars, callVars, leaves, priceVars>>
     \/ part = "merkle" /\ MerkleNext /\ UNCHANGED <<vars, spellVars, callVars, sensorVars, priceVars>>
     \/ part = "collusion" /\ CollusionNext /\ UNCHANGED <<vars, spellVars, callVars, sensorVars, leaves>>

ChainSpec == ChainInit /\ [][ChainNext]_<<part, vars, spellVars, callVars, sensorVars, leaves, priceVars>>
=============================================================================
