----------------------------- MODULE CallProofs -----------------------------
(***************************************************************************)
(* The client and the program agree on a call, for every set of wallets,   *)
(* keys and cells and every order in which calls land: what a caller built *)
(* from the accounts as they are is taken, and what was built from older   *)
(* accounts and is taken all the same is what a fresh caller would send.   *)
(*                                                                         *)
(* The argument: buildInstruction goes through an instruction's items in   *)
(* their order, so its accounts are what each item's seeds derive or the   *)
(* builder supplied (AllLaidOut).  That lays out the nineteen lists, each  *)
(* by its builder (the lemmas ...Accounts), and what the same items ask on *)
(* the program's side is compared with it (ItemsAsk, ...Taken).  Of older  *)
(* accounts the operator of a sensor and the cell of a policy are as they  *)
(* were (Older); every other field a builder follows is asked for by a     *)
(* seed or a role, so that a call taken has named what the chain holds     *)
(* (the lemmas ...Names).                                                  *)
(***************************************************************************)
EXTENDS Calls, Sums

(***************************************************************************)
(* Building a call.                                                        *)
(***************************************************************************)
WithAccount(resolved, item, supplied, args) ==
  WithEntry(resolved, item.name, ResolveAccount(item, resolved, supplied, args))

(* The accounts of the first items, for each number of them.               *)
ResolvedInOrder(items, n, supplied, args, r) ==
  /\ r[0] = <<>>
  /\ \A k \in 1 .. n : r[k] = WithAccount(r[k - 1], items[k], supplied, args)

(* The first items of a list, counted; the last of them taken away leaves  *)
(* one less.                                                               *)
LEMMA ItemsBefore ==
  ASSUME NEW n \in Nat
  PROVE  /\ \A s \in (SUBSET (1 .. n)) \ {{}} :
              /\ Cardinality(s) \in 1 .. n /\ s \ {LastOf(s)} \in SUBSET (1 .. n)
              /\ Cardinality(s \ {LastOf(s)}) = Cardinality(s) - 1
         /\ Cardinality({}) = 0 /\ Cardinality(1 .. n) = n
         /\ \A s \in SUBSET (1 .. n) : Cardinality(s) \in 0 .. n
<1>1. Cardinality({}) = 0 /\ Cardinality(1 .. n) = n /\ IsFiniteSet(1 .. n)
  BY FS_EmptySet, FS_Interval
<1>2. ASSUME NEW s \in SUBSET (1 .. n) PROVE IsFiniteSet(s) /\ Cardinality(s) \in 0 .. n
  <2> DEFINE all == 1 .. n
  <2>1. IsFiniteSet(all) /\ Cardinality(all) = n /\ s \subseteq all
    BY <1>1
  <2> HIDE DEF all
  <2>2. IsFiniteSet(s) /\ Cardinality(s) <= n
    BY <2>1, FS_Subset
  <2> QED BY <2>2, FS_CardinalityType
<1>3. ASSUME NEW s \in (SUBSET (1 .. n)) \ {{}}
      PROVE  /\ Cardinality(s) \in 1 .. n /\ s \ {LastOf(s)} \in SUBSET (1 .. n)
             /\ Cardinality(s \ {LastOf(s)}) = Cardinality(s) - 1
  <2>1. LastOf(s) \in s /\ s \ {LastOf(s)} \in SUBSET (1 .. n)
    BY LastIsOne
  <2>2. Cardinality(s \ {LastOf(s)}) = Cardinality(s) - 1
    BY <1>2, <2>1, FS_RemoveElement
  <2>3. Cardinality(s) \in 0 .. n /\ Cardinality(s \ {LastOf(s)}) \in 0 .. n
    BY <1>2, <2>1
  <2> QED BY <2>1, <2>2, <2>3
<1> QED BY <1>1, <1>2, <1>3

(* buildInstruction goes through the items in their order, and ends with   *)
(* the accounts of them all.                                               *)
LEMMA BuiltInOrder ==
  ASSUME NEW name, NEW n \in Nat, DOMAIN Idl[name] = 1 .. n, NEW supplied, NEW args
  PROVE  \E r : /\ ResolvedInOrder(Idl[name], n, supplied, args, r)
                /\ BuildInstruction(name, supplied, args) = [name |-> name, args |-> args, accounts |-> r[n]]
<1> DEFINE items == Idl[name]
           next(resolved, item) == WithAccount(resolved, item, supplied, args)
           Solves(g) == g = [s \in SUBSET (1 .. n) |->
                               IF s = {} THEN <<>> ELSE next(g[s \ {LastOf(s)}], items[LastOf(s)])]
           iter == CHOOSE g : Solves(g)
           r == [k \in 0 .. n |-> iter[1 .. k]]
           Fine(k, g) == \A s \in SUBSET (1 .. n) : Cardinality(s) <= k =>
                           g[s] = IF s = {} THEN <<>> ELSE next(g[s \ {LastOf(s)}], items[LastOf(s)])
           Over(g) == [s \in SUBSET (1 .. n) |->
                         IF s = {} THEN <<>> ELSE next(g[s \ {LastOf(s)}], items[LastOf(s)])]
           Good == {k \in 0 .. n : \E g : Fine(k, g)}
<1>1. BuildInstruction(name, supplied, args) = [name |-> name, args |-> args, accounts |-> iter[1 .. n]]
  BY DEF BuildInstruction, FoldLeft, MapThenFoldSet, Max, LastOf, WithAccount
<1> HIDE DEF next, items
<1>2. 0 \in Good
  <2> DEFINE g == [s \in SUBSET (1 .. n) |-> <<>>]
  <2>1. ASSUME NEW s \in SUBSET (1 .. n), Cardinality(s) <= 0 PROVE s = {}
    <3>1. s # {} => Cardinality(s) \in 1 .. n
      BY ItemsBefore
    <3> QED BY <2>1, <3>1
  <2>2. Fine(0, g)
    BY <2>1
  <2> HIDE DEF Fine
  <2> QED BY <2>2
<1>3. ASSUME NEW k \in 1 .. n, k - 1 \in Good PROVE k \in Good
  <2>1. PICK g : Fine(k - 1, g)
    BY <1>3
  <2>2. ASSUME NEW s \in SUBSET (1 .. n), s # {}, Cardinality(s) <= k
        PROVE  Over(g)[s] = next(Over(g)[s \ {LastOf(s)}], items[LastOf(s)])
    <3> DEFINE t == s \ {LastOf(s)}
    <3>1. t \in SUBSET (1 .. n) /\ Cardinality(t) <= k - 1
      <4>1. s \in (SUBSET (1 .. n)) \ {{}}
        BY <2>2
      <4>2. t \in SUBSET (1 .. n) /\ Cardinality(s) \in 1 .. n /\ Cardinality(t) = Cardinality(s) - 1
        BY <4>1, ItemsBefore
      <4> HIDE DEF t
      <4> QED BY <2>2, <4>2
    <3>2. Over(g)[t] = g[t]
      <4>1. g[t] = IF t = {} THEN <<>> ELSE next(g[t \ {LastOf(t)}], items[LastOf(t)])
        <5> HIDE DEF t
        <5> QED BY <2>1, <3>1
      <4> HIDE DEF t
      <4> QED BY <3>1, <4>1
    <3>3. Over(g)[s] = next(g[t], items[LastOf(s)])
      BY <2>2
    <3> HIDE DEF Over
    <3> QED BY <3>2, <3>3
  <2>3. Over(g)[{}] = <<>>
    OBVIOUS
  <2>4. Fine(k, Over(g))
    <3> HIDE DEF Over
    <3> QED BY <2>2, <2>3
  <2> HIDE DEF Fine, Over
  <2> QED BY <2>4
<1>4. n \in Good
  <2> HIDE DEF Good
  <2> QED BY <1>2, <1>3, StepByStep
<1>5. PICK g : Fine(n, g)
  BY <1>4
<1>6. Solves(Over(g))
  <2>1. ASSUME NEW s \in SUBSET (1 .. n), s # {}
        PROVE  Over(g)[s] = next(Over(g)[s \ {LastOf(s)}], items[LastOf(s)])
    <3> DEFINE t == s \ {LastOf(s)}
    <3>1. t \in SUBSET (1 .. n) /\ Cardinality(t) <= n
      <4>1. s \in (SUBSET (1 .. n)) \ {{}}
        BY <2>1
      <4>2. t \in SUBSET (1 .. n) /\ Cardinality(s) \in 1 .. n /\ Cardinality(t) = Cardinality(s) - 1
        BY <4>1, ItemsBefore
      <4> HIDE DEF t
      <4> QED BY <2>1, <4>2
    <3>2. Over(g)[t] = g[t]
      <4>1. g[t] = IF t = {} THEN <<>> ELSE next(g[t \ {LastOf(t)}], items[LastOf(t)])
        <5> HIDE DEF t
        <5> QED BY <1>5, <3>1
      <4> HIDE DEF t
      <4> QED BY <3>1, <4>1
    <3>3. Over(g)[s] = next(g[t], items[LastOf(s)])
      BY <2>1
    <3> HIDE DEF Over
    <3> QED BY <3>2, <3>3
  <2>2. Over(g)[{}] = <<>>
    OBVIOUS
  <2>3. \A s \in SUBSET (1 .. n) : Over(g)[s] = IF s = {} THEN <<>>
                                               ELSE next(Over(g)[s \ {LastOf(s)}], items[LastOf(s)])
    <3> HIDE DEF Over
    <3> QED BY <2>1, <2>2
  <2>4. \A h : Over(h) = [s \in SUBSET (1 .. n) |-> Over(h)[s]]
    OBVIOUS
  <2>5. Over(g) = [s \in SUBSET (1 .. n) |-> IF s = {} THEN <<>>
                                            ELSE next(Over(g)[s \ {LastOf(s)}], items[LastOf(s)])]
    <3> HIDE DEF Over
    <3> QED BY <2>3, <2>4
  <2> HIDE DEF Over
  <2> QED BY <2>5
<1>7. Solves(iter)
  <2> HIDE DEF Solves, Over
  <2> QED BY <1>6
<1>8. ResolvedInOrder(items, n, supplied, args, r)
  <2> HIDE DEF iter
  <2>1. r[0] = <<>>
    <3>1. 1 .. 0 = {} /\ {} \in SUBSET (1 .. n)
      OBVIOUS
    <3> QED BY <1>7, <3>1
  <2>2. ASSUME NEW k \in 1 .. n PROVE r[k] = next(r[k - 1], items[k])
    <3>1. k \in Nat /\ k # 0 /\ 1 .. k \in SUBSET (1 .. n) /\ 1 .. k # {} /\ k - 1 \in 0 .. n /\ k \in 0 .. n
      <4>1. k \in 1 .. k /\ k \in Nat /\ k # 0 /\ k - 1 \in 0 .. n /\ k \in 0 .. n
        OBVIOUS
      <4>2. 1 .. k \in SUBSET (1 .. n)
        OBVIOUS
      <4> QED BY <4>1, <4>2
    <3>2. LastOf(1 .. k) = k /\ (1 .. k) \ {LastOf(1 .. k)} = 1 .. k - 1
      BY <3>1, LastOfThese
    <3>3. iter[1 .. k] = next(iter[1 .. k - 1], items[k])
      BY <1>7, <3>1, <3>2
    <3> QED BY <3>1, <3>3
  <2> HIDE DEF r
  <2> QED BY <2>1, <2>2 DEF ResolvedInOrder, next
<1>9. r[n] = iter[1 .. n]
  OBVIOUS
<1> HIDE DEF r, iter
<1> QED BY <1>1, <1>8, <1>9 DEF items

(* What an item's account is: the caller's, or what its seeds derive from  *)
(* the arguments and from the accounts before it.                          *)
LaidOut(items, n, supplied, args, at) ==
  /\ DOMAIN at = {items[k].name : k \in 1 .. n}
  /\ \A k \in 1 .. n : items[k].name \in DOMAIN supplied => at[items[k].name] = supplied[items[k].name]
  /\ \A k \in 1 .. n : items[k].name \notin DOMAIN supplied =>
       /\ items[k].seeds = <<Const("pool")>> => at[items[k].name] = PoolPda
       /\ \A p, a : items[k].seeds = <<Const(p), Arg(a)>> /\ a \in DOMAIN args =>
                      at[items[k].name] = <<p, args[a]>>
       /\ \A p : \A j \in 1 .. k - 1 : items[k].seeds = <<Const(p), Account(items[j].name)>> =>
                                         at[items[k].name] = <<p, at[items[j].name]>>
       /\ \A p, a : \A j \in 1 .. k - 1 :
            items[k].seeds = <<Const(p), Account(items[j].name), Arg(a)>> /\ a \in DOMAIN args =>
              at[items[k].name] = <<p, at[items[j].name], args[a]>>

(* What seeds of these forms derive.                                       *)
IsSeed(seed, resolved, args, x) == SeedValue(seed, resolved, args) = {x}

(* What a seed of each kind is to the client.                              *)
LEMMA SeedsAre ==
  ASSUME NEW resolved, NEW args
  PROVE  /\ \A p : IsSeed(Const(p), resolved, args, p)
         /\ \A a : a \in DOMAIN args => IsSeed(Arg(a), resolved, args, args[a])
         /\ \A a : a \in DOMAIN resolved => IsSeed(Account(a), resolved, args, resolved[a])
BY DEF IsSeed, SeedValue, Const, Arg, Account

(* The address of the pool is derived from its prefix alone.               *)
LEMMA OneSeed ==
  ASSUME NEW resolved, NEW args PROVE DeriveFromIdl(<<Const("pool")>>, resolved, args) = PoolPda
<1>1. IsSeed(Const("pool"), resolved, args, "pool")
  BY SeedsAre
<1> QED BY <1>1 DEF IsSeed, DeriveFromIdl, PoolPda

(* Two seeds that are known give the address of both.                      *)
LEMMA TwoSeeds ==
  ASSUME NEW a, NEW b, NEW x, NEW y, NEW resolved, NEW args,
         IsSeed(a, resolved, args, x), IsSeed(b, resolved, args, y)
  PROVE  DeriveFromIdl(<<a, b>>, resolved, args) = <<x, y>>
BY DEF IsSeed, DeriveFromIdl

(* And three.                                                              *)
LEMMA ThreeSeeds ==
  ASSUME NEW a, NEW b, NEW c, NEW x, NEW y, NEW z, NEW resolved, NEW args,
         IsSeed(a, resolved, args, x), IsSeed(b, resolved, args, y), IsSeed(c, resolved, args, z)
  PROVE  DeriveFromIdl(<<a, b, c>>, resolved, args) = <<x, y, z>>
BY DEF IsSeed, DeriveFromIdl

(* The address that a prefix and an argument give.                         *)
LEMMA ByArg ==
  ASSUME NEW resolved, NEW args, NEW p, NEW a, a \in DOMAIN args
  PROVE  DeriveFromIdl(<<Const(p), Arg(a)>>, resolved, args) = <<p, args[a]>>
<1> DEFINE u == Const(p)
           v == Arg(a)
           x == args[a]
<1>1. IsSeed(u, resolved, args, p) /\ IsSeed(v, resolved, args, x)
  BY SeedsAre
<1> HIDE DEF u, v, x
<1>2. DeriveFromIdl(<<u, v>>, resolved, args) = <<p, x>>
  BY <1>1, TwoSeeds
<1> QED BY <1>2 DEF u, v, x

(* The address that a prefix and an account given before give.             *)
LEMMA ByAccount ==
  ASSUME NEW resolved, NEW args, NEW p, NEW a, a \in DOMAIN resolved
  PROVE  DeriveFromIdl(<<Const(p), Account(a)>>, resolved, args) = <<p, resolved[a]>>
<1> DEFINE u == Const(p)
           v == Account(a)
           x == resolved[a]
<1>1. IsSeed(u, resolved, args, p) /\ IsSeed(v, resolved, args, x)
  BY SeedsAre
<1> HIDE DEF u, v, x
<1>2. DeriveFromIdl(<<u, v>>, resolved, args) = <<p, x>>
  BY <1>1, TwoSeeds
<1> QED BY <1>2 DEF u, v, x

(* The address of a policy: a prefix, an account and an argument.          *)
LEMMA ByAccountAndArg ==
  ASSUME NEW resolved, NEW args, NEW p, NEW a, NEW b, a \in DOMAIN resolved, b \in DOMAIN args
  PROVE  DeriveFromIdl(<<Const(p), Account(a), Arg(b)>>, resolved, args) = <<p, resolved[a], args[b]>>
<1> DEFINE u == Const(p)
           v == Account(a)
           w == Arg(b)
           x == resolved[a]
           y == args[b]
<1>1. /\ IsSeed(u, resolved, args, p) /\ IsSeed(v, resolved, args, x)
      /\ IsSeed(w, resolved, args, y)
  BY SeedsAre
<1> HIDE DEF u, v, w, x, y
<1>2. DeriveFromIdl(<<u, v, w>>, resolved, args) = <<p, x, y>>
  BY <1>1, ThreeSeeds
<1> QED BY <1>2 DEF u, v, w, x, y

(* No two items of a list have one name.                                   *)
TellsApart(items, n) == \A i, j \in 1 .. n : items[i].name = items[j].name => i = j

(* What buildInstruction returns, for any list whose names differ: every   *)
(* item has the caller's account or the one its seeds derive.              *)
LEMMA AllLaidOut ==
  ASSUME NEW name, NEW n \in Nat \ {0}, DOMAIN Idl[name] = 1 .. n,
         TellsApart(Idl[name], n), NEW supplied, NEW args
  PROVE  LET call == BuildInstruction(name, supplied, args) IN
         call.name = name /\ call.args = args /\ LaidOut(Idl[name], n, supplied, args, call.accounts)
<1> DEFINE items == Idl[name]
<1>0. n \in Nat /\ DOMAIN items = 1 .. n
  OBVIOUS
<1>1. PICK r : /\ ResolvedInOrder(items, n, supplied, args, r)
               /\ BuildInstruction(name, supplied, args) = [name |-> name, args |-> args, accounts |-> r[n]]
  BY <1>0, BuiltInOrder
<1> HIDE DEF items
<1> DEFINE Named(k) == {items[i].name : i \in 1 .. k}
           Right(k) == /\ DOMAIN r[k] = Named(k)
                       /\ \A j \in 1 .. k : r[k][items[j].name] = ResolveAccount(items[j], r[j - 1], supplied, args)
           Good == {k \in 0 .. n : Right(k)}
<1>2. 0 \in Good
  <2>1. Right(0)
    BY <1>1 DEF ResolvedInOrder
  <2> HIDE DEF Right
  <2> QED BY <2>1
<1>3. ASSUME NEW k \in 1 .. n, k - 1 \in Good PROVE k \in Good
  <2>1. r[k] = WithAccount(r[k - 1], items[k], supplied, args)
    BY <1>1 DEF ResolvedInOrder
  <2>2. DOMAIN r[k - 1] = Named(k - 1)
    BY <1>3
  <2>3. DOMAIN r[k] = Named(k - 1) \cup {items[k].name}
    BY <2>1, <2>2 DEF WithAccount, WithEntry
  <2>4. Named(k - 1) \cup {items[k].name} = Named(k)
    OBVIOUS
  <2>5. r[k][items[k].name] = ResolveAccount(items[k], r[k - 1], supplied, args)
    BY <2>1 DEF WithAccount, WithEntry
  <2>6. ASSUME NEW j \in 1 .. k - 1 PROVE r[k][items[j].name] = r[k - 1][items[j].name]
    <3>1. items[j].name # items[k].name /\ items[j].name \in DOMAIN r[k - 1]
      BY <2>2 DEF items, TellsApart
    <3> QED BY <2>1, <3>1 DEF WithAccount, WithEntry
  <2>7. Right(k)
    <3>1. \A j \in 1 .. k - 1 : r[k - 1][items[j].name] = ResolveAccount(items[j], r[j - 1], supplied, args)
      BY <1>3
    <3> QED BY <2>3, <2>4, <2>5, <2>6, <3>1
  <2> HIDE DEF Right
  <2> QED BY <2>7
<1>4. \A k \in 0 .. n : Right(k)
  <2> HIDE DEF Good, Right
  <2>1. \A k \in 0 .. n : k \in Good
    BY <1>2, <1>3, StepByStep
  <2> QED BY <2>1 DEF Good
<1> DEFINE at == r[n]
<1>5. ASSUME NEW k \in 1 .. n
      PROVE  /\ at[items[k].name] = ResolveAccount(items[k], r[k - 1], supplied, args)
             /\ \A j \in 1 .. k - 1 : /\ items[j].name \in DOMAIN r[k - 1]
                                      /\ r[k - 1][items[j].name] = at[items[j].name]
  <2>1. k - 1 \in 0 .. n /\ n \in 0 .. n
    OBVIOUS
  <2>2. Right(k - 1) /\ Right(n)
    <3> HIDE DEF Right
    <3> QED BY <1>4, <2>1
  <2> QED BY <2>2
<1>6. DOMAIN at = {items[k].name : k \in 1 .. n}
  <2>1. Right(n)
    <3> HIDE DEF Right
    <3> QED BY <1>4
  <2> QED BY <2>1
<1> HIDE DEF at
<1>7. ASSUME NEW k \in 1 .. n, items[k].name \notin DOMAIN supplied
      PROVE  at[items[k].name] = DeriveFromIdl(items[k].seeds, r[k - 1], args)
  BY <1>5, <1>7 DEF ResolveAccount
<1>8. ASSUME NEW k \in 1 .. n, items[k].name \notin DOMAIN supplied
      PROVE  /\ items[k].seeds = <<Const("pool")>> => at[items[k].name] = PoolPda
             /\ \A p, a : items[k].seeds = <<Const(p), Arg(a)>> /\ a \in DOMAIN args =>
                            at[items[k].name] = <<p, args[a]>>
             /\ \A p : \A j \in 1 .. k - 1 : items[k].seeds = <<Const(p), Account(items[j].name)>> =>
                                               at[items[k].name] = <<p, at[items[j].name]>>
             /\ \A p, a : \A j \in 1 .. k - 1 :
                  items[k].seeds = <<Const(p), Account(items[j].name), Arg(a)>> /\ a \in DOMAIN args =>
                    at[items[k].name] = <<p, at[items[j].name], args[a]>>
  <2>1. at[items[k].name] = DeriveFromIdl(items[k].seeds, r[k - 1], args)
    BY <1>7, <1>8
  <2>2. items[k].seeds = <<Const("pool")>> => at[items[k].name] = PoolPda
    BY <2>1, OneSeed
  <2>3. ASSUME NEW p, NEW a, items[k].seeds = <<Const(p), Arg(a)>>, a \in DOMAIN args
        PROVE  at[items[k].name] = <<p, args[a]>>
    <3>1. DeriveFromIdl(<<Const(p), Arg(a)>>, r[k - 1], args) = <<p, args[a]>>
      BY <2>3, ByArg
    <3> QED BY <2>1, <2>3, <3>1
  <2>4. ASSUME NEW p, NEW j \in 1 .. k - 1, items[k].seeds = <<Const(p), Account(items[j].name)>>
        PROVE  at[items[k].name] = <<p, at[items[j].name]>>
    <3>1. items[j].name \in DOMAIN r[k - 1] /\ r[k - 1][items[j].name] = at[items[j].name]
      BY <1>5
    <3>2. DeriveFromIdl(<<Const(p), Account(items[j].name)>>, r[k - 1], args) = <<p, r[k - 1][items[j].name]>>
      BY <3>1, ByAccount
    <3> QED BY <2>1, <2>4, <3>1, <3>2
  <2>5. ASSUME NEW p, NEW a, NEW j \in 1 .. k - 1,
               items[k].seeds = <<Const(p), Account(items[j].name), Arg(a)>>, a \in DOMAIN args
        PROVE  at[items[k].name] = <<p, at[items[j].name], args[a]>>
    <3>1. items[j].name \in DOMAIN r[k - 1] /\ r[k - 1][items[j].name] = at[items[j].name]
      BY <1>5
    <3>2. DeriveFromIdl(<<Const(p), Account(items[j].name), Arg(a)>>, r[k - 1], args)
            = <<p, r[k - 1][items[j].name], args[a]>>
      BY <2>5, <3>1, ByAccountAndArg
    <3> QED BY <2>1, <2>5, <3>1, <3>2
  <2> QED BY <2>2, <2>3, <2>4, <2>5
<1>9. \A k \in 1 .. n : items[k].name \in DOMAIN supplied => at[items[k].name] = supplied[items[k].name]
  BY <1>5 DEF ResolveAccount
<1>10. /\ BuildInstruction(name, supplied, args).name = name
       /\ BuildInstruction(name, supplied, args).args = args
       /\ BuildInstruction(name, supplied, args).accounts = at
  BY <1>1 DEF at
<1>11. LaidOut(items, n, supplied, args, at)
  BY <1>6, <1>8, <1>9 DEF LaidOut
<1> QED BY <1>10, <1>11 DEF items

(* What seeds of these forms ask of an account, on the program's side.     *)
SeedIs(seed, call, chain, x) == ProgramSeed(seed, call, chain) = {x}

(* What a seed of each kind is to the program; a field of an account that  *)
(* is not there is nothing.                                                *)
LEMMA ProgramSeedsAre ==
  ASSUME NEW call, NEW chain
  PROVE  /\ \A p : SeedIs(Const(p), call, chain, p)
         /\ \A a : SeedIs(Arg(a), call, chain, call.args[a])
         /\ \A a : SeedIs(Account(a), call, chain, call.accounts[a])
         /\ \A a, f : call.accounts[a] \in DOMAIN chain =>
                        SeedIs(Field(a, f), call, chain, chain[call.accounts[a]][f])
         /\ \A a, f : call.accounts[a] \notin DOMAIN chain => ProgramSeed(Field(a, f), call, chain) = {}
BY DEF SeedIs, ProgramSeed, Const, Arg, Account, Field

(* The program's check of one seed that is known.                          *)
LEMMA OneHolds ==
  ASSUME NEW n, NEW a, NEW x, NEW call, NEW chain, SeedIs(a, call, chain, x)
  PROVE  SeedsHold(Derived(n, <<a>>), call, chain) <=> call.accounts[n] = <<x>>
BY DEF SeedIs, SeedsHold, Derived, Item

(* Of two.                                                                 *)
LEMMA TwoHold ==
  ASSUME NEW n, NEW a, NEW b, NEW x, NEW y, NEW call, NEW chain,
         SeedIs(a, call, chain, x), SeedIs(b, call, chain, y)
  PROVE  SeedsHold(Derived(n, <<a, b>>), call, chain) <=> call.accounts[n] = <<x, y>>
BY DEF SeedIs, SeedsHold, Derived, Item

(* And of three.                                                           *)
LEMMA ThreeHold ==
  ASSUME NEW n, NEW a, NEW b, NEW c, NEW x, NEW y, NEW z, NEW call, NEW chain,
         SeedIs(a, call, chain, x), SeedIs(b, call, chain, y), SeedIs(c, call, chain, z)
  PROVE  SeedsHold(Derived(n, <<a, b, c>>), call, chain) <=> call.accounts[n] = <<x, y, z>>
BY DEF SeedIs, SeedsHold, Derived, Item

(* The forms that seeds and addresses have. *)
FixedSeeds(p)        == <<Const(p)>>
ArgSeeds(p, a)       == <<Const(p), Arg(a)>>
AccountSeeds(p, a)   == <<Const(p), Account(a)>>
BothSeeds(p, a, b)   == <<Const(p), Account(a), Arg(b)>>
FieldSeeds(p, a, f)  == <<Const(p), Field(a, f)>>
FieldsSeeds(p, a, f, g) == <<Const(p), Field(a, f), Field(a, g)>>

PdaOf(p, x)     == <<p, x>>
PdaOfTwo(p, x, y) == <<p, x, y>>

(* An item without seeds asks for no address.                              *)
LEMMA NothingAsked ==
  ASSUME NEW call, NEW chain, NEW n
  PROVE  SeedsHold(Signer(n), call, chain) /\ SeedsHold(Plain(n), call, chain)
BY DEF SeedsHold, Signer, Plain, Item

(* The address of a prefix alone.                                          *)
LEMMA FixedHolds ==
  ASSUME NEW call, NEW chain, NEW n, NEW p
  PROVE  SeedsHold(Derived(n, FixedSeeds(p)), call, chain) <=> call.accounts[n] = <<p>>
BY ProgramSeedsAre, OneHolds DEF FixedSeeds

(* The address of a prefix and an argument.                                *)
LEMMA ArgHolds ==
  ASSUME NEW call, NEW chain, NEW n, NEW p, NEW a
  PROVE  SeedsHold(Derived(n, ArgSeeds(p, a)), call, chain) <=> call.accounts[n] = PdaOf(p, call.args[a])
<1> DEFINE u == Const(p)
           v == Arg(a)
           y == call.args[a]
<1>1. SeedIs(u, call, chain, p) /\ SeedIs(v, call, chain, y)
  BY ProgramSeedsAre
<1> HIDE DEF u, v, y
<1>2. SeedsHold(Derived(n, <<u, v>>), call, chain) <=> call.accounts[n] = <<p, y>>
  BY <1>1, TwoHold
<1> QED BY <1>2 DEF u, v, y, ArgSeeds, PdaOf

(* The address of a prefix and another account of the call.                *)
LEMMA AccountHolds ==
  ASSUME NEW call, NEW chain, NEW n, NEW p, NEW a
  PROVE  SeedsHold(Derived(n, AccountSeeds(p, a)), call, chain) <=> call.accounts[n] = PdaOf(p, call.accounts[a])
<1> DEFINE u == Const(p)
           v == Account(a)
           y == call.accounts[a]
<1>1. SeedIs(u, call, chain, p) /\ SeedIs(v, call, chain, y)
  BY ProgramSeedsAre
<1> HIDE DEF u, v, y
<1>2. SeedsHold(Derived(n, <<u, v>>), call, chain) <=> call.accounts[n] = <<p, y>>
  BY <1>1, TwoHold
<1> QED BY <1>2 DEF u, v, y, AccountSeeds, PdaOf

(* The address of a prefix, an account and an argument.                    *)
LEMMA BothHold ==
  ASSUME NEW call, NEW chain, NEW n, NEW p, NEW a, NEW b
  PROVE  SeedsHold(Derived(n, BothSeeds(p, a, b)), call, chain) <=>
           call.accounts[n] = PdaOfTwo(p, call.accounts[a], call.args[b])
<1> DEFINE u == Const(p)
           v == Account(a)
           w == Arg(b)
           y == call.accounts[a]
           z == call.args[b]
<1>1. SeedIs(u, call, chain, p) /\ SeedIs(v, call, chain, y) /\ SeedIs(w, call, chain, z)
  BY ProgramSeedsAre
<1> HIDE DEF u, v, w, y, z
<1>2. SeedsHold(Derived(n, <<u, v, w>>), call, chain) <=> call.accounts[n] = <<p, y, z>>
  BY <1>1, ThreeHold
<1> QED BY <1>2 DEF u, v, w, y, z, BothSeeds, PdaOfTwo

(* The address of a prefix and a field, which the program reads on chain.  *)
LEMMA FieldHolds ==
  ASSUME NEW call, NEW chain, NEW n, NEW p, NEW a, NEW f, call.accounts[a] \in DOMAIN chain
  PROVE  SeedsHold(Derived(n, FieldSeeds(p, a, f)), call, chain) <=>
           call.accounts[n] = PdaOf(p, chain[call.accounts[a]][f])
<1> DEFINE u == Const(p)
           v == Field(a, f)
           y == chain[call.accounts[a]][f]
<1>1. SeedIs(u, call, chain, p) /\ SeedIs(v, call, chain, y)
  BY ProgramSeedsAre
<1> HIDE DEF u, v, y
<1>2. SeedsHold(Derived(n, <<u, v>>), call, chain) <=> call.accounts[n] = <<p, y>>
  BY <1>1, TwoHold
<1> QED BY <1>2 DEF u, v, y, FieldSeeds, PdaOf

(* The address of a prefix and two fields.                                 *)
LEMMA FieldsHold ==
  ASSUME NEW call, NEW chain, NEW n, NEW p, NEW a, NEW f, NEW g, call.accounts[a] \in DOMAIN chain
  PROVE  SeedsHold(Derived(n, FieldsSeeds(p, a, f, g)), call, chain) <=>
           call.accounts[n] = PdaOfTwo(p, chain[call.accounts[a]][f], chain[call.accounts[a]][g])
<1> DEFINE u == Const(p)
           v == Field(a, f)
           w == Field(a, g)
           y == chain[call.accounts[a]][f]
           z == chain[call.accounts[a]][g]
<1>1. SeedIs(u, call, chain, p) /\ SeedIs(v, call, chain, y) /\ SeedIs(w, call, chain, z)
  BY ProgramSeedsAre
<1> HIDE DEF u, v, w, y, z
<1>2. SeedsHold(Derived(n, <<u, v, w>>), call, chain) <=> call.accounts[n] = <<p, y, z>>
  BY <1>1, ThreeHold
<1> QED BY <1>2 DEF u, v, w, y, z, FieldsSeeds, PdaOfTwo

(* An item has the name and the seeds it was made with.                    *)
LEMMA ItemsAre ==
  /\ \A n : Signer(n).name = n /\ Signer(n).seeds = <<>>
  /\ \A n : Plain(n).name = n /\ Plain(n).seeds = <<>>
  /\ \A n, s : Derived(n, s).name = n /\ Derived(n, s).seeds = s
BY DEF Signer, Plain, Derived, Item

(* The items of the IDL that are derived in place.                         *)
RewardsByArg        == Derived("rewards", <<Const("rewards"), Arg("cellId")>>)
ReputationByArg     == Derived("reputation", <<Const("reputation"), Arg("cellId")>>)
PositionByDepositor == Derived("position", <<Const("lp"), Account("depositor")>>)
VaultOfPool         == Derived("vault", <<Const("vault"), Account("pool")>>)
StakeVaultOfPool    == Derived("stakeVault", <<Const("stake_vault"), Account("pool")>>)
PolicyByOwner       == Derived("policy", <<Const("policy"), Account("owner"), Arg("nonce")>>)

PositionPda(depositor) == <<"lp", depositor>>
VaultPdaOf(pool)       == <<"vault", pool>>
StakeVaultPdaOf(pool)  == <<"stake_vault", pool>>

(* Every derived item of the IDL has one of the six forms.                 *)
LEMMA ItemsInForm ==
  /\ ThePool = Derived("pool", FixedSeeds("pool"))
  /\ SensorByKey = Derived("sensor", AccountSeeds("sensor", "sensorKey"))
  /\ SensorByItself = Derived("sensor", FieldSeeds("sensor", "sensor", "sensorKey"))
  /\ CellByArg = Derived("cell", ArgSeeds("cell", "cellId"))
  /\ CellOfPolicy = Derived("cell", FieldSeeds("cell", "policy", "cellId"))
  /\ PolicyByItself = Derived("policy", FieldsSeeds("policy", "policy", "owner", "nonce"))
  /\ RewardsByArg = Derived("rewards", ArgSeeds("rewards", "cellId"))
  /\ ReputationByArg = Derived("reputation", ArgSeeds("reputation", "cellId"))
  /\ PositionByDepositor = Derived("position", AccountSeeds("lp", "depositor"))
  /\ VaultOfPool = Derived("vault", AccountSeeds("vault", "pool"))
  /\ StakeVaultOfPool = Derived("stakeVault", AccountSeeds("stake_vault", "pool"))
  /\ PolicyByOwner = Derived("policy", BothSeeds("policy", "owner", "nonce"))
  /\ \A n, p, f : InCell(n, p, f) = Derived(n, FieldSeeds(p, "sensor", f))
BY DEF ThePool, SensorByKey, SensorByItself, CellByArg, CellOfPolicy, PolicyByItself, RewardsByArg, ReputationByArg,
       PositionByDepositor, VaultOfPool, StakeVaultOfPool, PolicyByOwner, InCell,
       FixedSeeds, ArgSeeds, AccountSeeds, BothSeeds, FieldSeeds, FieldsSeeds

(* And so has every address of pda.ts.                                     *)
LEMMA PdasInForm ==
  /\ PoolPda = <<"pool">>
  /\ VaultPda = PdaOf("vault", PoolPda) /\ StakeVaultPda = PdaOf("stake_vault", PoolPda)
  /\ \A x : /\ SensorPda(x) = PdaOf("sensor", x) /\ CellPda(x) = PdaOf("cell", x)
           /\ RewardsPda(x) = PdaOf("rewards", x) /\ ReputationPda(x) = PdaOf("reputation", x)
           /\ PositionPda(x) = PdaOf("lp", x)
           /\ VaultPdaOf(x) = PdaOf("vault", x) /\ StakeVaultPdaOf(x) = PdaOf("stake_vault", x)
  /\ \A x, y : PolicyPda(x, y) = PdaOfTwo("policy", x, y)
BY DEF PoolPda, VaultPda, StakeVaultPda, SensorPda, CellPda, RewardsPda, ReputationPda, PositionPda,
       VaultPdaOf, StakeVaultPdaOf, PolicyPda, PdaOf, PdaOfTwo

(* What the items ask, on the program's side, of the accounts of a call.   *)
LEMMA ItemsAsk ==
  ASSUME NEW call, NEW chain
  PROVE  LET at == call.accounts
             holds(item) == SeedsHold(item, call, chain)
             sensor == chain[at["sensor"]]
             policy == chain[at["policy"]] IN
         /\ \A n : holds(Signer(n)) /\ holds(Plain(n))
         /\ holds(ThePool) <=> at["pool"] = PoolPda
         /\ holds(SensorByKey) <=> at["sensor"] = SensorPda(at["sensorKey"])
         /\ holds(CellByArg) <=> at["cell"] = CellPda(call.args["cellId"])
         /\ holds(RewardsByArg) <=> at["rewards"] = RewardsPda(call.args["cellId"])
         /\ holds(ReputationByArg) <=> at["reputation"] = ReputationPda(call.args["cellId"])
         /\ holds(PositionByDepositor) <=> at["position"] = PositionPda(at["depositor"])
         /\ holds(VaultOfPool) <=> at["vault"] = VaultPdaOf(at["pool"])
         /\ holds(StakeVaultOfPool) <=> at["stakeVault"] = StakeVaultPdaOf(at["pool"])
         /\ holds(PolicyByOwner) <=> at["policy"] = PolicyPda(at["owner"], call.args["nonce"])
         /\ at["sensor"] \in DOMAIN chain =>
              /\ holds(SensorByItself) <=> at["sensor"] = SensorPda(sensor.sensorKey)
              /\ \A n : holds(InCell(n, "reputation", "cellId")) <=> at[n] = ReputationPda(sensor.cellId)
              /\ \A n : holds(InCell(n, "reputation", "previousCellId")) <=>
                          at[n] = ReputationPda(sensor.previousCellId)
              /\ \A n : holds(InCell(n, "rewards", "cellId")) <=> at[n] = RewardsPda(sensor.cellId)
              /\ \A n : holds(InCell(n, "rewards", "previousCellId")) <=> at[n] = RewardsPda(sensor.previousCellId)
         /\ at["policy"] \in DOMAIN chain =>
              /\ holds(CellOfPolicy) <=> at["cell"] = CellPda(policy.cellId)
              /\ holds(PolicyByItself) <=> at["policy"] = PolicyPda(policy.owner, policy.nonce)
<1> DEFINE at == call.accounts
           holds(item) == SeedsHold(item, call, chain)
<1>1. \A n : holds(Signer(n)) /\ holds(Plain(n))
  BY NothingAsked
<1>2. holds(ThePool) <=> at["pool"] = PoolPda
  BY FixedHolds, ItemsInForm, PdasInForm
<1>3. holds(SensorByKey) <=> at["sensor"] = SensorPda(at["sensorKey"])
  BY AccountHolds, ItemsInForm, PdasInForm
<1>4. holds(CellByArg) <=> at["cell"] = CellPda(call.args["cellId"])
  BY ArgHolds, ItemsInForm, PdasInForm
<1>5. holds(RewardsByArg) <=> at["rewards"] = RewardsPda(call.args["cellId"])
  BY ArgHolds, ItemsInForm, PdasInForm
<1>6. holds(ReputationByArg) <=> at["reputation"] = ReputationPda(call.args["cellId"])
  BY ArgHolds, ItemsInForm, PdasInForm
<1>7. holds(PositionByDepositor) <=> at["position"] = PositionPda(at["depositor"])
  BY AccountHolds, ItemsInForm, PdasInForm
<1>8. holds(VaultOfPool) <=> at["vault"] = VaultPdaOf(at["pool"])
  BY AccountHolds, ItemsInForm, PdasInForm
<1>9. holds(StakeVaultOfPool) <=> at["stakeVault"] = StakeVaultPdaOf(at["pool"])
  BY AccountHolds, ItemsInForm, PdasInForm
<1>10. holds(PolicyByOwner) <=> at["policy"] = PolicyPda(at["owner"], call.args["nonce"])
  BY BothHold, ItemsInForm, PdasInForm
<1>11. at["sensor"] \in DOMAIN chain => (holds(SensorByItself) <=>
            at["sensor"] = SensorPda(chain[at["sensor"]].sensorKey))
  BY FieldHolds, ItemsInForm, PdasInForm
<1>12. ASSUME at["sensor"] \in DOMAIN chain, NEW n
       PROVE  /\ holds(InCell(n, "reputation", "cellId")) <=> at[n] = ReputationPda(chain[at["sensor"]].cellId)
              /\ holds(InCell(n, "reputation", "previousCellId")) <=>
                          at[n] = ReputationPda(chain[at["sensor"]].previousCellId)
              /\ holds(InCell(n, "rewards", "cellId")) <=> at[n] = RewardsPda(chain[at["sensor"]].cellId)
              /\ holds(InCell(n, "rewards", "previousCellId")) <=>
                          at[n] = RewardsPda(chain[at["sensor"]].previousCellId)
  BY <1>12, FieldHolds, ItemsInForm, PdasInForm
<1>13. at["policy"] \in DOMAIN chain => (holds(CellOfPolicy) <=> at["cell"] = CellPda(chain[at["policy"]].cellId))
  BY FieldHolds, ItemsInForm, PdasInForm
<1>14. at["policy"] \in DOMAIN chain =>
         (holds(PolicyByItself) <=> at["policy"] = PolicyPda(chain[at["policy"]].owner, chain[at["policy"]].nonce))
  BY FieldsHold, ItemsInForm, PdasInForm
<1> QED BY <1>1, <1>2, <1>3, <1>4, <1>5, <1>6, <1>7, <1>8, <1>9, <1>10, <1>11, <1>12, <1>13, <1>14

-----------------------------------------------------------------------------
(***************************************************************************)
(* The accounts of each instruction, as its builder lays them out.         *)
(***************************************************************************)
LEMMA IdlIs ==
  /\ Idl["claimReward"] = IdlClaimReward
  /\ Idl["claimUnclaimedPayout"] = IdlClaimUnclaimedPayout
  /\ Idl["closeInvestigation"] = IdlCloseInvestigation
  /\ Idl["closePolicy"] = IdlClosePolicy
  /\ Idl["depositCapital"] = IdlDepositCapital
  /\ Idl["excludeSensor"] = IdlExcludeSensor
  /\ Idl["initializePool"] = IdlInitializePool
  /\ Idl["issuePolicy"] = IdlIssuePolicy
  /\ Idl["moveSensor"] = IdlMoveSensor
  /\ Idl["openInvestigation"] = IdlOpenInvestigation
  /\ Idl["registerSensor"] = IdlRegisterSensor
  /\ Idl["reinstateSensor"] = IdlReinstateSensor
  /\ Idl["requestUnstake"] = IdlRequestUnstake
  /\ Idl["setPoolParams"] = IdlSetPoolParams
  /\ Idl["settlePolicy"] = IdlSettlePolicy
  /\ Idl["stakeSensor"] = IdlStakeSensor
  /\ Idl["submitDayRecord"] = IdlSubmitDayRecord
  /\ Idl["submitDayReputation"] = IdlSubmitDayReputation
  /\ Idl["withdrawStake"] = IdlWithdrawStake
BY DEF Idl

(* The names of the items.                                                 *)
LEMMA NamesOfItems ==
  /\ \A n : Signer(n).name = n /\ Plain(n).name = n
  /\ ThePool.name = "pool" /\ SensorByKey.name = "sensor" /\ SensorByItself.name = "sensor"
  /\ CellByArg.name = "cell" /\ CellOfPolicy.name = "cell"
  /\ PolicyByItself.name = "policy" /\ PolicyByOwner.name = "policy"
  /\ RewardsByArg.name = "rewards" /\ ReputationByArg.name = "reputation"
  /\ PositionByDepositor.name = "position" /\ VaultOfPool.name = "vault" /\ StakeVaultOfPool.name = "stakeVault"
  /\ \A n, p, f : InCell(n, p, f).name = n
BY ItemsAre, ItemsInForm

(* What a builder supplies with the asset. *)
LEMMA AssetsAre ==
  ASSUME NEW rest
  PROVE  /\ DOMAIN Assets(Asset, rest) = DOMAIN rest \cup {"assetMint", "tokenProgram"}
         /\ Assets(Asset, rest)["assetMint"] = Asset.mint /\ Assets(Asset, rest)["tokenProgram"] = Asset.program
         /\ \A n \in DOMAIN rest \ {"assetMint", "tokenProgram"} : Assets(Asset, rest)[n] = rest[n]
BY DEF Assets, WithEntry

(* Where an account comes from. *)
LEMMA GivenAt ==
  ASSUME NEW items, NEW n, NEW supplied, NEW args, NEW at, LaidOut(items, n, supplied, args, at),
         NEW k \in 1 .. n, NEW name, items[k].name = name, name \in DOMAIN supplied
  PROVE  at[name] = supplied[name]
BY DEF LaidOut

(* The pool is derived from its prefix.                                    *)
LEMMA PoolAt ==
  ASSUME NEW items, NEW n, NEW supplied, NEW args, NEW at, LaidOut(items, n, supplied, args, at),
         NEW k \in 1 .. n, items[k] = ThePool, "pool" \notin DOMAIN supplied
  PROVE  at["pool"] = PoolPda
<1>1. items[k].name = "pool" /\ items[k].seeds = <<Const("pool")>>
  BY ItemsAre DEF ThePool
<1> QED BY <1>1 DEF LaidOut

(* An account derived from an argument.                                    *)
LEMMA ByArgAt ==
  ASSUME NEW items, NEW n, NEW supplied, NEW args, NEW at, LaidOut(items, n, supplied, args, at),
         NEW k \in 1 .. n, NEW name, NEW p, NEW a, items[k] = Derived(name, ArgSeeds(p, a)),
         name \notin DOMAIN supplied, a \in DOMAIN args
  PROVE  at[name] = PdaOf(p, args[a])
<1>1. items[k].name = name /\ items[k].seeds = <<Const(p), Arg(a)>>
  BY ItemsAre DEF ArgSeeds
<1> QED BY <1>1 DEF LaidOut, PdaOf

(* An account derived from one before it in the list.                      *)
LEMMA ByAccountAt ==
  ASSUME NEW items, NEW n, NEW supplied, NEW args, NEW at, LaidOut(items, n, supplied, args, at),
         NEW k \in 1 .. n, NEW j \in 1 .. n, j < k, NEW name, NEW p, NEW a,
         items[k] = Derived(name, AccountSeeds(p, a)), items[j].name = a,
         name \notin DOMAIN supplied
  PROVE  at[name] = PdaOf(p, at[a])
<1>1. items[k].name = name /\ items[k].seeds = <<Const(p), Account(items[j].name)>>
  BY ItemsAre DEF AccountSeeds
<1>2. j \in 1 .. k - 1
  OBVIOUS
<1> QED BY <1>1, <1>2 DEF LaidOut, PdaOf

(* A policy's, from its owner and the nonce.                               *)
LEMMA ByBothAt ==
  ASSUME NEW items, NEW n, NEW supplied, NEW args, NEW at, LaidOut(items, n, supplied, args, at),
         NEW k \in 1 .. n, NEW j \in 1 .. n, j < k, NEW name, NEW p, NEW a, NEW b,
         items[k] = Derived(name, BothSeeds(p, a, b)), items[j].name = a,
         name \notin DOMAIN supplied, b \in DOMAIN args
  PROVE  at[name] = PdaOfTwo(p, at[a], args[b])
<1>1. items[k].name = name /\ items[k].seeds = <<Const(p), Account(items[j].name), Arg(b)>>
  BY ItemsAre DEF BothSeeds
<1>2. j \in 1 .. k - 1
  OBVIOUS
<1> QED BY <1>1, <1>2 DEF LaidOut, PdaOfTwo

(* The cell the argument names.                                            *)
LEMMA CellAt ==
  ASSUME NEW items, NEW n, NEW supplied, NEW args, NEW at, LaidOut(items, n, supplied, args, at),
         NEW k \in 1 .. n, items[k] = CellByArg, "cell" \notin DOMAIN supplied, "cellId" \in DOMAIN args
  PROVE  at["cell"] = CellPda(args["cellId"])
<1> DEFINE name == "cell"
           p == "cell"
           a == "cellId"
<1>1. items[k] = Derived(name, ArgSeeds(p, a))
  BY ItemsInForm
<1> HIDE DEF name, p, a
<1>2. name \notin DOMAIN supplied /\ a \in DOMAIN args
  BY DEF name, a
<1>3. at[name] = PdaOf(p, args[a])
  BY <1>1, <1>2, ByArgAt
<1> QED BY <1>3, PdasInForm DEF name, p, a

(* The schedule of that cell.                                              *)
LEMMA RewardsAt ==
  ASSUME NEW items, NEW n, NEW supplied, NEW args, NEW at, LaidOut(items, n, supplied, args, at),
         NEW k \in 1 .. n, items[k] = RewardsByArg, "rewards" \notin DOMAIN supplied, "cellId" \in DOMAIN args
  PROVE  at["rewards"] = RewardsPda(args["cellId"])
<1> DEFINE name == "rewards"
           p == "rewards"
           a == "cellId"
<1>1. items[k] = Derived(name, ArgSeeds(p, a))
  BY ItemsInForm
<1> HIDE DEF name, p, a
<1>2. name \notin DOMAIN supplied /\ a \in DOMAIN args
  BY DEF name, a
<1>3. at[name] = PdaOf(p, args[a])
  BY <1>1, <1>2, ByArgAt
<1> QED BY <1>3, PdasInForm DEF name, p, a

(* The ring of that cell.                                                  *)
LEMMA ReputationAt ==
  ASSUME NEW items, NEW n, NEW supplied, NEW args, NEW at, LaidOut(items, n, supplied, args, at),
         NEW k \in 1 .. n, items[k] = ReputationByArg, "reputation" \notin DOMAIN supplied, "cellId" \in DOMAIN args
  PROVE  at["reputation"] = ReputationPda(args["cellId"])
<1> DEFINE name == "reputation"
           p == "reputation"
           a == "cellId"
<1>1. items[k] = Derived(name, ArgSeeds(p, a))
  BY ItemsInForm
<1> HIDE DEF name, p, a
<1>2. name \notin DOMAIN supplied /\ a \in DOMAIN args
  BY DEF name, a
<1>3. at[name] = PdaOf(p, args[a])
  BY <1>1, <1>2, ByArgAt
<1> QED BY <1>3, PdasInForm DEF name, p, a

(* The sensor of the key in the list.                                      *)
LEMMA SensorAt ==
  ASSUME NEW items, NEW n, NEW supplied, NEW args, NEW at, LaidOut(items, n, supplied, args, at),
         NEW k \in 1 .. n, NEW j \in 1 .. n, j < k, items[k] = SensorByKey, items[j].name = "sensorKey",
         "sensor" \notin DOMAIN supplied
  PROVE  at["sensor"] = SensorPda(at["sensorKey"])
<1> DEFINE name == "sensor"
           p == "sensor"
           a == "sensorKey"
<1>1. items[k] = Derived(name, AccountSeeds(p, a))
  BY ItemsInForm
<1> HIDE DEF name, p, a
<1>2. name \notin DOMAIN supplied /\ items[j].name = a
  BY DEF name, a
<1>3. at[name] = PdaOf(p, at[a])
  BY <1>1, <1>2, ByAccountAt
<1> QED BY <1>3, PdasInForm DEF name, p, a

(* The position of the depositor in the list.                              *)
LEMMA PositionAt ==
  ASSUME NEW items, NEW n, NEW supplied, NEW args, NEW at, LaidOut(items, n, supplied, args, at),
         NEW k \in 1 .. n, NEW j \in 1 .. n, j < k, items[k] = PositionByDepositor, items[j].name = "depositor",
         "position" \notin DOMAIN supplied
  PROVE  at["position"] = PositionPda(at["depositor"])
<1> DEFINE name == "position"
           p == "lp"
           a == "depositor"
<1>1. items[k] = Derived(name, AccountSeeds(p, a))
  BY ItemsInForm
<1> HIDE DEF name, p, a
<1>2. name \notin DOMAIN supplied /\ items[j].name = a
  BY DEF name, a
<1>3. at[name] = PdaOf(p, at[a])
  BY <1>1, <1>2, ByAccountAt
<1> QED BY <1>3, PdasInForm DEF name, p, a

(* The vault of the pool in the list.                                      *)
LEMMA VaultAt ==
  ASSUME NEW items, NEW n, NEW supplied, NEW args, NEW at, LaidOut(items, n, supplied, args, at),
         NEW k \in 1 .. n, NEW j \in 1 .. n, j < k, items[k] = VaultOfPool, items[j].name = "pool",
         "vault" \notin DOMAIN supplied
  PROVE  at["vault"] = VaultPdaOf(at["pool"])
<1> DEFINE name == "vault"
           p == "vault"
           a == "pool"
<1>1. items[k] = Derived(name, AccountSeeds(p, a))
  BY ItemsInForm
<1> HIDE DEF name, p, a
<1>2. name \notin DOMAIN supplied /\ items[j].name = a
  BY DEF name, a
<1>3. at[name] = PdaOf(p, at[a])
  BY <1>1, <1>2, ByAccountAt
<1> QED BY <1>3, PdasInForm DEF name, p, a

(* The stake vault of the pool in the list.                                *)
LEMMA StakeVaultAt ==
  ASSUME NEW items, NEW n, NEW supplied, NEW args, NEW at, LaidOut(items, n, supplied, args, at),
         NEW k \in 1 .. n, NEW j \in 1 .. n, j < k, items[k] = StakeVaultOfPool, items[j].name = "pool",
         "stakeVault" \notin DOMAIN supplied
  PROVE  at["stakeVault"] = StakeVaultPdaOf(at["pool"])
<1> DEFINE name == "stakeVault"
           p == "stake_vault"
           a == "pool"
<1>1. items[k] = Derived(name, AccountSeeds(p, a))
  BY ItemsInForm
<1> HIDE DEF name, p, a
<1>2. name \notin DOMAIN supplied /\ items[j].name = a
  BY DEF name, a
<1>3. at[name] = PdaOf(p, at[a])
  BY <1>1, <1>2, ByAccountAt
<1> QED BY <1>3, PdasInForm DEF name, p, a

(* The policy of the owner in the list.                                    *)
LEMMA PolicyAt ==
  ASSUME NEW items, NEW n, NEW supplied, NEW args, NEW at, LaidOut(items, n, supplied, args, at),
         NEW k \in 1 .. n, NEW j \in 1 .. n, j < k, items[k] = PolicyByOwner, items[j].name = "owner",
         "policy" \notin DOMAIN supplied, "nonce" \in DOMAIN args
  PROVE  at["policy"] = PolicyPda(at["owner"], args["nonce"])
<1> DEFINE name == "policy"
           p == "policy"
           a == "owner"
           b == "nonce"
<1>1. items[k] = Derived(name, BothSeeds(p, a, b))
  BY ItemsInForm
<1> HIDE DEF name, p, a, b
<1>2. name \notin DOMAIN supplied /\ items[j].name = a /\ b \in DOMAIN args
  BY DEF name, a, b
<1>3. at[name] = PdaOfTwo(p, at[a], args[b])
  <2>1. /\ items[k] = Derived(name, BothSeeds(p, a, b))
        /\ items[j].name = a
        /\ name \notin DOMAIN supplied /\ b \in DOMAIN args
    BY <1>1, <1>2
  <2> QED BY <2>1, ByBothAt, SMTT(60)
<1> QED BY <1>3, PdasInForm DEF name, p, a, b

(* claimReward: its items in the IDL's order.                              *)
LEMMA ClaimRewardItems ==
  LET items == Idl["claimReward"] IN
  /\ DOMAIN items = 1 .. 8
  /\ items[1] = Signer("caller") /\ items[2] = ThePool /\ items[3] = SensorByItself
  /\ items[4] = RewardsByArg /\ items[5] = Plain("assetMint") /\ items[6] = Plain("vault")
  /\ items[7] = Plain("operatorTokens") /\ items[8] = Plain("tokenProgram")
BY IdlIs DEF IdlClaimReward, RewardsByArg

(* What claimRewardInstruction lays out.                                   *)
LEMMA ClaimRewardAccounts ==
  ASSUME NEW caller, NEW key, NEW cellId, NEW tokens
  PROVE  LET call == ClaimRewardInstruction(caller, key, cellId, Asset, tokens)
             at == call.accounts IN
         /\ call.name = "claimReward" /\ call.args["cellId"] = cellId
         /\ DOMAIN at = {"caller", "pool", "sensor", "rewards", "assetMint", "vault", "operatorTokens", "tokenProgram"}
         /\ at["caller"] = caller /\ at["pool"] = PoolPda /\ at["sensor"] = SensorPda(key)
         /\ at["rewards"] = RewardsPda(cellId) /\ at["assetMint"] = Asset.mint
         /\ at["vault"] = VaultPda /\ at["operatorTokens"] = tokens
         /\ at["tokenProgram"] = Asset.program
<1> DEFINE name == "claimReward"
           items == Idl[name]
           rest == [caller |-> caller, sensor |-> SensorPda(key), operatorTokens |-> tokens, vault |-> VaultPda]
           supplied == Assets(Asset, rest)
           args == [cellId |-> cellId]
           call == ClaimRewardInstruction(caller, key, cellId, Asset, tokens)
           at == call.accounts
<1>1. call = BuildInstruction(name, supplied, args)
  BY DEF ClaimRewardInstruction
<1>2. /\ DOMAIN items = 1 .. 8
      /\ items[1].name = "caller" /\ items[2].name = "pool" /\ items[3].name = "sensor"
      /\ items[4].name = "rewards" /\ items[5].name = "assetMint" /\ items[6].name = "vault"
      /\ items[7].name = "operatorTokens" /\ items[8].name = "tokenProgram"
  BY ClaimRewardItems, NamesOfItems
<1>3. /\ DOMAIN supplied = {"caller", "sensor", "operatorTokens", "vault", "assetMint", "tokenProgram"}
      /\ supplied["caller"] = caller /\ supplied["sensor"] = SensorPda(key)
      /\ supplied["operatorTokens"] = tokens /\ supplied["vault"] = VaultPda
      /\ supplied["assetMint"] = Asset.mint /\ supplied["tokenProgram"] = Asset.program
  <2>1. /\ DOMAIN rest = {"caller", "sensor", "operatorTokens", "vault"}
        /\ rest["caller"] = caller /\ rest["sensor"] = SensorPda(key)
        /\ rest["operatorTokens"] = tokens /\ rest["vault"] = VaultPda
    OBVIOUS
  <2> HIDE DEF rest
  <2> QED BY <2>1, AssetsAre
<1>4. TellsApart(items, 8)
  BY <1>2 DEF TellsApart
<1> HIDE DEF name, items, supplied, args
<1>5. call.name = name /\ call.args = args /\ LaidOut(items, 8, supplied, args, at)
  <2> DEFINE m == 8
  <2>1. m \in Nat \ {0} /\ DOMAIN Idl[name] = 1 .. m /\ TellsApart(Idl[name], m)
    BY <1>2, <1>4 DEF items
  <2> HIDE DEF m, call
  <2>2. call.name = name /\ call.args = args /\ LaidOut(Idl[name], m, supplied, args, call.accounts)
    BY <1>1, <2>1, AllLaidOut
  <2> QED BY <2>2 DEF items, m
<1>6. /\ items[2] = ThePool /\ items[4] = RewardsByArg
  BY ClaimRewardItems DEF items, name
<1>7. "cellId" \in DOMAIN args /\ args["cellId"] = cellId
  BY DEF args
<1>8. at["pool"] = PoolPda
  BY <1>3, <1>5, <1>6, PoolAt
<1>9. at["rewards"] = RewardsPda(args["cellId"])
  BY <1>3, <1>5, <1>6, <1>7, RewardsAt
<1>10. /\ at["caller"] = supplied["caller"] /\ at["sensor"] = supplied["sensor"]
      /\ at["operatorTokens"] = supplied["operatorTokens"] /\ at["vault"] = supplied["vault"]
      /\ at["assetMint"] = supplied["assetMint"] /\ at["tokenProgram"] = supplied["tokenProgram"]
  BY <1>2, <1>3, <1>5, GivenAt
<1>11. DOMAIN at = {"caller", "pool", "sensor", "rewards", "assetMint", "vault", "operatorTokens", "tokenProgram"}
  <2>1. DOMAIN at = {items[k].name : k \in 1 .. 8}
    BY <1>5 DEF LaidOut
  <2> QED BY <1>2, <2>1
<1> QED BY <1>3, <1>5, <1>7, <1>8, <1>9, <1>10, <1>11, PdasInForm DEF name

(* claimUnclaimedPayout: its items in the IDL's order.                     *)
LEMMA ClaimUnclaimedPayoutItems ==
  LET items == Idl["claimUnclaimedPayout"] IN
  /\ DOMAIN items = 1 .. 8
  /\ items[1] = Signer("caller") /\ items[2] = ThePool /\ items[3] = CellOfPolicy
  /\ items[4] = PolicyByItself /\ items[5] = Plain("assetMint") /\ items[6] = Plain("vault")
  /\ items[7] = Plain("ownerTokens") /\ items[8] = Plain("tokenProgram")
BY IdlIs DEF IdlClaimUnclaimedPayout

(* What claimUnclaimedPayoutInstruction lays out.                          *)
LEMMA ClaimUnclaimedPayoutAccounts ==
  ASSUME NEW caller, NEW owner, NEW nonce, NEW cellId, NEW tokens
  PROVE  LET call == ClaimUnclaimedPayoutInstruction(caller, owner, nonce, cellId, Asset, tokens)
             at == call.accounts IN
         /\ call.name = "claimUnclaimedPayout"
         /\ DOMAIN at = {"caller", "pool", "cell", "policy", "assetMint", "vault", "ownerTokens", "tokenProgram"}
         /\ at["caller"] = caller /\ at["pool"] = PoolPda /\ at["cell"] = CellPda(cellId)
         /\ at["policy"] = PolicyPda(owner, nonce) /\ at["assetMint"] = Asset.mint
         /\ at["vault"] = VaultPda /\ at["ownerTokens"] = tokens
         /\ at["tokenProgram"] = Asset.program
<1> DEFINE name == "claimUnclaimedPayout"
           items == Idl[name]
           rest == [caller |-> caller, policy |-> PolicyPda(owner, nonce), cell |-> CellPda(cellId),
                    ownerTokens |-> tokens, vault |-> VaultPda]
           supplied == Assets(Asset, rest)
           args == <<>>
           call == ClaimUnclaimedPayoutInstruction(caller, owner, nonce, cellId, Asset, tokens)
           at == call.accounts
<1>1. call = BuildInstruction(name, supplied, args)
  BY DEF ClaimUnclaimedPayoutInstruction, PolicyCall
<1>2. /\ DOMAIN items = 1 .. 8
      /\ items[1].name = "caller" /\ items[2].name = "pool" /\ items[3].name = "cell"
      /\ items[4].name = "policy" /\ items[5].name = "assetMint" /\ items[6].name = "vault"
      /\ items[7].name = "ownerTokens" /\ items[8].name = "tokenProgram"
  BY ClaimUnclaimedPayoutItems, NamesOfItems
<1>3. /\ DOMAIN supplied = {"caller", "policy", "cell", "ownerTokens", "vault", "assetMint", "tokenProgram"}
      /\ supplied["caller"] = caller /\ supplied["policy"] = PolicyPda(owner, nonce)
      /\ supplied["cell"] = CellPda(cellId) /\ supplied["ownerTokens"] = tokens
      /\ supplied["vault"] = VaultPda /\ supplied["assetMint"] = Asset.mint
      /\ supplied["tokenProgram"] = Asset.program
  <2>1. /\ DOMAIN rest = {"caller", "policy", "cell", "ownerTokens", "vault"}
        /\ rest["caller"] = caller /\ rest["policy"] = PolicyPda(owner, nonce)
        /\ rest["cell"] = CellPda(cellId) /\ rest["ownerTokens"] = tokens
        /\ rest["vault"] = VaultPda
    OBVIOUS
  <2> HIDE DEF rest
  <2> QED BY <2>1, AssetsAre
<1>4. TellsApart(items, 8)
  BY <1>2 DEF TellsApart
<1> HIDE DEF name, items, supplied, args
<1>5. call.name = name /\ call.args = args /\ LaidOut(items, 8, supplied, args, at)
  <2> DEFINE m == 8
  <2>1. m \in Nat \ {0} /\ DOMAIN Idl[name] = 1 .. m /\ TellsApart(Idl[name], m)
    BY <1>2, <1>4 DEF items
  <2> HIDE DEF m, call
  <2>2. call.name = name /\ call.args = args /\ LaidOut(Idl[name], m, supplied, args, call.accounts)
    BY <1>1, <2>1, AllLaidOut
  <2> QED BY <2>2 DEF items, m
<1>6. /\ items[2] = ThePool
  BY ClaimUnclaimedPayoutItems DEF items, name
<1>7. at["pool"] = PoolPda
  BY <1>3, <1>5, <1>6, PoolAt
<1>8. /\ at["caller"] = supplied["caller"] /\ at["policy"] = supplied["policy"]
      /\ at["cell"] = supplied["cell"] /\ at["ownerTokens"] = supplied["ownerTokens"]
      /\ at["vault"] = supplied["vault"] /\ at["assetMint"] = supplied["assetMint"]
      /\ at["tokenProgram"] = supplied["tokenProgram"]
  BY <1>2, <1>3, <1>5, GivenAt
<1>9. DOMAIN at = {"caller", "pool", "cell", "policy", "assetMint", "vault", "ownerTokens", "tokenProgram"}
  <2>1. DOMAIN at = {items[k].name : k \in 1 .. 8}
    BY <1>5 DEF LaidOut
  <2> QED BY <1>2, <2>1
<1> QED BY <1>3, <1>5, <1>7, <1>8, <1>9, PdasInForm DEF name

(* closeInvestigation: its items in the IDL's order.                       *)
LEMMA CloseInvestigationItems ==
  LET items == Idl["closeInvestigation"] IN
  /\ DOMAIN items = 1 .. 3
  /\ items[1] = Signer("authority") /\ items[2] = ThePool /\ items[3] = CellByArg
BY IdlIs DEF IdlCloseInvestigation

(* What closeInvestigationInstruction lays out.                            *)
LEMMA CloseInvestigationAccounts ==
  ASSUME NEW authority, NEW cellId
  PROVE  LET call == CloseInvestigationInstruction(authority, cellId)
             at == call.accounts IN
         /\ call.name = "closeInvestigation" /\ call.args["cellId"] = cellId
         /\ DOMAIN at = {"authority", "pool", "cell"}
         /\ at["authority"] = authority /\ at["pool"] = PoolPda /\ at["cell"] = CellPda(cellId)
<1> DEFINE name == "closeInvestigation"
           items == Idl[name]
           supplied == [authority |-> authority]
           args == [cellId |-> cellId]
           call == CloseInvestigationInstruction(authority, cellId)
           at == call.accounts
<1>1. call = BuildInstruction(name, supplied, args)
  BY DEF CloseInvestigationInstruction
<1>2. /\ DOMAIN items = 1 .. 3
      /\ items[1].name = "authority" /\ items[2].name = "pool" /\ items[3].name = "cell"
  BY CloseInvestigationItems, NamesOfItems
<1>3. /\ DOMAIN supplied = {"authority"}
      /\ supplied["authority"] = authority
  OBVIOUS
<1>4. TellsApart(items, 3)
  BY <1>2 DEF TellsApart
<1> HIDE DEF name, items, supplied, args
<1>5. call.name = name /\ call.args = args /\ LaidOut(items, 3, supplied, args, at)
  <2> DEFINE m == 3
  <2>1. m \in Nat \ {0} /\ DOMAIN Idl[name] = 1 .. m /\ TellsApart(Idl[name], m)
    BY <1>2, <1>4 DEF items
  <2> HIDE DEF m, call
  <2>2. call.name = name /\ call.args = args /\ LaidOut(Idl[name], m, supplied, args, call.accounts)
    BY <1>1, <2>1, AllLaidOut
  <2> QED BY <2>2 DEF items, m
<1>6. /\ items[2] = ThePool /\ items[3] = CellByArg
  BY CloseInvestigationItems DEF items, name
<1>7. "cellId" \in DOMAIN args /\ args["cellId"] = cellId
  BY DEF args
<1>8. at["pool"] = PoolPda
  BY <1>3, <1>5, <1>6, PoolAt
<1>9. at["cell"] = CellPda(args["cellId"])
  BY <1>3, <1>5, <1>6, <1>7, CellAt
<1>10. /\ at["authority"] = supplied["authority"]
  BY <1>2, <1>3, <1>5, GivenAt
<1>11. DOMAIN at = {"authority", "pool", "cell"}
  <2>1. DOMAIN at = {items[k].name : k \in 1 .. 3}
    BY <1>5 DEF LaidOut
  <2> QED BY <1>2, <2>1
<1> QED BY <1>3, <1>5, <1>7, <1>8, <1>9, <1>10, <1>11, PdasInForm DEF name

(* closePolicy: its items in the IDL's order.                              *)
LEMMA ClosePolicyItems ==
  LET items == Idl["closePolicy"] IN
  /\ DOMAIN items = 1 .. 4
  /\ items[1] = Signer("caller") /\ items[2] = ThePool /\ items[3] = CellOfPolicy
  /\ items[4] = PolicyByItself
BY IdlIs DEF IdlClosePolicy

(* What closePolicyInstruction lays out.                                   *)
LEMMA ClosePolicyAccounts ==
  ASSUME NEW caller, NEW owner, NEW nonce, NEW cellId
  PROVE  LET call == ClosePolicyInstruction(caller, owner, nonce, cellId)
             at == call.accounts IN
         /\ call.name = "closePolicy"
         /\ DOMAIN at = {"caller", "pool", "cell", "policy"}
         /\ at["caller"] = caller /\ at["pool"] = PoolPda /\ at["cell"] = CellPda(cellId)
         /\ at["policy"] = PolicyPda(owner, nonce)
<1> DEFINE name == "closePolicy"
           items == Idl[name]
           supplied == [caller |-> caller, policy |-> PolicyPda(owner, nonce), cell |-> CellPda(cellId)]
           args == <<>>
           call == ClosePolicyInstruction(caller, owner, nonce, cellId)
           at == call.accounts
<1>1. call = BuildInstruction(name, supplied, args)
  BY DEF ClosePolicyInstruction
<1>2. /\ DOMAIN items = 1 .. 4
      /\ items[1].name = "caller" /\ items[2].name = "pool" /\ items[3].name = "cell"
      /\ items[4].name = "policy"
  BY ClosePolicyItems, NamesOfItems
<1>3. /\ DOMAIN supplied = {"caller", "policy", "cell"}
      /\ supplied["caller"] = caller /\ supplied["policy"] = PolicyPda(owner, nonce)
      /\ supplied["cell"] = CellPda(cellId)
  OBVIOUS
<1>4. TellsApart(items, 4)
  BY <1>2 DEF TellsApart
<1> HIDE DEF name, items, supplied, args
<1>5. call.name = name /\ call.args = args /\ LaidOut(items, 4, supplied, args, at)
  <2> DEFINE m == 4
  <2>1. m \in Nat \ {0} /\ DOMAIN Idl[name] = 1 .. m /\ TellsApart(Idl[name], m)
    BY <1>2, <1>4 DEF items
  <2> HIDE DEF m, call
  <2>2. call.name = name /\ call.args = args /\ LaidOut(Idl[name], m, supplied, args, call.accounts)
    BY <1>1, <2>1, AllLaidOut
  <2> QED BY <2>2 DEF items, m
<1>6. /\ items[2] = ThePool
  BY ClosePolicyItems DEF items, name
<1>7. at["pool"] = PoolPda
  BY <1>3, <1>5, <1>6, PoolAt
<1>8. /\ at["caller"] = supplied["caller"] /\ at["policy"] = supplied["policy"]
      /\ at["cell"] = supplied["cell"]
  BY <1>2, <1>3, <1>5, GivenAt
<1>9. DOMAIN at = {"caller", "pool", "cell", "policy"}
  <2>1. DOMAIN at = {items[k].name : k \in 1 .. 4}
    BY <1>5 DEF LaidOut
  <2> QED BY <1>2, <2>1
<1> QED BY <1>3, <1>5, <1>7, <1>8, <1>9, PdasInForm DEF name

(* depositCapital: its items in the IDL's order.                           *)
LEMMA DepositCapitalItems ==
  LET items == Idl["depositCapital"] IN
  /\ DOMAIN items = 1 .. 7
  /\ items[1] = Signer("depositor") /\ items[2] = ThePool /\ items[3] = Plain("assetMint")
  /\ items[4] = Plain("vault") /\ items[5] = Plain("depositorTokens")
  /\ items[6] = PositionByDepositor /\ items[7] = Plain("tokenProgram")
BY IdlIs DEF IdlDepositCapital, PositionByDepositor

(* What depositCapitalInstruction lays out.                                *)
LEMMA DepositCapitalAccounts ==
  ASSUME NEW depositor, NEW tokens
  PROVE  LET call == DepositCapitalInstruction(depositor, Asset, tokens)
             at == call.accounts IN
         /\ call.name = "depositCapital"
         /\ DOMAIN at = {"depositor", "pool", "assetMint", "vault", "depositorTokens", "position", "tokenProgram"}
         /\ at["depositor"] = depositor /\ at["pool"] = PoolPda /\ at["assetMint"] = Asset.mint
         /\ at["vault"] = VaultPda /\ at["depositorTokens"] = tokens
         /\ at["position"] = PositionPda(depositor) /\ at["tokenProgram"] = Asset.program
<1> DEFINE name == "depositCapital"
           items == Idl[name]
           rest == [depositor |-> depositor, depositorTokens |-> tokens, vault |-> VaultPda]
           supplied == Assets(Asset, rest)
           args == <<>>
           call == DepositCapitalInstruction(depositor, Asset, tokens)
           at == call.accounts
<1>1. call = BuildInstruction(name, supplied, args)
  BY DEF DepositCapitalInstruction
<1>2. /\ DOMAIN items = 1 .. 7
      /\ items[1].name = "depositor" /\ items[2].name = "pool" /\ items[3].name = "assetMint"
      /\ items[4].name = "vault" /\ items[5].name = "depositorTokens" /\ items[6].name = "position"
      /\ items[7].name = "tokenProgram"
  BY DepositCapitalItems, NamesOfItems
<1>3. /\ DOMAIN supplied = {"depositor", "depositorTokens", "vault", "assetMint", "tokenProgram"}
      /\ supplied["depositor"] = depositor /\ supplied["depositorTokens"] = tokens
      /\ supplied["vault"] = VaultPda /\ supplied["assetMint"] = Asset.mint
      /\ supplied["tokenProgram"] = Asset.program
  <2>1. /\ DOMAIN rest = {"depositor", "depositorTokens", "vault"}
        /\ rest["depositor"] = depositor /\ rest["depositorTokens"] = tokens
        /\ rest["vault"] = VaultPda
    OBVIOUS
  <2> HIDE DEF rest
  <2> QED BY <2>1, AssetsAre
<1>4. TellsApart(items, 7)
  BY <1>2 DEF TellsApart
<1> HIDE DEF name, items, supplied, args
<1>5. call.name = name /\ call.args = args /\ LaidOut(items, 7, supplied, args, at)
  <2> DEFINE m == 7
  <2>1. m \in Nat \ {0} /\ DOMAIN Idl[name] = 1 .. m /\ TellsApart(Idl[name], m)
    BY <1>2, <1>4 DEF items
  <2> HIDE DEF m, call
  <2>2. call.name = name /\ call.args = args /\ LaidOut(Idl[name], m, supplied, args, call.accounts)
    BY <1>1, <2>1, AllLaidOut
  <2> QED BY <2>2 DEF items, m
<1>6. /\ items[2] = ThePool /\ items[6] = PositionByDepositor
  BY DepositCapitalItems DEF items, name
<1>7. at["pool"] = PoolPda
  BY <1>3, <1>5, <1>6, PoolAt
<1>8. at["position"] = PositionPda(at["depositor"])
  BY <1>2, <1>3, <1>5, <1>6, PositionAt
<1>9. /\ at["depositor"] = supplied["depositor"]
      /\ at["depositorTokens"] = supplied["depositorTokens"] /\ at["vault"] = supplied["vault"]
      /\ at["assetMint"] = supplied["assetMint"] /\ at["tokenProgram"] = supplied["tokenProgram"]
  BY <1>2, <1>3, <1>5, GivenAt
<1>10. DOMAIN at = {"depositor", "pool", "assetMint", "vault", "depositorTokens", "position", "tokenProgram"}
  <2>1. DOMAIN at = {items[k].name : k \in 1 .. 7}
    BY <1>5 DEF LaidOut
  <2> QED BY <1>2, <2>1
<1> QED BY <1>3, <1>5, <1>7, <1>8, <1>9, <1>10, PdasInForm DEF name

(* excludeSensor: its items in the IDL's order.                            *)
LEMMA ExcludeSensorItems ==
  LET items == Idl["excludeSensor"] IN
  /\ DOMAIN items = 1 .. 11
  /\ items[1] = Signer("caller") /\ items[2] = ThePool /\ items[3] = SensorByItself
  /\ items[4] = InCell("reputation", "reputation", "cellId")
  /\ items[5] = InCell("previousReputation", "reputation", "previousCellId")
  /\ items[6] = InCell("rewards", "rewards", "cellId")
  /\ items[7] = InCell("previousRewards", "rewards", "previousCellId")
  /\ items[8] = Plain("assetMint") /\ items[9] = Plain("stakeVault") /\ items[10] = Plain("vault")
  /\ items[11] = Plain("tokenProgram")
BY IdlIs DEF IdlExcludeSensor

(* What excludeSensorInstruction lays out.                                 *)
LEMMA ExcludeSensorAccounts ==
  ASSUME NEW caller, NEW key, NEW cellId, NEW previousCellId
  PROVE  LET call == ExcludeSensorInstruction(caller, key, cellId, previousCellId, Asset)
             at == call.accounts IN
         /\ call.name = "excludeSensor"
         /\ DOMAIN at = {"caller", "pool", "sensor", "reputation", "previousReputation", "rewards",
                         "previousRewards", "assetMint", "stakeVault", "vault", "tokenProgram"}
         /\ at["caller"] = caller /\ at["pool"] = PoolPda /\ at["sensor"] = SensorPda(key)
         /\ at["reputation"] = ReputationPda(cellId)
         /\ at["previousReputation"] = ReputationPda(previousCellId)
         /\ at["rewards"] = RewardsPda(cellId) /\ at["previousRewards"] = RewardsPda(previousCellId)
         /\ at["assetMint"] = Asset.mint /\ at["stakeVault"] = StakeVaultPda
         /\ at["vault"] = VaultPda /\ at["tokenProgram"] = Asset.program
<1> DEFINE name == "excludeSensor"
           items == Idl[name]
           rest == [caller |-> caller, sensor |-> SensorPda(key), reputation |-> ReputationPda(cellId),
                    previousReputation |-> ReputationPda(previousCellId),
                    rewards |-> RewardsPda(cellId), previousRewards |-> RewardsPda(previousCellId),
                    stakeVault |-> StakeVaultPda, vault |-> VaultPda]
           supplied == Assets(Asset, rest)
           args == <<>>
           call == ExcludeSensorInstruction(caller, key, cellId, previousCellId, Asset)
           at == call.accounts
<1>1. call = BuildInstruction(name, supplied, args)
  BY DEF ExcludeSensorInstruction
<1>2. /\ DOMAIN items = 1 .. 11
      /\ items[1].name = "caller" /\ items[2].name = "pool" /\ items[3].name = "sensor"
      /\ items[4].name = "reputation" /\ items[5].name = "previousReputation"
      /\ items[6].name = "rewards" /\ items[7].name = "previousRewards"
      /\ items[8].name = "assetMint" /\ items[9].name = "stakeVault" /\ items[10].name = "vault"
      /\ items[11].name = "tokenProgram"
  BY ExcludeSensorItems, NamesOfItems
<1>3. /\ DOMAIN supplied = {"caller", "sensor", "reputation", "previousReputation", "rewards",
                            "previousRewards", "stakeVault", "vault", "assetMint", "tokenProgram"}
      /\ supplied["caller"] = caller /\ supplied["sensor"] = SensorPda(key)
      /\ supplied["reputation"] = ReputationPda(cellId)
      /\ supplied["previousReputation"] = ReputationPda(previousCellId)
      /\ supplied["rewards"] = RewardsPda(cellId)
      /\ supplied["previousRewards"] = RewardsPda(previousCellId)
      /\ supplied["stakeVault"] = StakeVaultPda /\ supplied["vault"] = VaultPda
      /\ supplied["assetMint"] = Asset.mint /\ supplied["tokenProgram"] = Asset.program
  <2>1. /\ DOMAIN rest = {"caller", "sensor", "reputation", "previousReputation", "rewards",
                          "previousRewards", "stakeVault", "vault"}
        /\ rest["caller"] = caller /\ rest["sensor"] = SensorPda(key)
        /\ rest["reputation"] = ReputationPda(cellId)
        /\ rest["previousReputation"] = ReputationPda(previousCellId)
        /\ rest["rewards"] = RewardsPda(cellId)
        /\ rest["previousRewards"] = RewardsPda(previousCellId)
        /\ rest["stakeVault"] = StakeVaultPda /\ rest["vault"] = VaultPda
    OBVIOUS
  <2> HIDE DEF rest
  <2> QED BY <2>1, AssetsAre
<1>4. TellsApart(items, 11)
  BY <1>2 DEF TellsApart
<1> HIDE DEF name, items, supplied, args
<1>5. call.name = name /\ call.args = args /\ LaidOut(items, 11, supplied, args, at)
  <2> DEFINE m == 11
  <2>1. m \in Nat \ {0} /\ DOMAIN Idl[name] = 1 .. m /\ TellsApart(Idl[name], m)
    BY <1>2, <1>4 DEF items
  <2> HIDE DEF m, call
  <2>2. call.name = name /\ call.args = args /\ LaidOut(Idl[name], m, supplied, args, call.accounts)
    BY <1>1, <2>1, AllLaidOut
  <2> QED BY <2>2 DEF items, m
<1>6. /\ items[2] = ThePool
  BY ExcludeSensorItems DEF items, name
<1>7. at["pool"] = PoolPda
  BY <1>3, <1>5, <1>6, PoolAt
<1>8. /\ at["caller"] = supplied["caller"] /\ at["sensor"] = supplied["sensor"]
      /\ at["reputation"] = supplied["reputation"]
      /\ at["previousReputation"] = supplied["previousReputation"]
      /\ at["rewards"] = supplied["rewards"] /\ at["previousRewards"] = supplied["previousRewards"]
      /\ at["stakeVault"] = supplied["stakeVault"] /\ at["vault"] = supplied["vault"]
      /\ at["assetMint"] = supplied["assetMint"] /\ at["tokenProgram"] = supplied["tokenProgram"]
  BY <1>2, <1>3, <1>5, GivenAt
<1>9. DOMAIN at = {"caller", "pool", "sensor", "reputation", "previousReputation", "rewards",
                   "previousRewards", "assetMint", "stakeVault", "vault", "tokenProgram"}
  <2>1. DOMAIN at = {items[k].name : k \in 1 .. 11}
    BY <1>5 DEF LaidOut
  <2> QED BY <1>2, <2>1
<1> QED BY <1>3, <1>5, <1>7, <1>8, <1>9, PdasInForm DEF name

(* initializePool: its items in the IDL's order.                           *)
LEMMA InitializePoolItems ==
  LET items == Idl["initializePool"] IN
  /\ DOMAIN items = 1 .. 6
  /\ items[1] = Signer("authority") /\ items[2] = ThePool /\ items[3] = Plain("assetMint")
  /\ items[4] = VaultOfPool /\ items[5] = StakeVaultOfPool /\ items[6] = Plain("tokenProgram")
BY IdlIs DEF IdlInitializePool, VaultOfPool, StakeVaultOfPool

(* What initializePoolInstruction lays out.                                *)
LEMMA InitializePoolAccounts ==
  ASSUME NEW authority, NEW aggregator
  PROVE  LET call == InitializePoolInstruction(authority, Asset, aggregator)
             at == call.accounts IN
         /\ call.name = "initializePool" /\ call.args["aggregator"] = aggregator
         /\ DOMAIN at = {"authority", "pool", "assetMint", "vault", "stakeVault", "tokenProgram"}
         /\ at["authority"] = authority /\ at["pool"] = PoolPda /\ at["assetMint"] = Asset.mint
         /\ at["vault"] = VaultPda /\ at["stakeVault"] = StakeVaultPda
         /\ at["tokenProgram"] = Asset.program
<1> DEFINE name == "initializePool"
           items == Idl[name]
           supplied == [authority |-> authority, assetMint |-> Asset.mint, tokenProgram |-> Asset.program]
           args == [aggregator |-> aggregator]
           call == InitializePoolInstruction(authority, Asset, aggregator)
           at == call.accounts
<1>1. call = BuildInstruction(name, supplied, args)
  BY DEF InitializePoolInstruction
<1>2. /\ DOMAIN items = 1 .. 6
      /\ items[1].name = "authority" /\ items[2].name = "pool" /\ items[3].name = "assetMint"
      /\ items[4].name = "vault" /\ items[5].name = "stakeVault" /\ items[6].name = "tokenProgram"
  BY InitializePoolItems, NamesOfItems
<1>3. /\ DOMAIN supplied = {"authority", "assetMint", "tokenProgram"}
      /\ supplied["authority"] = authority /\ supplied["assetMint"] = Asset.mint
      /\ supplied["tokenProgram"] = Asset.program
  OBVIOUS
<1>4. TellsApart(items, 6)
  BY <1>2 DEF TellsApart
<1> HIDE DEF name, items, supplied, args
<1>5. call.name = name /\ call.args = args /\ LaidOut(items, 6, supplied, args, at)
  <2> DEFINE m == 6
  <2>1. m \in Nat \ {0} /\ DOMAIN Idl[name] = 1 .. m /\ TellsApart(Idl[name], m)
    BY <1>2, <1>4 DEF items
  <2> HIDE DEF m, call
  <2>2. call.name = name /\ call.args = args /\ LaidOut(Idl[name], m, supplied, args, call.accounts)
    BY <1>1, <2>1, AllLaidOut
  <2> QED BY <2>2 DEF items, m
<1>6. /\ items[2] = ThePool /\ items[4] = VaultOfPool /\ items[5] = StakeVaultOfPool
  BY InitializePoolItems DEF items, name
<1>7. "aggregator" \in DOMAIN args /\ args["aggregator"] = aggregator
  BY DEF args
<1>8. at["pool"] = PoolPda
  BY <1>3, <1>5, <1>6, PoolAt
<1>9. at["vault"] = VaultPdaOf(at["pool"])
  BY <1>2, <1>3, <1>5, <1>6, VaultAt
<1>10. at["stakeVault"] = StakeVaultPdaOf(at["pool"])
  BY <1>2, <1>3, <1>5, <1>6, StakeVaultAt
<1>11. /\ at["authority"] = supplied["authority"] /\ at["assetMint"] = supplied["assetMint"]
      /\ at["tokenProgram"] = supplied["tokenProgram"]
  BY <1>2, <1>3, <1>5, GivenAt
<1>12. DOMAIN at = {"authority", "pool", "assetMint", "vault", "stakeVault", "tokenProgram"}
  <2>1. DOMAIN at = {items[k].name : k \in 1 .. 6}
    BY <1>5 DEF LaidOut
  <2> QED BY <1>2, <2>1
<1> QED BY <1>3, <1>5, <1>7, <1>8, <1>9, <1>10, <1>11, <1>12, PdasInForm DEF name

(* issuePolicy: its items in the IDL's order.                              *)
LEMMA IssuePolicyItems ==
  LET items == Idl["issuePolicy"] IN
  /\ DOMAIN items = 1 .. 9
  /\ items[1] = Signer("owner") /\ items[2] = ThePool /\ items[3] = CellByArg
  /\ items[4] = PolicyByOwner /\ items[5] = RewardsByArg /\ items[6] = Plain("assetMint")
  /\ items[7] = Plain("vault") /\ items[8] = Plain("ownerTokens")
  /\ items[9] = Plain("tokenProgram")
BY IdlIs DEF IdlIssuePolicy, RewardsByArg, PolicyByOwner

(* What issuePolicyInstruction lays out.                                   *)
LEMMA IssuePolicyAccounts ==
  ASSUME NEW owner, NEW tokens, NEW nonce, NEW cellId
  PROVE  LET call == IssuePolicyInstruction(owner, Asset, tokens, nonce, cellId)
             at == call.accounts IN
         /\ call.name = "issuePolicy" /\ call.args["nonce"] = nonce /\ call.args["cellId"] = cellId
         /\ DOMAIN at = {"owner", "pool", "cell", "policy", "rewards", "assetMint", "vault",
                         "ownerTokens", "tokenProgram"}
         /\ at["owner"] = owner /\ at["pool"] = PoolPda /\ at["cell"] = CellPda(cellId)
         /\ at["policy"] = PolicyPda(owner, nonce) /\ at["rewards"] = RewardsPda(cellId)
         /\ at["assetMint"] = Asset.mint /\ at["vault"] = VaultPda /\ at["ownerTokens"] = tokens
         /\ at["tokenProgram"] = Asset.program
<1> DEFINE name == "issuePolicy"
           items == Idl[name]
           rest == [owner |-> owner, ownerTokens |-> tokens, vault |-> VaultPda]
           supplied == Assets(Asset, rest)
           args == [nonce |-> nonce, cellId |-> cellId]
           call == IssuePolicyInstruction(owner, Asset, tokens, nonce, cellId)
           at == call.accounts
<1>1. call = BuildInstruction(name, supplied, args)
  BY DEF IssuePolicyInstruction
<1>2. /\ DOMAIN items = 1 .. 9
      /\ items[1].name = "owner" /\ items[2].name = "pool" /\ items[3].name = "cell"
      /\ items[4].name = "policy" /\ items[5].name = "rewards" /\ items[6].name = "assetMint"
      /\ items[7].name = "vault" /\ items[8].name = "ownerTokens" /\ items[9].name = "tokenProgram"
  BY IssuePolicyItems, NamesOfItems
<1>3. /\ DOMAIN supplied = {"owner", "ownerTokens", "vault", "assetMint", "tokenProgram"}
      /\ supplied["owner"] = owner /\ supplied["ownerTokens"] = tokens
      /\ supplied["vault"] = VaultPda /\ supplied["assetMint"] = Asset.mint
      /\ supplied["tokenProgram"] = Asset.program
  <2>1. /\ DOMAIN rest = {"owner", "ownerTokens", "vault"}
        /\ rest["owner"] = owner /\ rest["ownerTokens"] = tokens /\ rest["vault"] = VaultPda
    OBVIOUS
  <2> HIDE DEF rest
  <2> QED BY <2>1, AssetsAre
<1>4. TellsApart(items, 9)
  BY <1>2 DEF TellsApart
<1> HIDE DEF name, items, supplied, args
<1>5. call.name = name /\ call.args = args /\ LaidOut(items, 9, supplied, args, at)
  <2> DEFINE m == 9
  <2>1. m \in Nat \ {0} /\ DOMAIN Idl[name] = 1 .. m /\ TellsApart(Idl[name], m)
    BY <1>2, <1>4 DEF items
  <2> HIDE DEF m, call
  <2>2. call.name = name /\ call.args = args /\ LaidOut(Idl[name], m, supplied, args, call.accounts)
    BY <1>1, <2>1, AllLaidOut
  <2> QED BY <2>2 DEF items, m
<1>6. /\ items[2] = ThePool /\ items[3] = CellByArg /\ items[4] = PolicyByOwner
      /\ items[5] = RewardsByArg
  BY IssuePolicyItems DEF items, name
<1>7. "nonce" \in DOMAIN args /\ "cellId" \in DOMAIN args /\ args["nonce"] = nonce /\ args["cellId"] = cellId
  BY DEF args
<1>8. at["pool"] = PoolPda
  BY <1>3, <1>5, <1>6, PoolAt
<1>9. at["cell"] = CellPda(args["cellId"])
  BY <1>3, <1>5, <1>6, <1>7, CellAt
<1>10. at["policy"] = PolicyPda(at["owner"], args["nonce"])
  BY <1>2, <1>3, <1>5, <1>6, <1>7, PolicyAt
<1>11. at["rewards"] = RewardsPda(args["cellId"])
  BY <1>3, <1>5, <1>6, <1>7, RewardsAt
<1>12. /\ at["owner"] = supplied["owner"] /\ at["ownerTokens"] = supplied["ownerTokens"]
      /\ at["vault"] = supplied["vault"] /\ at["assetMint"] = supplied["assetMint"]
      /\ at["tokenProgram"] = supplied["tokenProgram"]
  BY <1>2, <1>3, <1>5, GivenAt
<1>13. DOMAIN at = {"owner", "pool", "cell", "policy", "rewards", "assetMint", "vault", "ownerTokens", "tokenProgram"}
  <2>1. DOMAIN at = {items[k].name : k \in 1 .. 9}
    BY <1>5 DEF LaidOut
  <2> QED BY <1>2, <2>1
<1> QED BY <1>3, <1>5, <1>7, <1>8, <1>9, <1>10, <1>11, <1>12, <1>13, PdasInForm DEF name

(* moveSensor: its items in the IDL's order.                               *)
LEMMA MoveSensorItems ==
  LET items == Idl["moveSensor"] IN
  /\ DOMAIN items = 1 .. 6
  /\ items[1] = Signer("operator") /\ items[2] = Signer("sensorKey") /\ items[3] = ThePool
  /\ items[4] = SensorByKey /\ items[5] = CellByArg
  /\ items[6] = InCell("previousRewards", "rewards", "previousCellId")
BY IdlIs DEF IdlMoveSensor

(* What moveSensorInstruction lays out.                                    *)
LEMMA MoveSensorAccounts ==
  ASSUME NEW operator, NEW key, NEW cellId, NEW previousCellId
  PROVE  LET call == MoveSensorInstruction(operator, key, cellId, previousCellId)
             at == call.accounts IN
         /\ call.name = "moveSensor" /\ call.args["cellId"] = cellId
         /\ DOMAIN at = {"operator", "sensorKey", "pool", "sensor", "cell", "previousRewards"}
         /\ at["operator"] = operator /\ at["sensorKey"] = key /\ at["pool"] = PoolPda
         /\ at["sensor"] = SensorPda(key) /\ at["cell"] = CellPda(cellId)
         /\ at["previousRewards"] = RewardsPda(previousCellId)
<1> DEFINE name == "moveSensor"
           items == Idl[name]
           supplied == [operator |-> operator, sensorKey |-> key, previousRewards |-> RewardsPda(previousCellId)]
           args == [cellId |-> cellId]
           call == MoveSensorInstruction(operator, key, cellId, previousCellId)
           at == call.accounts
<1>1. call = BuildInstruction(name, supplied, args)
  BY DEF MoveSensorInstruction
<1>2. /\ DOMAIN items = 1 .. 6
      /\ items[1].name = "operator" /\ items[2].name = "sensorKey" /\ items[3].name = "pool"
      /\ items[4].name = "sensor" /\ items[5].name = "cell" /\ items[6].name = "previousRewards"
  BY MoveSensorItems, NamesOfItems
<1>3. /\ DOMAIN supplied = {"operator", "sensorKey", "previousRewards"}
      /\ supplied["operator"] = operator /\ supplied["sensorKey"] = key
      /\ supplied["previousRewards"] = RewardsPda(previousCellId)
  OBVIOUS
<1>4. TellsApart(items, 6)
  BY <1>2 DEF TellsApart
<1> HIDE DEF name, items, supplied, args
<1>5. call.name = name /\ call.args = args /\ LaidOut(items, 6, supplied, args, at)
  <2> DEFINE m == 6
  <2>1. m \in Nat \ {0} /\ DOMAIN Idl[name] = 1 .. m /\ TellsApart(Idl[name], m)
    BY <1>2, <1>4 DEF items
  <2> HIDE DEF m, call
  <2>2. call.name = name /\ call.args = args /\ LaidOut(Idl[name], m, supplied, args, call.accounts)
    BY <1>1, <2>1, AllLaidOut
  <2> QED BY <2>2 DEF items, m
<1>6. /\ items[3] = ThePool /\ items[4] = SensorByKey /\ items[5] = CellByArg
  BY MoveSensorItems DEF items, name
<1>7. "cellId" \in DOMAIN args /\ args["cellId"] = cellId
  BY DEF args
<1>8. at["pool"] = PoolPda
  BY <1>3, <1>5, <1>6, PoolAt
<1>9. at["sensor"] = SensorPda(at["sensorKey"])
  BY <1>2, <1>3, <1>5, <1>6, SensorAt
<1>10. at["cell"] = CellPda(args["cellId"])
  BY <1>3, <1>5, <1>6, <1>7, CellAt
<1>11. /\ at["operator"] = supplied["operator"] /\ at["sensorKey"] = supplied["sensorKey"]
      /\ at["previousRewards"] = supplied["previousRewards"]
  BY <1>2, <1>3, <1>5, GivenAt
<1>12. DOMAIN at = {"operator", "sensorKey", "pool", "sensor", "cell", "previousRewards"}
  <2>1. DOMAIN at = {items[k].name : k \in 1 .. 6}
    BY <1>5 DEF LaidOut
  <2> QED BY <1>2, <2>1
<1> QED BY <1>3, <1>5, <1>7, <1>8, <1>9, <1>10, <1>11, <1>12, PdasInForm DEF name

(* openInvestigation: its items in the IDL's order.                        *)
LEMMA OpenInvestigationItems ==
  LET items == Idl["openInvestigation"] IN
  /\ DOMAIN items = 1 .. 3
  /\ items[1] = Signer("aggregator") /\ items[2] = ThePool /\ items[3] = CellByArg
BY IdlIs DEF IdlOpenInvestigation

(* What openInvestigationInstruction lays out.                             *)
LEMMA OpenInvestigationAccounts ==
  ASSUME NEW aggregator, NEW cellId
  PROVE  LET call == OpenInvestigationInstruction(aggregator, cellId)
             at == call.accounts IN
         /\ call.name = "openInvestigation" /\ call.args["cellId"] = cellId
         /\ DOMAIN at = {"aggregator", "pool", "cell"}
         /\ at["aggregator"] = aggregator /\ at["pool"] = PoolPda /\ at["cell"] = CellPda(cellId)
<1> DEFINE name == "openInvestigation"
           items == Idl[name]
           supplied == [aggregator |-> aggregator]
           args == [cellId |-> cellId]
           call == OpenInvestigationInstruction(aggregator, cellId)
           at == call.accounts
<1>1. call = BuildInstruction(name, supplied, args)
  BY DEF OpenInvestigationInstruction
<1>2. /\ DOMAIN items = 1 .. 3
      /\ items[1].name = "aggregator" /\ items[2].name = "pool" /\ items[3].name = "cell"
  BY OpenInvestigationItems, NamesOfItems
<1>3. /\ DOMAIN supplied = {"aggregator"}
      /\ supplied["aggregator"] = aggregator
  OBVIOUS
<1>4. TellsApart(items, 3)
  BY <1>2 DEF TellsApart
<1> HIDE DEF name, items, supplied, args
<1>5. call.name = name /\ call.args = args /\ LaidOut(items, 3, supplied, args, at)
  <2> DEFINE m == 3
  <2>1. m \in Nat \ {0} /\ DOMAIN Idl[name] = 1 .. m /\ TellsApart(Idl[name], m)
    BY <1>2, <1>4 DEF items
  <2> HIDE DEF m, call
  <2>2. call.name = name /\ call.args = args /\ LaidOut(Idl[name], m, supplied, args, call.accounts)
    BY <1>1, <2>1, AllLaidOut
  <2> QED BY <2>2 DEF items, m
<1>6. /\ items[2] = ThePool /\ items[3] = CellByArg
  BY OpenInvestigationItems DEF items, name
<1>7. "cellId" \in DOMAIN args /\ args["cellId"] = cellId
  BY DEF args
<1>8. at["pool"] = PoolPda
  BY <1>3, <1>5, <1>6, PoolAt
<1>9. at["cell"] = CellPda(args["cellId"])
  BY <1>3, <1>5, <1>6, <1>7, CellAt
<1>10. /\ at["aggregator"] = supplied["aggregator"]
  BY <1>2, <1>3, <1>5, GivenAt
<1>11. DOMAIN at = {"aggregator", "pool", "cell"}
  <2>1. DOMAIN at = {items[k].name : k \in 1 .. 3}
    BY <1>5 DEF LaidOut
  <2> QED BY <1>2, <2>1
<1> QED BY <1>3, <1>5, <1>7, <1>8, <1>9, <1>10, <1>11, PdasInForm DEF name

(* registerSensor: its items in the IDL's order.                           *)
LEMMA RegisterSensorItems ==
  LET items == Idl["registerSensor"] IN
  /\ DOMAIN items = 1 .. 5
  /\ items[1] = Signer("operator") /\ items[2] = Signer("sensorKey") /\ items[3] = ThePool
  /\ items[4] = CellByArg /\ items[5] = SensorByKey
BY IdlIs DEF IdlRegisterSensor

(* What registerSensorInstruction lays out.                                *)
LEMMA RegisterSensorAccounts ==
  ASSUME NEW operator, NEW key, NEW cellId
  PROVE  LET call == RegisterSensorInstruction(operator, key, cellId)
             at == call.accounts IN
         /\ call.name = "registerSensor" /\ call.args["cellId"] = cellId
         /\ DOMAIN at = {"operator", "sensorKey", "pool", "cell", "sensor"}
         /\ at["operator"] = operator /\ at["sensorKey"] = key /\ at["pool"] = PoolPda
         /\ at["cell"] = CellPda(cellId) /\ at["sensor"] = SensorPda(key)
<1> DEFINE name == "registerSensor"
           items == Idl[name]
           supplied == [operator |-> operator, sensorKey |-> key]
           args == [cellId |-> cellId]
           call == RegisterSensorInstruction(operator, key, cellId)
           at == call.accounts
<1>1. call = BuildInstruction(name, supplied, args)
  BY DEF RegisterSensorInstruction
<1>2. /\ DOMAIN items = 1 .. 5
      /\ items[1].name = "operator" /\ items[2].name = "sensorKey" /\ items[3].name = "pool"
      /\ items[4].name = "cell" /\ items[5].name = "sensor"
  BY RegisterSensorItems, NamesOfItems
<1>3. /\ DOMAIN supplied = {"operator", "sensorKey"}
      /\ supplied["operator"] = operator /\ supplied["sensorKey"] = key
  OBVIOUS
<1>4. TellsApart(items, 5)
  BY <1>2 DEF TellsApart
<1> HIDE DEF name, items, supplied, args
<1>5. call.name = name /\ call.args = args /\ LaidOut(items, 5, supplied, args, at)
  <2> DEFINE m == 5
  <2>1. m \in Nat \ {0} /\ DOMAIN Idl[name] = 1 .. m /\ TellsApart(Idl[name], m)
    BY <1>2, <1>4 DEF items
  <2> HIDE DEF m, call
  <2>2. call.name = name /\ call.args = args /\ LaidOut(Idl[name], m, supplied, args, call.accounts)
    BY <1>1, <2>1, AllLaidOut
  <2> QED BY <2>2 DEF items, m
<1>6. /\ items[3] = ThePool /\ items[4] = CellByArg /\ items[5] = SensorByKey
  BY RegisterSensorItems DEF items, name
<1>7. "cellId" \in DOMAIN args /\ args["cellId"] = cellId
  BY DEF args
<1>8. at["pool"] = PoolPda
  BY <1>3, <1>5, <1>6, PoolAt
<1>9. at["cell"] = CellPda(args["cellId"])
  BY <1>3, <1>5, <1>6, <1>7, CellAt
<1>10. at["sensor"] = SensorPda(at["sensorKey"])
  BY <1>2, <1>3, <1>5, <1>6, SensorAt
<1>11. /\ at["operator"] = supplied["operator"] /\ at["sensorKey"] = supplied["sensorKey"]
  BY <1>2, <1>3, <1>5, GivenAt
<1>12. DOMAIN at = {"operator", "sensorKey", "pool", "cell", "sensor"}
  <2>1. DOMAIN at = {items[k].name : k \in 1 .. 5}
    BY <1>5 DEF LaidOut
  <2> QED BY <1>2, <2>1
<1> QED BY <1>3, <1>5, <1>7, <1>8, <1>9, <1>10, <1>11, <1>12, PdasInForm DEF name

(* reinstateSensor: its items in the IDL's order.                          *)
LEMMA ReinstateSensorItems ==
  LET items == Idl["reinstateSensor"] IN
  /\ DOMAIN items = 1 .. 3
  /\ items[1] = Signer("operator") /\ items[2] = SensorByItself
  /\ items[3] = InCell("reputation", "reputation", "cellId")
BY IdlIs DEF IdlReinstateSensor

(* What reinstateSensorInstruction lays out.                               *)
LEMMA ReinstateSensorAccounts ==
  ASSUME NEW operator, NEW key, NEW cellId
  PROVE  LET call == ReinstateSensorInstruction(operator, key, cellId)
             at == call.accounts IN
         /\ call.name = "reinstateSensor"
         /\ DOMAIN at = {"operator", "sensor", "reputation"}
         /\ at["operator"] = operator /\ at["sensor"] = SensorPda(key)
         /\ at["reputation"] = ReputationPda(cellId)
<1> DEFINE name == "reinstateSensor"
           items == Idl[name]
           supplied == [operator |-> operator, sensor |-> SensorPda(key), reputation |-> ReputationPda(cellId)]
           args == <<>>
           call == ReinstateSensorInstruction(operator, key, cellId)
           at == call.accounts
<1>1. call = BuildInstruction(name, supplied, args)
  BY DEF ReinstateSensorInstruction
<1>2. /\ DOMAIN items = 1 .. 3
      /\ items[1].name = "operator" /\ items[2].name = "sensor" /\ items[3].name = "reputation"
  BY ReinstateSensorItems, NamesOfItems
<1>3. /\ DOMAIN supplied = {"operator", "sensor", "reputation"}
      /\ supplied["operator"] = operator /\ supplied["sensor"] = SensorPda(key)
      /\ supplied["reputation"] = ReputationPda(cellId)
  OBVIOUS
<1>4. TellsApart(items, 3)
  BY <1>2 DEF TellsApart
<1> HIDE DEF name, items, supplied, args
<1>5. call.name = name /\ call.args = args /\ LaidOut(items, 3, supplied, args, at)
  <2> DEFINE m == 3
  <2>1. m \in Nat \ {0} /\ DOMAIN Idl[name] = 1 .. m /\ TellsApart(Idl[name], m)
    BY <1>2, <1>4 DEF items
  <2> HIDE DEF m, call
  <2>2. call.name = name /\ call.args = args /\ LaidOut(Idl[name], m, supplied, args, call.accounts)
    BY <1>1, <2>1, AllLaidOut
  <2> QED BY <2>2 DEF items, m
<1>6. /\ at["operator"] = supplied["operator"] /\ at["sensor"] = supplied["sensor"]
      /\ at["reputation"] = supplied["reputation"]
  BY <1>2, <1>3, <1>5, GivenAt
<1>7. DOMAIN at = {"operator", "sensor", "reputation"}
  <2>1. DOMAIN at = {items[k].name : k \in 1 .. 3}
    BY <1>5 DEF LaidOut
  <2> QED BY <1>2, <2>1
<1> QED BY <1>3, <1>5, <1>6, <1>7, PdasInForm DEF name

(* requestUnstake: its items in the IDL's order.                           *)
LEMMA RequestUnstakeItems ==
  LET items == Idl["requestUnstake"] IN
  /\ DOMAIN items = 1 .. 3
  /\ items[1] = Signer("operator") /\ items[2] = ThePool /\ items[3] = SensorByItself
BY IdlIs DEF IdlRequestUnstake

(* What requestUnstakeInstruction lays out.                                *)
LEMMA RequestUnstakeAccounts ==
  ASSUME NEW operator, NEW key, NEW amount
  PROVE  LET call == RequestUnstakeInstruction(operator, key, amount)
             at == call.accounts IN
         /\ call.name = "requestUnstake" /\ call.args["amount"] = amount
         /\ DOMAIN at = {"operator", "pool", "sensor"}
         /\ at["operator"] = operator /\ at["pool"] = PoolPda /\ at["sensor"] = SensorPda(key)
<1> DEFINE name == "requestUnstake"
           items == Idl[name]
           supplied == [operator |-> operator, sensor |-> SensorPda(key)]
           args == [amount |-> amount]
           call == RequestUnstakeInstruction(operator, key, amount)
           at == call.accounts
<1>1. call = BuildInstruction(name, supplied, args)
  BY DEF RequestUnstakeInstruction
<1>2. /\ DOMAIN items = 1 .. 3
      /\ items[1].name = "operator" /\ items[2].name = "pool" /\ items[3].name = "sensor"
  BY RequestUnstakeItems, NamesOfItems
<1>3. /\ DOMAIN supplied = {"operator", "sensor"}
      /\ supplied["operator"] = operator /\ supplied["sensor"] = SensorPda(key)
  OBVIOUS
<1>4. TellsApart(items, 3)
  BY <1>2 DEF TellsApart
<1> HIDE DEF name, items, supplied, args
<1>5. call.name = name /\ call.args = args /\ LaidOut(items, 3, supplied, args, at)
  <2> DEFINE m == 3
  <2>1. m \in Nat \ {0} /\ DOMAIN Idl[name] = 1 .. m /\ TellsApart(Idl[name], m)
    BY <1>2, <1>4 DEF items
  <2> HIDE DEF m, call
  <2>2. call.name = name /\ call.args = args /\ LaidOut(Idl[name], m, supplied, args, call.accounts)
    BY <1>1, <2>1, AllLaidOut
  <2> QED BY <2>2 DEF items, m
<1>6. /\ items[2] = ThePool
  BY RequestUnstakeItems DEF items, name
<1>7. "amount" \in DOMAIN args /\ args["amount"] = amount
  BY DEF args
<1>8. at["pool"] = PoolPda
  BY <1>3, <1>5, <1>6, PoolAt
<1>9. /\ at["operator"] = supplied["operator"] /\ at["sensor"] = supplied["sensor"]
  BY <1>2, <1>3, <1>5, GivenAt
<1>10. DOMAIN at = {"operator", "pool", "sensor"}
  <2>1. DOMAIN at = {items[k].name : k \in 1 .. 3}
    BY <1>5 DEF LaidOut
  <2> QED BY <1>2, <2>1
<1> QED BY <1>3, <1>5, <1>7, <1>8, <1>9, <1>10, PdasInForm DEF name

(* setPoolParams: its items in the IDL's order.                            *)
LEMMA SetPoolParamsItems ==
  LET items == Idl["setPoolParams"] IN
  /\ DOMAIN items = 1 .. 2
  /\ items[1] = Signer("authority") /\ items[2] = ThePool
BY IdlIs DEF IdlSetPoolParams

(* What setPoolParamsInstruction lays out.                                 *)
LEMMA SetPoolParamsAccounts ==
  ASSUME NEW authority
  PROVE  LET call == SetPoolParamsInstruction(authority)
             at == call.accounts IN
         /\ call.name = "setPoolParams"
         /\ DOMAIN at = {"authority", "pool"}
         /\ at["authority"] = authority /\ at["pool"] = PoolPda
<1> DEFINE name == "setPoolParams"
           items == Idl[name]
           supplied == [authority |-> authority]
           args == <<>>
           call == SetPoolParamsInstruction(authority)
           at == call.accounts
<1>1. call = BuildInstruction(name, supplied, args)
  BY DEF SetPoolParamsInstruction
<1>2. /\ DOMAIN items = 1 .. 2
      /\ items[1].name = "authority" /\ items[2].name = "pool"
  BY SetPoolParamsItems, NamesOfItems
<1>3. /\ DOMAIN supplied = {"authority"}
      /\ supplied["authority"] = authority
  OBVIOUS
<1>4. TellsApart(items, 2)
  BY <1>2 DEF TellsApart
<1> HIDE DEF name, items, supplied, args
<1>5. call.name = name /\ call.args = args /\ LaidOut(items, 2, supplied, args, at)
  <2> DEFINE m == 2
  <2>1. m \in Nat \ {0} /\ DOMAIN Idl[name] = 1 .. m /\ TellsApart(Idl[name], m)
    BY <1>2, <1>4 DEF items
  <2> HIDE DEF m, call
  <2>2. call.name = name /\ call.args = args /\ LaidOut(Idl[name], m, supplied, args, call.accounts)
    BY <1>1, <2>1, AllLaidOut
  <2> QED BY <2>2 DEF items, m
<1>6. /\ items[2] = ThePool
  BY SetPoolParamsItems DEF items, name
<1>7. at["pool"] = PoolPda
  BY <1>3, <1>5, <1>6, PoolAt
<1>8. /\ at["authority"] = supplied["authority"]
  BY <1>2, <1>3, <1>5, GivenAt
<1>9. DOMAIN at = {"authority", "pool"}
  <2>1. DOMAIN at = {items[k].name : k \in 1 .. 2}
    BY <1>5 DEF LaidOut
  <2> QED BY <1>2, <2>1
<1> QED BY <1>3, <1>5, <1>7, <1>8, <1>9, PdasInForm DEF name

(* settlePolicy: its items in the IDL's order.                             *)
LEMMA SettlePolicyItems ==
  LET items == Idl["settlePolicy"] IN
  /\ DOMAIN items = 1 .. 8
  /\ items[1] = Signer("caller") /\ items[2] = ThePool /\ items[3] = CellOfPolicy
  /\ items[4] = PolicyByItself /\ items[5] = Plain("assetMint") /\ items[6] = Plain("vault")
  /\ items[7] = Plain("ownerTokens") /\ items[8] = Plain("tokenProgram")
BY IdlIs DEF IdlSettlePolicy

(* What settlePolicyInstruction lays out.                                  *)
LEMMA SettlePolicyAccounts ==
  ASSUME NEW caller, NEW owner, NEW nonce, NEW cellId, NEW tokens
  PROVE  LET call == SettlePolicyInstruction(caller, owner, nonce, cellId, Asset, tokens)
             at == call.accounts IN
         /\ call.name = "settlePolicy"
         /\ DOMAIN at = {"caller", "pool", "cell", "policy", "assetMint", "vault", "ownerTokens", "tokenProgram"}
         /\ at["caller"] = caller /\ at["pool"] = PoolPda /\ at["cell"] = CellPda(cellId)
         /\ at["policy"] = PolicyPda(owner, nonce) /\ at["assetMint"] = Asset.mint
         /\ at["vault"] = VaultPda /\ at["ownerTokens"] = tokens
         /\ at["tokenProgram"] = Asset.program
<1> DEFINE name == "settlePolicy"
           items == Idl[name]
           rest == [caller |-> caller, policy |-> PolicyPda(owner, nonce), cell |-> CellPda(cellId),
                    ownerTokens |-> tokens, vault |-> VaultPda]
           supplied == Assets(Asset, rest)
           args == <<>>
           call == SettlePolicyInstruction(caller, owner, nonce, cellId, Asset, tokens)
           at == call.accounts
<1>1. call = BuildInstruction(name, supplied, args)
  BY DEF SettlePolicyInstruction, PolicyCall
<1>2. /\ DOMAIN items = 1 .. 8
      /\ items[1].name = "caller" /\ items[2].name = "pool" /\ items[3].name = "cell"
      /\ items[4].name = "policy" /\ items[5].name = "assetMint" /\ items[6].name = "vault"
      /\ items[7].name = "ownerTokens" /\ items[8].name = "tokenProgram"
  BY SettlePolicyItems, NamesOfItems
<1>3. /\ DOMAIN supplied = {"caller", "policy", "cell", "ownerTokens", "vault", "assetMint", "tokenProgram"}
      /\ supplied["caller"] = caller /\ supplied["policy"] = PolicyPda(owner, nonce)
      /\ supplied["cell"] = CellPda(cellId) /\ supplied["ownerTokens"] = tokens
      /\ supplied["vault"] = VaultPda /\ supplied["assetMint"] = Asset.mint
      /\ supplied["tokenProgram"] = Asset.program
  <2>1. /\ DOMAIN rest = {"caller", "policy", "cell", "ownerTokens", "vault"}
        /\ rest["caller"] = caller /\ rest["policy"] = PolicyPda(owner, nonce)
        /\ rest["cell"] = CellPda(cellId) /\ rest["ownerTokens"] = tokens
        /\ rest["vault"] = VaultPda
    OBVIOUS
  <2> HIDE DEF rest
  <2> QED BY <2>1, AssetsAre
<1>4. TellsApart(items, 8)
  BY <1>2 DEF TellsApart
<1> HIDE DEF name, items, supplied, args
<1>5. call.name = name /\ call.args = args /\ LaidOut(items, 8, supplied, args, at)
  <2> DEFINE m == 8
  <2>1. m \in Nat \ {0} /\ DOMAIN Idl[name] = 1 .. m /\ TellsApart(Idl[name], m)
    BY <1>2, <1>4 DEF items
  <2> HIDE DEF m, call
  <2>2. call.name = name /\ call.args = args /\ LaidOut(Idl[name], m, supplied, args, call.accounts)
    BY <1>1, <2>1, AllLaidOut
  <2> QED BY <2>2 DEF items, m
<1>6. /\ items[2] = ThePool
  BY SettlePolicyItems DEF items, name
<1>7. at["pool"] = PoolPda
  BY <1>3, <1>5, <1>6, PoolAt
<1>8. /\ at["caller"] = supplied["caller"] /\ at["policy"] = supplied["policy"]
      /\ at["cell"] = supplied["cell"] /\ at["ownerTokens"] = supplied["ownerTokens"]
      /\ at["vault"] = supplied["vault"] /\ at["assetMint"] = supplied["assetMint"]
      /\ at["tokenProgram"] = supplied["tokenProgram"]
  BY <1>2, <1>3, <1>5, GivenAt
<1>9. DOMAIN at = {"caller", "pool", "cell", "policy", "assetMint", "vault", "ownerTokens", "tokenProgram"}
  <2>1. DOMAIN at = {items[k].name : k \in 1 .. 8}
    BY <1>5 DEF LaidOut
  <2> QED BY <1>2, <2>1
<1> QED BY <1>3, <1>5, <1>7, <1>8, <1>9, PdasInForm DEF name

(* stakeSensor: its items in the IDL's order.                              *)
LEMMA StakeSensorItems ==
  LET items == Idl["stakeSensor"] IN
  /\ DOMAIN items = 1 .. 7
  /\ items[1] = Signer("operator") /\ items[2] = ThePool /\ items[3] = SensorByItself
  /\ items[4] = Plain("assetMint") /\ items[5] = Plain("stakeVault")
  /\ items[6] = Plain("operatorTokens") /\ items[7] = Plain("tokenProgram")
BY IdlIs DEF IdlStakeSensor

(* What stakeSensorInstruction lays out.                                   *)
LEMMA StakeSensorAccounts ==
  ASSUME NEW operator, NEW key, NEW tokens, NEW amount
  PROVE  LET call == StakeSensorInstruction(operator, key, Asset, tokens, amount)
             at == call.accounts IN
         /\ call.name = "stakeSensor" /\ call.args["amount"] = amount
         /\ DOMAIN at = {"operator", "pool", "sensor", "assetMint", "stakeVault", "operatorTokens", "tokenProgram"}
         /\ at["operator"] = operator /\ at["pool"] = PoolPda /\ at["sensor"] = SensorPda(key)
         /\ at["assetMint"] = Asset.mint /\ at["stakeVault"] = StakeVaultPda
         /\ at["operatorTokens"] = tokens /\ at["tokenProgram"] = Asset.program
<1> DEFINE name == "stakeSensor"
           items == Idl[name]
           rest == [operator |-> operator, sensor |-> SensorPda(key), operatorTokens |-> tokens,
                    stakeVault |-> StakeVaultPda]
           supplied == Assets(Asset, rest)
           args == [amount |-> amount]
           call == StakeSensorInstruction(operator, key, Asset, tokens, amount)
           at == call.accounts
<1>1. call = BuildInstruction(name, supplied, args)
  BY DEF StakeSensorInstruction
<1>2. /\ DOMAIN items = 1 .. 7
      /\ items[1].name = "operator" /\ items[2].name = "pool" /\ items[3].name = "sensor"
      /\ items[4].name = "assetMint" /\ items[5].name = "stakeVault"
      /\ items[6].name = "operatorTokens" /\ items[7].name = "tokenProgram"
  BY StakeSensorItems, NamesOfItems
<1>3. /\ DOMAIN supplied = {"operator", "sensor", "operatorTokens", "stakeVault", "assetMint", "tokenProgram"}
      /\ supplied["operator"] = operator /\ supplied["sensor"] = SensorPda(key)
      /\ supplied["operatorTokens"] = tokens /\ supplied["stakeVault"] = StakeVaultPda
      /\ supplied["assetMint"] = Asset.mint /\ supplied["tokenProgram"] = Asset.program
  <2>1. /\ DOMAIN rest = {"operator", "sensor", "operatorTokens", "stakeVault"}
        /\ rest["operator"] = operator /\ rest["sensor"] = SensorPda(key)
        /\ rest["operatorTokens"] = tokens /\ rest["stakeVault"] = StakeVaultPda
    OBVIOUS
  <2> HIDE DEF rest
  <2> QED BY <2>1, AssetsAre
<1>4. TellsApart(items, 7)
  BY <1>2 DEF TellsApart
<1> HIDE DEF name, items, supplied, args
<1>5. call.name = name /\ call.args = args /\ LaidOut(items, 7, supplied, args, at)
  <2> DEFINE m == 7
  <2>1. m \in Nat \ {0} /\ DOMAIN Idl[name] = 1 .. m /\ TellsApart(Idl[name], m)
    BY <1>2, <1>4 DEF items
  <2> HIDE DEF m, call
  <2>2. call.name = name /\ call.args = args /\ LaidOut(Idl[name], m, supplied, args, call.accounts)
    BY <1>1, <2>1, AllLaidOut
  <2> QED BY <2>2 DEF items, m
<1>6. /\ items[2] = ThePool
  BY StakeSensorItems DEF items, name
<1>7. "amount" \in DOMAIN args /\ args["amount"] = amount
  BY DEF args
<1>8. at["pool"] = PoolPda
  BY <1>3, <1>5, <1>6, PoolAt
<1>9. /\ at["operator"] = supplied["operator"] /\ at["sensor"] = supplied["sensor"]
      /\ at["operatorTokens"] = supplied["operatorTokens"]
      /\ at["stakeVault"] = supplied["stakeVault"] /\ at["assetMint"] = supplied["assetMint"]
      /\ at["tokenProgram"] = supplied["tokenProgram"]
  BY <1>2, <1>3, <1>5, GivenAt
<1>10. DOMAIN at = {"operator", "pool", "sensor", "assetMint", "stakeVault", "operatorTokens", "tokenProgram"}
  <2>1. DOMAIN at = {items[k].name : k \in 1 .. 7}
    BY <1>5 DEF LaidOut
  <2> QED BY <1>2, <2>1
<1> QED BY <1>3, <1>5, <1>7, <1>8, <1>9, <1>10, PdasInForm DEF name

(* submitDayRecord: its items in the IDL's order.                          *)
LEMMA SubmitDayRecordItems ==
  LET items == Idl["submitDayRecord"] IN
  /\ DOMAIN items = 1 .. 3
  /\ items[1] = Signer("aggregator") /\ items[2] = ThePool /\ items[3] = CellByArg
BY IdlIs DEF IdlSubmitDayRecord

(* What submitDayRecordInstruction lays out.                               *)
LEMMA SubmitDayRecordAccounts ==
  ASSUME NEW aggregator, NEW cellId
  PROVE  LET call == SubmitDayRecordInstruction(aggregator, cellId)
             at == call.accounts IN
         /\ call.name = "submitDayRecord" /\ call.args["cellId"] = cellId
         /\ DOMAIN at = {"aggregator", "pool", "cell"}
         /\ at["aggregator"] = aggregator /\ at["pool"] = PoolPda /\ at["cell"] = CellPda(cellId)
<1> DEFINE name == "submitDayRecord"
           items == Idl[name]
           supplied == [aggregator |-> aggregator]
           args == [cellId |-> cellId]
           call == SubmitDayRecordInstruction(aggregator, cellId)
           at == call.accounts
<1>1. call = BuildInstruction(name, supplied, args)
  BY DEF SubmitDayRecordInstruction
<1>2. /\ DOMAIN items = 1 .. 3
      /\ items[1].name = "aggregator" /\ items[2].name = "pool" /\ items[3].name = "cell"
  BY SubmitDayRecordItems, NamesOfItems
<1>3. /\ DOMAIN supplied = {"aggregator"}
      /\ supplied["aggregator"] = aggregator
  OBVIOUS
<1>4. TellsApart(items, 3)
  BY <1>2 DEF TellsApart
<1> HIDE DEF name, items, supplied, args
<1>5. call.name = name /\ call.args = args /\ LaidOut(items, 3, supplied, args, at)
  <2> DEFINE m == 3
  <2>1. m \in Nat \ {0} /\ DOMAIN Idl[name] = 1 .. m /\ TellsApart(Idl[name], m)
    BY <1>2, <1>4 DEF items
  <2> HIDE DEF m, call
  <2>2. call.name = name /\ call.args = args /\ LaidOut(Idl[name], m, supplied, args, call.accounts)
    BY <1>1, <2>1, AllLaidOut
  <2> QED BY <2>2 DEF items, m
<1>6. /\ items[2] = ThePool /\ items[3] = CellByArg
  BY SubmitDayRecordItems DEF items, name
<1>7. "cellId" \in DOMAIN args /\ args["cellId"] = cellId
  BY DEF args
<1>8. at["pool"] = PoolPda
  BY <1>3, <1>5, <1>6, PoolAt
<1>9. at["cell"] = CellPda(args["cellId"])
  BY <1>3, <1>5, <1>6, <1>7, CellAt
<1>10. /\ at["aggregator"] = supplied["aggregator"]
  BY <1>2, <1>3, <1>5, GivenAt
<1>11. DOMAIN at = {"aggregator", "pool", "cell"}
  <2>1. DOMAIN at = {items[k].name : k \in 1 .. 3}
    BY <1>5 DEF LaidOut
  <2> QED BY <1>2, <2>1
<1> QED BY <1>3, <1>5, <1>7, <1>8, <1>9, <1>10, <1>11, PdasInForm DEF name

(* submitDayReputation: its items in the IDL's order.                      *)
LEMMA SubmitDayReputationItems ==
  LET items == Idl["submitDayReputation"] IN
  /\ DOMAIN items = 1 .. 5
  /\ items[1] = Signer("aggregator") /\ items[2] = ThePool /\ items[3] = CellByArg
  /\ items[4] = ReputationByArg /\ items[5] = RewardsByArg
BY IdlIs DEF IdlSubmitDayReputation, RewardsByArg, ReputationByArg

(* What submitDayReputationInstruction lays out.                           *)
LEMMA SubmitDayReputationAccounts ==
  ASSUME NEW aggregator, NEW cellId
  PROVE  LET call == SubmitDayReputationInstruction(aggregator, cellId)
             at == call.accounts IN
         /\ call.name = "submitDayReputation" /\ call.args["cellId"] = cellId
         /\ DOMAIN at = {"aggregator", "pool", "cell", "reputation", "rewards"}
         /\ at["aggregator"] = aggregator /\ at["pool"] = PoolPda /\ at["cell"] = CellPda(cellId)
         /\ at["reputation"] = ReputationPda(cellId) /\ at["rewards"] = RewardsPda(cellId)
<1> DEFINE name == "submitDayReputation"
           items == Idl[name]
           supplied == [aggregator |-> aggregator]
           args == [cellId |-> cellId]
           call == SubmitDayReputationInstruction(aggregator, cellId)
           at == call.accounts
<1>1. call = BuildInstruction(name, supplied, args)
  BY DEF SubmitDayReputationInstruction
<1>2. /\ DOMAIN items = 1 .. 5
      /\ items[1].name = "aggregator" /\ items[2].name = "pool" /\ items[3].name = "cell"
      /\ items[4].name = "reputation" /\ items[5].name = "rewards"
  BY SubmitDayReputationItems, NamesOfItems
<1>3. /\ DOMAIN supplied = {"aggregator"}
      /\ supplied["aggregator"] = aggregator
  OBVIOUS
<1>4. TellsApart(items, 5)
  BY <1>2 DEF TellsApart
<1> HIDE DEF name, items, supplied, args
<1>5. call.name = name /\ call.args = args /\ LaidOut(items, 5, supplied, args, at)
  <2> DEFINE m == 5
  <2>1. m \in Nat \ {0} /\ DOMAIN Idl[name] = 1 .. m /\ TellsApart(Idl[name], m)
    BY <1>2, <1>4 DEF items
  <2> HIDE DEF m, call
  <2>2. call.name = name /\ call.args = args /\ LaidOut(Idl[name], m, supplied, args, call.accounts)
    BY <1>1, <2>1, AllLaidOut
  <2> QED BY <2>2 DEF items, m
<1>6. /\ items[2] = ThePool /\ items[3] = CellByArg /\ items[4] = ReputationByArg
      /\ items[5] = RewardsByArg
  BY SubmitDayReputationItems DEF items, name
<1>7. "cellId" \in DOMAIN args /\ args["cellId"] = cellId
  BY DEF args
<1>8. at["pool"] = PoolPda
  BY <1>3, <1>5, <1>6, PoolAt
<1>9. at["cell"] = CellPda(args["cellId"])
  BY <1>3, <1>5, <1>6, <1>7, CellAt
<1>10. at["reputation"] = ReputationPda(args["cellId"])
  BY <1>3, <1>5, <1>6, <1>7, ReputationAt
<1>11. at["rewards"] = RewardsPda(args["cellId"])
  BY <1>3, <1>5, <1>6, <1>7, RewardsAt
<1>12. /\ at["aggregator"] = supplied["aggregator"]
  BY <1>2, <1>3, <1>5, GivenAt
<1>13. DOMAIN at = {"aggregator", "pool", "cell", "reputation", "rewards"}
  <2>1. DOMAIN at = {items[k].name : k \in 1 .. 5}
    BY <1>5 DEF LaidOut
  <2> QED BY <1>2, <2>1
<1> QED BY <1>3, <1>5, <1>7, <1>8, <1>9, <1>10, <1>11, <1>12, <1>13, PdasInForm DEF name

(* withdrawStake: its items in the IDL's order.                            *)
LEMMA WithdrawStakeItems ==
  LET items == Idl["withdrawStake"] IN
  /\ DOMAIN items = 1 .. 7
  /\ items[1] = Signer("operator") /\ items[2] = ThePool /\ items[3] = SensorByItself
  /\ items[4] = Plain("assetMint") /\ items[5] = Plain("stakeVault")
  /\ items[6] = Plain("operatorTokens") /\ items[7] = Plain("tokenProgram")
BY IdlIs DEF IdlWithdrawStake

(* What withdrawStakeInstruction lays out.                                 *)
LEMMA WithdrawStakeAccounts ==
  ASSUME NEW operator, NEW key, NEW tokens
  PROVE  LET call == WithdrawStakeInstruction(operator, key, Asset, tokens)
             at == call.accounts IN
         /\ call.name = "withdrawStake"
         /\ DOMAIN at = {"operator", "pool", "sensor", "assetMint", "stakeVault", "operatorTokens", "tokenProgram"}
         /\ at["operator"] = operator /\ at["pool"] = PoolPda /\ at["sensor"] = SensorPda(key)
         /\ at["assetMint"] = Asset.mint /\ at["stakeVault"] = StakeVaultPda
         /\ at["operatorTokens"] = tokens /\ at["tokenProgram"] = Asset.program
<1> DEFINE name == "withdrawStake"
           items == Idl[name]
           rest == [operator |-> operator, sensor |-> SensorPda(key), operatorTokens |-> tokens,
                    stakeVault |-> StakeVaultPda]
           supplied == Assets(Asset, rest)
           args == <<>>
           call == WithdrawStakeInstruction(operator, key, Asset, tokens)
           at == call.accounts
<1>1. call = BuildInstruction(name, supplied, args)
  BY DEF WithdrawStakeInstruction
<1>2. /\ DOMAIN items = 1 .. 7
      /\ items[1].name = "operator" /\ items[2].name = "pool" /\ items[3].name = "sensor"
      /\ items[4].name = "assetMint" /\ items[5].name = "stakeVault"
      /\ items[6].name = "operatorTokens" /\ items[7].name = "tokenProgram"
  BY WithdrawStakeItems, NamesOfItems
<1>3. /\ DOMAIN supplied = {"operator", "sensor", "operatorTokens", "stakeVault", "assetMint", "tokenProgram"}
      /\ supplied["operator"] = operator /\ supplied["sensor"] = SensorPda(key)
      /\ supplied["operatorTokens"] = tokens /\ supplied["stakeVault"] = StakeVaultPda
      /\ supplied["assetMint"] = Asset.mint /\ supplied["tokenProgram"] = Asset.program
  <2>1. /\ DOMAIN rest = {"operator", "sensor", "operatorTokens", "stakeVault"}
        /\ rest["operator"] = operator /\ rest["sensor"] = SensorPda(key)
        /\ rest["operatorTokens"] = tokens /\ rest["stakeVault"] = StakeVaultPda
    OBVIOUS
  <2> HIDE DEF rest
  <2> QED BY <2>1, AssetsAre
<1>4. TellsApart(items, 7)
  BY <1>2 DEF TellsApart
<1> HIDE DEF name, items, supplied, args
<1>5. call.name = name /\ call.args = args /\ LaidOut(items, 7, supplied, args, at)
  <2> DEFINE m == 7
  <2>1. m \in Nat \ {0} /\ DOMAIN Idl[name] = 1 .. m /\ TellsApart(Idl[name], m)
    BY <1>2, <1>4 DEF items
  <2> HIDE DEF m, call
  <2>2. call.name = name /\ call.args = args /\ LaidOut(Idl[name], m, supplied, args, call.accounts)
    BY <1>1, <2>1, AllLaidOut
  <2> QED BY <2>2 DEF items, m
<1>6. /\ items[2] = ThePool
  BY WithdrawStakeItems DEF items, name
<1>7. at["pool"] = PoolPda
  BY <1>3, <1>5, <1>6, PoolAt
<1>8. /\ at["operator"] = supplied["operator"] /\ at["sensor"] = supplied["sensor"]
      /\ at["operatorTokens"] = supplied["operatorTokens"]
      /\ at["stakeVault"] = supplied["stakeVault"] /\ at["assetMint"] = supplied["assetMint"]
      /\ at["tokenProgram"] = supplied["tokenProgram"]
  BY <1>2, <1>3, <1>5, GivenAt
<1>9. DOMAIN at = {"operator", "pool", "sensor", "assetMint", "stakeVault", "operatorTokens", "tokenProgram"}
  <2>1. DOMAIN at = {items[k].name : k \in 1 .. 7}
    BY <1>5 DEF LaidOut
  <2> QED BY <1>2, <2>1
<1> QED BY <1>3, <1>5, <1>7, <1>8, <1>9, PdasInForm DEF name

-----------------------------------------------------------------------------
(***************************************************************************)
(* The accounts of the chain.                                              *)
(***************************************************************************)
PoolAccounts ==
  [authority : {Authority}, assetMint : {Asset.mint}, vault : {VaultPda}, stakeVault : {StakeVaultPda},
   aggregator : CallAggregators]

SensorAccounts(key) ==
  [sensorKey : {key}, operator : CallOperators, cellId : CallCells, previousCellId : CallCells]

PolicyAccounts(owner) == [owner : {owner}, nonce : {Nonce}, cellId : CallCells]

(* What stands at an address, and that a sensor or a policy has a pool.    *)
AccountsOK(chain) ==
  /\ \A w \in CallWallets : TokensOf(w) \in DOMAIN chain /\ chain[TokensOf(w)].authority = w
  /\ Asset.mint \in DOMAIN chain /\ chain[Asset.mint].program = Asset.program
  /\ VaultPda \notin DOMAIN chain /\ StakeVaultPda \notin DOMAIN chain
  /\ PoolPda \in DOMAIN chain => chain[PoolPda] \in PoolAccounts
  /\ \A k \in CallKeys : SensorPda(k) \in DOMAIN chain =>
       PoolPda \in DOMAIN chain /\ chain[SensorPda(k)] \in SensorAccounts(k)
  /\ \A o \in CallOwners : PolicyPda(o, Nonce) \in DOMAIN chain =>
       PoolPda \in DOMAIN chain /\ chain[PolicyPda(o, Nonce)] \in PolicyAccounts(o)

(* The pool's fields.                                                      *)
LEMMA PoolRead ==
  ASSUME NEW chain, AccountsOK(chain), PoolPda \in DOMAIN chain
  PROVE  LET pool == chain[PoolPda] IN
         /\ pool.authority = Authority /\ pool.assetMint = Asset.mint /\ pool.vault = VaultPda
         /\ pool.stakeVault = StakeVaultPda /\ pool.aggregator \in CallAggregators
         /\ chain[pool.assetMint].program = Asset.program
<1>1. chain[PoolPda] \in PoolAccounts
  BY DEF AccountsOK
<1>2. /\ chain[PoolPda].authority = Authority /\ chain[PoolPda].assetMint = Asset.mint
      /\ chain[PoolPda].vault = VaultPda /\ chain[PoolPda].stakeVault = StakeVaultPda
      /\ chain[PoolPda].aggregator \in CallAggregators
  BY <1>1 DEF PoolAccounts
<1> QED BY <1>2 DEF AccountsOK

(* A sensor's fields, and that its operator has a token account.           *)
LEMMA SensorRead ==
  ASSUME NEW chain, AccountsOK(chain), NEW key \in CallKeys, SensorPda(key) \in DOMAIN chain
  PROVE  LET s == chain[SensorPda(key)] IN
         /\ PoolPda \in DOMAIN chain
         /\ s.sensorKey = key /\ s.operator \in CallOperators
         /\ s.cellId \in CallCells /\ s.previousCellId \in CallCells
         /\ TokensOf(s.operator) \in DOMAIN chain /\ chain[TokensOf(s.operator)].authority = s.operator
<1> DEFINE s == chain[SensorPda(key)]
<1>1. s \in SensorAccounts(key) /\ PoolPda \in DOMAIN chain
  BY DEF AccountsOK
<1> HIDE DEF s
<1>2. s.sensorKey = key /\ s.operator \in CallOperators /\ s.cellId \in CallCells /\ s.previousCellId \in CallCells
  BY <1>1 DEF SensorAccounts
<1>3. TokensOf(s.operator) \in DOMAIN chain /\ chain[TokensOf(s.operator)].authority = s.operator
  <2>1. s.operator \in CallWallets
    BY <1>2 DEF CallWallets
  <2> QED BY <2>1 DEF AccountsOK
<1> QED BY <1>1, <1>2, <1>3 DEF s

(* A policy's fields, and that its owner has a token account.              *)
LEMMA PolicyRead ==
  ASSUME NEW chain, AccountsOK(chain), NEW o \in CallOwners, PolicyPda(o, Nonce) \in DOMAIN chain
  PROVE  LET p == chain[PolicyPda(o, Nonce)] IN
         /\ PoolPda \in DOMAIN chain
         /\ p.owner = o /\ p.nonce = Nonce /\ p.cellId \in CallCells
         /\ TokensOf(o) \in DOMAIN chain /\ chain[TokensOf(o)].authority = o
<1> DEFINE p == chain[PolicyPda(o, Nonce)]
<1>1. p \in PolicyAccounts(o) /\ PoolPda \in DOMAIN chain
  BY DEF AccountsOK
<1> HIDE DEF p
<1>2. p.owner = o /\ p.nonce = Nonce /\ p.cellId \in CallCells
  BY <1>1 DEF PolicyAccounts
<1>3. TokensOf(o) \in DOMAIN chain /\ chain[TokensOf(o)].authority = o
  BY DEF AccountsOK, CallWallets
<1> QED BY <1>1, <1>2, <1>3 DEF p

(* No account that a builder supplies or derives is Missing.               *)
LEMMA NotMissing ==
  /\ PoolPda # Missing /\ VaultPda # Missing /\ StakeVaultPda # Missing
  /\ Asset.mint # Missing /\ Asset.program # Missing /\ Authority # Missing
  /\ \A x : /\ CellPda(x) # Missing /\ SensorPda(x) # Missing /\ RewardsPda(x) # Missing
           /\ ReputationPda(x) # Missing /\ PositionPda(x) # Missing /\ TokensOf(x) # Missing
  /\ \A x, y : PolicyPda(x, y) # Missing
  /\ \A x \in CallOperators \cup CallKeys \cup CallOwners \cup CallAggregators : x # Missing
<1>1. \A x \in CallOperators \cup CallKeys \cup CallOwners \cup CallAggregators : x # Missing
  BY CallsAssumption
<1>2. /\ PoolPda # Missing /\ VaultPda # Missing /\ StakeVaultPda # Missing
      /\ Asset.mint # Missing /\ Asset.program # Missing /\ Authority # Missing
  BY DEF PoolPda, VaultPda, StakeVaultPda, Asset, Authority, Missing
<1>3. \A x : /\ CellPda(x) # Missing /\ SensorPda(x) # Missing /\ RewardsPda(x) # Missing
           /\ ReputationPda(x) # Missing /\ PositionPda(x) # Missing /\ TokensOf(x) # Missing
  BY DEF CellPda, SensorPda, RewardsPda, ReputationPda, PositionPda, TokensOf, AssociatedTokenAddress, Missing
<1>4. \A x, y : PolicyPda(x, y) # Missing
  BY DEF PolicyPda, Missing
<1> QED BY <1>1, <1>2, <1>3, <1>4

(* The accounts that an instruction opens.                                 *)
LEMMA OpenedAre ==
  /\ Opened("initializePool") = {"pool", "vault", "stakeVault"}
  /\ Opened("registerSensor") = {"sensor"} /\ Opened("issuePolicy") = {"policy"}
  /\ \A name : name \notin {"initializePool", "registerSensor", "issuePolicy"} => Opened(name) = {}
BY DEF Opened

(***************************************************************************)
(* A call built from the accounts as they are is taken.                    *)
(***************************************************************************)
(* claimReward, built from the accounts as they are, is taken.             *)
LEMMA ClaimRewardTaken ==
  ASSUME NEW chain, AccountsOK(chain), NEW key \in CallKeys, SensorPda(key) \in DOMAIN chain,
         NEW cellId \in {chain[SensorPda(key)].cellId, chain[SensorPda(key)].previousCellId}
  PROVE  LET s == chain[SensorPda(key)] IN
         Accepts(ClaimRewardInstruction(s.operator, key, cellId, Asset, TokensOf(s.operator)), chain)
<1> DEFINE s == chain[SensorPda(key)]
           caller == s.operator
           tokens == TokensOf(s.operator)
           call == ClaimRewardInstruction(caller, key, cellId, Asset, tokens)
           at == call.accounts
<1>1. /\ PoolPda \in DOMAIN chain /\ s.sensorKey = key /\ s.operator \in CallOperators
      /\ s.operator = caller /\ tokens \in DOMAIN chain /\ chain[tokens].authority = s.operator
      /\ tokens # Missing
  BY SensorRead, NotMissing
<1>2. /\ chain[PoolPda].assetMint = Asset.mint /\ chain[Asset.mint].program = Asset.program
      /\ chain[PoolPda].vault = VaultPda
  BY <1>1, PoolRead
<1>3. /\ call.name = "claimReward"
      /\ DOMAIN at = {"caller", "pool", "sensor", "rewards", "assetMint", "vault", "operatorTokens", "tokenProgram"}
      /\ at["caller"] = caller /\ at["pool"] = PoolPda /\ at["sensor"] = SensorPda(key)
      /\ at["rewards"] = RewardsPda(cellId) /\ at["assetMint"] = Asset.mint
      /\ at["vault"] = VaultPda /\ at["operatorTokens"] = tokens
      /\ at["tokenProgram"] = Asset.program
      /\ call.args["cellId"] = cellId
  BY ClaimRewardAccounts
<1> HIDE DEF call, caller, tokens
<1>4. ~Throws(call)
  BY <1>1, <1>2, <1>3, NotMissing DEF Throws
<1>5. /\ \A n \in Opened(call.name) : at[n] \notin DOMAIN chain
      /\ {at[n] : n \in {"pool", "sensor", "policy"} \cap (DOMAIN at \ Opened(call.name))} \subseteq DOMAIN chain
  BY <1>1, <1>2, <1>3, OpenedAre
<1>6. ASSUME NEW i \in DOMAIN Idl[call.name] PROVE SeedsHold(Idl[call.name][i], call, chain)
  <2>1. /\ SeedsHold(ThePool, call, chain) /\ SeedsHold(SensorByItself, call, chain)
        /\ SeedsHold(RewardsByArg, call, chain)
    BY <1>1, <1>2, <1>3, ItemsAsk
  <2>2. \A n : SeedsHold(Signer(n), call, chain) /\ SeedsHold(Plain(n), call, chain)
    BY NothingAsked
  <2> QED BY <1>3, <2>1, <2>2, ClaimRewardItems
<1>7. RolesHold(call, chain)
  BY <1>1, <1>2, <1>3 DEF RolesHold
<1>8. CellIsTheSensors(call, chain)
  BY <1>1, <1>2, <1>3 DEF CellIsTheSensors
<1>9. Accepts(call, chain)
  BY <1>3, <1>4, <1>5, <1>6, <1>7, <1>8 DEF Accepts
<1> QED BY <1>9 DEF call, caller, tokens

(* claimUnclaimedPayout, built from the accounts as they are, is taken.    *)
LEMMA ClaimUnclaimedPayoutTaken ==
  ASSUME NEW chain, AccountsOK(chain), NEW owner \in CallOwners, PolicyPda(owner, Nonce) \in DOMAIN chain
  PROVE  LET p == chain[PolicyPda(owner, Nonce)] IN
         Accepts(ClaimUnclaimedPayoutInstruction(Authority, owner, Nonce, p.cellId, Asset, TokensOf(owner)), chain)
<1> DEFINE p == chain[PolicyPda(owner, Nonce)]
           caller == Authority
           cellId == p.cellId
           tokens == TokensOf(owner)
           call == ClaimUnclaimedPayoutInstruction(caller, owner, Nonce, cellId, Asset, tokens)
           at == call.accounts
<1>1. /\ PoolPda \in DOMAIN chain /\ p.owner = owner /\ p.nonce = Nonce /\ p.cellId = cellId
      /\ caller # Missing /\ tokens \in DOMAIN chain /\ chain[tokens].authority = owner
      /\ tokens # Missing
  BY PolicyRead, NotMissing
<1>2. /\ chain[PoolPda].assetMint = Asset.mint /\ chain[Asset.mint].program = Asset.program
      /\ chain[PoolPda].vault = VaultPda
  BY <1>1, PoolRead
<1>3. /\ call.name = "claimUnclaimedPayout"
      /\ DOMAIN at = {"caller", "pool", "cell", "policy", "assetMint", "vault", "ownerTokens", "tokenProgram"}
      /\ at["caller"] = caller /\ at["pool"] = PoolPda /\ at["cell"] = CellPda(cellId)
      /\ at["policy"] = PolicyPda(owner, Nonce) /\ at["assetMint"] = Asset.mint
      /\ at["vault"] = VaultPda /\ at["ownerTokens"] = tokens /\ at["tokenProgram"] = Asset.program
  BY ClaimUnclaimedPayoutAccounts
<1> HIDE DEF call, caller, cellId, tokens
<1>4. ~Throws(call)
  BY <1>1, <1>2, <1>3, NotMissing DEF Throws
<1>5. /\ \A n \in Opened(call.name) : at[n] \notin DOMAIN chain
      /\ {at[n] : n \in {"pool", "sensor", "policy"} \cap (DOMAIN at \ Opened(call.name))} \subseteq DOMAIN chain
  BY <1>1, <1>2, <1>3, OpenedAre
<1>6. ASSUME NEW i \in DOMAIN Idl[call.name] PROVE SeedsHold(Idl[call.name][i], call, chain)
  <2>1. /\ SeedsHold(ThePool, call, chain) /\ SeedsHold(CellOfPolicy, call, chain)
        /\ SeedsHold(PolicyByItself, call, chain)
    BY <1>1, <1>2, <1>3, ItemsAsk
  <2>2. \A n : SeedsHold(Signer(n), call, chain) /\ SeedsHold(Plain(n), call, chain)
    BY NothingAsked
  <2> QED BY <1>3, <2>1, <2>2, ClaimUnclaimedPayoutItems
<1>7. RolesHold(call, chain)
  BY <1>1, <1>2, <1>3 DEF RolesHold
<1>8. CellIsTheSensors(call, chain)
  BY <1>1, <1>2, <1>3 DEF CellIsTheSensors
<1>9. Accepts(call, chain)
  BY <1>3, <1>4, <1>5, <1>6, <1>7, <1>8 DEF Accepts
<1> QED BY <1>9 DEF call, caller, cellId, tokens

(* closeInvestigation, built from the accounts as they are, is taken.      *)
LEMMA CloseInvestigationTaken ==
  ASSUME NEW chain, AccountsOK(chain), PoolPda \in DOMAIN chain, NEW cellId
  PROVE  Accepts(CloseInvestigationInstruction(chain[PoolPda].authority, cellId), chain)
<1> DEFINE authority == chain[PoolPda].authority
           call == CloseInvestigationInstruction(authority, cellId)
           at == call.accounts
<1>1. /\ authority # Missing /\ chain[PoolPda].authority = authority
  BY PoolRead, NotMissing
<1>2. /\ call.name = "closeInvestigation"
      /\ DOMAIN at = {"authority", "pool", "cell"}
      /\ at["authority"] = authority /\ at["pool"] = PoolPda /\ at["cell"] = CellPda(cellId)
      /\ call.args["cellId"] = cellId
  BY CloseInvestigationAccounts
<1> HIDE DEF call, authority
<1>3. ~Throws(call)
  BY <1>1, <1>2, NotMissing DEF Throws
<1>4. /\ \A n \in Opened(call.name) : at[n] \notin DOMAIN chain
      /\ {at[n] : n \in {"pool", "sensor", "policy"} \cap (DOMAIN at \ Opened(call.name))} \subseteq DOMAIN chain
  BY <1>1, <1>2, OpenedAre
<1>5. ASSUME NEW i \in DOMAIN Idl[call.name] PROVE SeedsHold(Idl[call.name][i], call, chain)
  <2>1. /\ SeedsHold(ThePool, call, chain) /\ SeedsHold(CellByArg, call, chain)
    BY <1>1, <1>2, ItemsAsk
  <2>2. \A n : SeedsHold(Signer(n), call, chain) /\ SeedsHold(Plain(n), call, chain)
    BY NothingAsked
  <2> QED BY <1>2, <2>1, <2>2, CloseInvestigationItems
<1>6. RolesHold(call, chain)
  BY <1>1, <1>2 DEF RolesHold
<1>7. CellIsTheSensors(call, chain)
  BY <1>1, <1>2 DEF CellIsTheSensors
<1>8. Accepts(call, chain)
  BY <1>2, <1>3, <1>4, <1>5, <1>6, <1>7 DEF Accepts
<1> QED BY <1>8 DEF call, authority

(* closePolicy, built from the accounts as they are, is taken.             *)
LEMMA ClosePolicyTaken ==
  ASSUME NEW chain, AccountsOK(chain), NEW owner \in CallOwners, PolicyPda(owner, Nonce) \in DOMAIN chain
  PROVE  LET p == chain[PolicyPda(owner, Nonce)] IN
         Accepts(ClosePolicyInstruction(Authority, owner, Nonce, p.cellId), chain)
<1> DEFINE p == chain[PolicyPda(owner, Nonce)]
           caller == Authority
           cellId == p.cellId
           call == ClosePolicyInstruction(caller, owner, Nonce, cellId)
           at == call.accounts
<1>1. /\ PoolPda \in DOMAIN chain /\ p.owner = owner /\ p.nonce = Nonce /\ p.cellId = cellId
      /\ caller # Missing
  BY PolicyRead, NotMissing
<1>2. /\ call.name = "closePolicy"
      /\ DOMAIN at = {"caller", "pool", "cell", "policy"}
      /\ at["caller"] = caller /\ at["pool"] = PoolPda /\ at["cell"] = CellPda(cellId)
      /\ at["policy"] = PolicyPda(owner, Nonce)
  BY ClosePolicyAccounts
<1> HIDE DEF call, caller, cellId
<1>3. ~Throws(call)
  BY <1>1, <1>2, NotMissing DEF Throws
<1>4. /\ \A n \in Opened(call.name) : at[n] \notin DOMAIN chain
      /\ {at[n] : n \in {"pool", "sensor", "policy"} \cap (DOMAIN at \ Opened(call.name))} \subseteq DOMAIN chain
  BY <1>1, <1>2, OpenedAre
<1>5. ASSUME NEW i \in DOMAIN Idl[call.name] PROVE SeedsHold(Idl[call.name][i], call, chain)
  <2>1. /\ SeedsHold(ThePool, call, chain) /\ SeedsHold(CellOfPolicy, call, chain)
        /\ SeedsHold(PolicyByItself, call, chain)
    BY <1>1, <1>2, ItemsAsk
  <2>2. \A n : SeedsHold(Signer(n), call, chain) /\ SeedsHold(Plain(n), call, chain)
    BY NothingAsked
  <2> QED BY <1>2, <2>1, <2>2, ClosePolicyItems
<1>6. RolesHold(call, chain)
  BY <1>1, <1>2 DEF RolesHold
<1>7. CellIsTheSensors(call, chain)
  BY <1>1, <1>2 DEF CellIsTheSensors
<1>8. Accepts(call, chain)
  BY <1>2, <1>3, <1>4, <1>5, <1>6, <1>7 DEF Accepts
<1> QED BY <1>8 DEF call, caller, cellId

(* depositCapital, built from the accounts as they are, is taken.          *)
LEMMA DepositCapitalTaken ==
  ASSUME NEW chain, AccountsOK(chain), PoolPda \in DOMAIN chain, NEW depositor \in CallWallets
  PROVE  Accepts(DepositCapitalInstruction(depositor, Asset, TokensOf(depositor)), chain)
<1> DEFINE tokens == TokensOf(depositor)
           call == DepositCapitalInstruction(depositor, Asset, tokens)
           at == call.accounts
<1>1. /\ tokens \in DOMAIN chain /\ chain[tokens].authority = depositor /\ tokens # Missing
      /\ depositor # Missing
  BY NotMissing DEF AccountsOK, CallWallets
<1>2. /\ chain[PoolPda].assetMint = Asset.mint /\ chain[Asset.mint].program = Asset.program
      /\ chain[PoolPda].vault = VaultPda
  BY <1>1, PoolRead
<1>3. /\ call.name = "depositCapital"
      /\ DOMAIN at = {"depositor", "pool", "assetMint", "vault", "depositorTokens", "position", "tokenProgram"}
      /\ at["depositor"] = depositor /\ at["pool"] = PoolPda /\ at["assetMint"] = Asset.mint
      /\ at["vault"] = VaultPda /\ at["depositorTokens"] = tokens
      /\ at["position"] = PositionPda(depositor) /\ at["tokenProgram"] = Asset.program
  BY DepositCapitalAccounts
<1> HIDE DEF call, tokens
<1>4. ~Throws(call)
  BY <1>1, <1>2, <1>3, NotMissing DEF Throws
<1>5. /\ \A n \in Opened(call.name) : at[n] \notin DOMAIN chain
      /\ {at[n] : n \in {"pool", "sensor", "policy"} \cap (DOMAIN at \ Opened(call.name))} \subseteq DOMAIN chain
  BY <1>1, <1>2, <1>3, OpenedAre
<1>6. ASSUME NEW i \in DOMAIN Idl[call.name] PROVE SeedsHold(Idl[call.name][i], call, chain)
  <2>1. /\ SeedsHold(ThePool, call, chain) /\ SeedsHold(PositionByDepositor, call, chain)
    BY <1>1, <1>2, <1>3, ItemsAsk
  <2>2. \A n : SeedsHold(Signer(n), call, chain) /\ SeedsHold(Plain(n), call, chain)
    BY NothingAsked
  <2> QED BY <1>3, <2>1, <2>2, DepositCapitalItems
<1>7. RolesHold(call, chain)
  BY <1>1, <1>2, <1>3 DEF RolesHold
<1>8. CellIsTheSensors(call, chain)
  BY <1>1, <1>2, <1>3 DEF CellIsTheSensors
<1>9. Accepts(call, chain)
  BY <1>3, <1>4, <1>5, <1>6, <1>7, <1>8 DEF Accepts
<1> QED BY <1>9 DEF call, tokens

(* excludeSensor, built from the accounts as they are, is taken.           *)
LEMMA ExcludeSensorTaken ==
  ASSUME NEW chain, AccountsOK(chain), NEW key \in CallKeys, SensorPda(key) \in DOMAIN chain
  PROVE  LET s == chain[SensorPda(key)] IN
         Accepts(ExcludeSensorInstruction(s.operator, key, s.cellId, s.previousCellId, Asset), chain)
<1> DEFINE s == chain[SensorPda(key)]
           caller == s.operator
           cellId == s.cellId
           previousCellId == s.previousCellId
           call == ExcludeSensorInstruction(caller, key, cellId, previousCellId, Asset)
           at == call.accounts
<1>1. /\ PoolPda \in DOMAIN chain /\ s.sensorKey = key /\ s.operator \in CallOperators
      /\ s.operator = caller /\ s.cellId = cellId /\ s.previousCellId = previousCellId
  BY SensorRead
<1>2. /\ chain[PoolPda].assetMint = Asset.mint /\ chain[Asset.mint].program = Asset.program
      /\ chain[PoolPda].vault = VaultPda /\ chain[PoolPda].stakeVault = StakeVaultPda
  BY <1>1, PoolRead
<1>3. /\ call.name = "excludeSensor"
      /\ DOMAIN at = {"caller", "pool", "sensor", "reputation", "previousReputation", "rewards",
                      "previousRewards", "assetMint", "stakeVault", "vault", "tokenProgram"}
      /\ at["caller"] = caller /\ at["pool"] = PoolPda /\ at["sensor"] = SensorPda(key)
      /\ at["reputation"] = ReputationPda(cellId)
      /\ at["previousReputation"] = ReputationPda(previousCellId)
      /\ at["rewards"] = RewardsPda(cellId) /\ at["previousRewards"] = RewardsPda(previousCellId)
      /\ at["assetMint"] = Asset.mint /\ at["stakeVault"] = StakeVaultPda /\ at["vault"] = VaultPda
      /\ at["tokenProgram"] = Asset.program
  BY ExcludeSensorAccounts
<1> HIDE DEF call, caller, cellId, previousCellId
<1>4. ~Throws(call)
  BY <1>1, <1>2, <1>3, NotMissing DEF Throws
<1>5. /\ \A n \in Opened(call.name) : at[n] \notin DOMAIN chain
      /\ {at[n] : n \in {"pool", "sensor", "policy"} \cap (DOMAIN at \ Opened(call.name))} \subseteq DOMAIN chain
  BY <1>1, <1>2, <1>3, OpenedAre
<1>6. ASSUME NEW i \in DOMAIN Idl[call.name] PROVE SeedsHold(Idl[call.name][i], call, chain)
  <2>1. /\ SeedsHold(ThePool, call, chain) /\ SeedsHold(SensorByItself, call, chain)
        /\ SeedsHold(InCell("reputation", "reputation", "cellId"), call, chain)
        /\ SeedsHold(InCell("previousReputation", "reputation", "previousCellId"), call, chain)
        /\ SeedsHold(InCell("rewards", "rewards", "cellId"), call, chain)
        /\ SeedsHold(InCell("previousRewards", "rewards", "previousCellId"), call, chain)
    BY <1>1, <1>2, <1>3, ItemsAsk
  <2>2. \A n : SeedsHold(Signer(n), call, chain) /\ SeedsHold(Plain(n), call, chain)
    BY NothingAsked
  <2> QED BY <1>3, <2>1, <2>2, ExcludeSensorItems
<1>7. RolesHold(call, chain)
  BY <1>1, <1>2, <1>3 DEF RolesHold
<1>8. CellIsTheSensors(call, chain)
  BY <1>1, <1>2, <1>3 DEF CellIsTheSensors
<1>9. Accepts(call, chain)
  BY <1>3, <1>4, <1>5, <1>6, <1>7, <1>8 DEF Accepts
<1> QED BY <1>9 DEF call, caller, cellId, previousCellId

(* initializePool, built from the accounts as they are, is taken.          *)
LEMMA InitializePoolTaken ==
  ASSUME NEW chain, AccountsOK(chain), PoolPda \notin DOMAIN chain, NEW aggregator \in CallAggregators
  PROVE  Accepts(InitializePoolInstruction(Authority, Asset, aggregator), chain)
<1> DEFINE authority == Authority
           call == InitializePoolInstruction(authority, Asset, aggregator)
           at == call.accounts
<1>1. /\ authority # Missing /\ VaultPda \notin DOMAIN chain /\ StakeVaultPda \notin DOMAIN chain
  BY NotMissing DEF AccountsOK, CallWallets
<1>2. /\ call.name = "initializePool"
      /\ DOMAIN at = {"authority", "pool", "assetMint", "vault", "stakeVault", "tokenProgram"}
      /\ at["authority"] = authority /\ at["pool"] = PoolPda /\ at["assetMint"] = Asset.mint
      /\ at["vault"] = VaultPda /\ at["stakeVault"] = StakeVaultPda
      /\ at["tokenProgram"] = Asset.program
      /\ call.args["aggregator"] = aggregator
  BY InitializePoolAccounts
<1> HIDE DEF call, authority
<1>3. ~Throws(call)
  BY <1>1, <1>2, NotMissing DEF Throws
<1>4. /\ \A n \in Opened(call.name) : at[n] \notin DOMAIN chain
      /\ {at[n] : n \in {"pool", "sensor", "policy"} \cap (DOMAIN at \ Opened(call.name))} \subseteq DOMAIN chain
  BY <1>1, <1>2, OpenedAre
<1>5. ASSUME NEW i \in DOMAIN Idl[call.name] PROVE SeedsHold(Idl[call.name][i], call, chain)
  <2>1. /\ SeedsHold(ThePool, call, chain) /\ SeedsHold(VaultOfPool, call, chain)
        /\ SeedsHold(StakeVaultOfPool, call, chain)
    BY <1>1, <1>2, ItemsAsk DEF VaultPda, VaultPdaOf, StakeVaultPda, StakeVaultPdaOf
  <2>2. \A n : SeedsHold(Signer(n), call, chain) /\ SeedsHold(Plain(n), call, chain)
    BY NothingAsked
  <2> QED BY <1>2, <2>1, <2>2, InitializePoolItems
<1>6. CellIsTheSensors(call, chain)
  BY <1>1, <1>2 DEF CellIsTheSensors
<1>7. Accepts(call, chain)
  BY <1>2, <1>3, <1>4, <1>5, <1>6 DEF Accepts
<1> QED BY <1>7 DEF call, authority

(* issuePolicy, built from the accounts as they are, is taken.             *)
LEMMA IssuePolicyTaken ==
  ASSUME NEW chain, AccountsOK(chain), PoolPda \in DOMAIN chain, NEW owner \in CallOwners,
         PolicyPda(owner, Nonce) \notin DOMAIN chain, NEW cellId
  PROVE  Accepts(IssuePolicyInstruction(owner, Asset, TokensOf(owner), Nonce, cellId), chain)
<1> DEFINE tokens == TokensOf(owner)
           call == IssuePolicyInstruction(owner, Asset, tokens, Nonce, cellId)
           at == call.accounts
<1>1. /\ tokens \in DOMAIN chain /\ chain[tokens].authority = owner /\ tokens # Missing
      /\ owner # Missing
  BY NotMissing DEF AccountsOK, CallWallets
<1>2. /\ chain[PoolPda].assetMint = Asset.mint /\ chain[Asset.mint].program = Asset.program
      /\ chain[PoolPda].vault = VaultPda
  BY <1>1, PoolRead
<1>3. /\ call.name = "issuePolicy"
      /\ DOMAIN at = {"owner", "pool", "cell", "policy", "rewards", "assetMint", "vault", "ownerTokens", "tokenProgram"}
      /\ at["owner"] = owner /\ at["pool"] = PoolPda /\ at["cell"] = CellPda(cellId)
      /\ at["policy"] = PolicyPda(owner, Nonce) /\ at["rewards"] = RewardsPda(cellId)
      /\ at["assetMint"] = Asset.mint /\ at["vault"] = VaultPda /\ at["ownerTokens"] = tokens
      /\ at["tokenProgram"] = Asset.program
      /\ call.args["nonce"] = Nonce /\ call.args["cellId"] = cellId
  BY IssuePolicyAccounts
<1> HIDE DEF call, tokens
<1>4. ~Throws(call)
  BY <1>1, <1>2, <1>3, NotMissing DEF Throws
<1>5. /\ \A n \in Opened(call.name) : at[n] \notin DOMAIN chain
      /\ {at[n] : n \in {"pool", "sensor", "policy"} \cap (DOMAIN at \ Opened(call.name))} \subseteq DOMAIN chain
  BY <1>1, <1>2, <1>3, OpenedAre
<1>6. ASSUME NEW i \in DOMAIN Idl[call.name] PROVE SeedsHold(Idl[call.name][i], call, chain)
  <2>1. /\ SeedsHold(ThePool, call, chain) /\ SeedsHold(CellByArg, call, chain)
        /\ SeedsHold(PolicyByOwner, call, chain) /\ SeedsHold(RewardsByArg, call, chain)
    BY <1>1, <1>2, <1>3, ItemsAsk
  <2>2. \A n : SeedsHold(Signer(n), call, chain) /\ SeedsHold(Plain(n), call, chain)
    BY NothingAsked
  <2> QED BY <1>3, <2>1, <2>2, IssuePolicyItems
<1>7. RolesHold(call, chain)
  BY <1>1, <1>2, <1>3 DEF RolesHold
<1>8. CellIsTheSensors(call, chain)
  BY <1>1, <1>2, <1>3 DEF CellIsTheSensors
<1>9. Accepts(call, chain)
  BY <1>3, <1>4, <1>5, <1>6, <1>7, <1>8 DEF Accepts
<1> QED BY <1>9 DEF call, tokens

(* moveSensor, built from the accounts as they are, is taken.              *)
LEMMA MoveSensorTaken ==
  ASSUME NEW chain, AccountsOK(chain), NEW key \in CallKeys, SensorPda(key) \in DOMAIN chain,
         NEW cellId, cellId # chain[SensorPda(key)].cellId
  PROVE  LET s == chain[SensorPda(key)] IN
         Accepts(MoveSensorInstruction(s.operator, key, cellId, s.previousCellId), chain)
<1> DEFINE s == chain[SensorPda(key)]
           operator == s.operator
           previousCellId == s.previousCellId
           call == MoveSensorInstruction(operator, key, cellId, previousCellId)
           at == call.accounts
<1>1. /\ PoolPda \in DOMAIN chain /\ s.sensorKey = key /\ s.operator \in CallOperators
      /\ s.operator = operator /\ s.previousCellId = previousCellId
  BY SensorRead
<1>2. /\ call.name = "moveSensor"
      /\ DOMAIN at = {"operator", "sensorKey", "pool", "sensor", "cell", "previousRewards"}
      /\ at["operator"] = operator /\ at["sensorKey"] = key /\ at["pool"] = PoolPda
      /\ at["sensor"] = SensorPda(key) /\ at["cell"] = CellPda(cellId)
      /\ at["previousRewards"] = RewardsPda(previousCellId)
      /\ call.args["cellId"] = cellId
  BY MoveSensorAccounts
<1> HIDE DEF call, operator, previousCellId
<1>3. ~Throws(call)
  BY <1>1, <1>2, NotMissing DEF Throws
<1>4. /\ \A n \in Opened(call.name) : at[n] \notin DOMAIN chain
      /\ {at[n] : n \in {"pool", "sensor", "policy"} \cap (DOMAIN at \ Opened(call.name))} \subseteq DOMAIN chain
  BY <1>1, <1>2, OpenedAre
<1>5. ASSUME NEW i \in DOMAIN Idl[call.name] PROVE SeedsHold(Idl[call.name][i], call, chain)
  <2>1. /\ SeedsHold(ThePool, call, chain) /\ SeedsHold(SensorByKey, call, chain)
        /\ SeedsHold(CellByArg, call, chain)
        /\ SeedsHold(InCell("previousRewards", "rewards", "previousCellId"), call, chain)
    BY <1>1, <1>2, ItemsAsk
  <2>2. \A n : SeedsHold(Signer(n), call, chain) /\ SeedsHold(Plain(n), call, chain)
    BY NothingAsked
  <2> QED BY <1>2, <2>1, <2>2, MoveSensorItems
<1>6. RolesHold(call, chain)
  BY <1>1, <1>2 DEF RolesHold
<1>7. CellIsTheSensors(call, chain)
  BY <1>1, <1>2 DEF CellIsTheSensors
<1>8. Accepts(call, chain)
  BY <1>2, <1>3, <1>4, <1>5, <1>6, <1>7 DEF Accepts
<1> QED BY <1>8 DEF call, operator, previousCellId

(* openInvestigation, built from the accounts as they are, is taken.       *)
LEMMA OpenInvestigationTaken ==
  ASSUME NEW chain, AccountsOK(chain), PoolPda \in DOMAIN chain, NEW cellId
  PROVE  Accepts(OpenInvestigationInstruction(chain[PoolPda].aggregator, cellId), chain)
<1> DEFINE aggregator == chain[PoolPda].aggregator
           call == OpenInvestigationInstruction(aggregator, cellId)
           at == call.accounts
<1>1. /\ aggregator # Missing /\ chain[PoolPda].aggregator = aggregator
  BY PoolRead, NotMissing
<1>2. /\ call.name = "openInvestigation"
      /\ DOMAIN at = {"aggregator", "pool", "cell"}
      /\ at["aggregator"] = aggregator /\ at["pool"] = PoolPda /\ at["cell"] = CellPda(cellId)
      /\ call.args["cellId"] = cellId
  BY OpenInvestigationAccounts
<1> HIDE DEF call, aggregator
<1>3. ~Throws(call)
  BY <1>1, <1>2, NotMissing DEF Throws
<1>4. /\ \A n \in Opened(call.name) : at[n] \notin DOMAIN chain
      /\ {at[n] : n \in {"pool", "sensor", "policy"} \cap (DOMAIN at \ Opened(call.name))} \subseteq DOMAIN chain
  BY <1>1, <1>2, OpenedAre
<1>5. ASSUME NEW i \in DOMAIN Idl[call.name] PROVE SeedsHold(Idl[call.name][i], call, chain)
  <2>1. /\ SeedsHold(ThePool, call, chain) /\ SeedsHold(CellByArg, call, chain)
    BY <1>1, <1>2, ItemsAsk
  <2>2. \A n : SeedsHold(Signer(n), call, chain) /\ SeedsHold(Plain(n), call, chain)
    BY NothingAsked
  <2> QED BY <1>2, <2>1, <2>2, OpenInvestigationItems
<1>6. RolesHold(call, chain)
  BY <1>1, <1>2 DEF RolesHold
<1>7. CellIsTheSensors(call, chain)
  BY <1>1, <1>2 DEF CellIsTheSensors
<1>8. Accepts(call, chain)
  BY <1>2, <1>3, <1>4, <1>5, <1>6, <1>7 DEF Accepts
<1> QED BY <1>8 DEF call, aggregator

(* registerSensor, built from the accounts as they are, is taken.          *)
LEMMA RegisterSensorTaken ==
  ASSUME NEW chain, AccountsOK(chain), PoolPda \in DOMAIN chain, NEW operator \in CallOperators, NEW key \in CallKeys,
         SensorPda(key) \notin DOMAIN chain, NEW cellId
  PROVE  Accepts(RegisterSensorInstruction(operator, key, cellId), chain)
<1> DEFINE call == RegisterSensorInstruction(operator, key, cellId)
           at == call.accounts
<1>1. /\ call.name = "registerSensor"
      /\ DOMAIN at = {"operator", "sensorKey", "pool", "cell", "sensor"}
      /\ at["operator"] = operator /\ at["sensorKey"] = key /\ at["pool"] = PoolPda
      /\ at["cell"] = CellPda(cellId) /\ at["sensor"] = SensorPda(key)
      /\ call.args["cellId"] = cellId
  BY RegisterSensorAccounts
<1> HIDE DEF call
<1>2. ~Throws(call)
  BY <1>1, NotMissing DEF Throws
<1>3. /\ \A n \in Opened(call.name) : at[n] \notin DOMAIN chain
      /\ {at[n] : n \in {"pool", "sensor", "policy"} \cap (DOMAIN at \ Opened(call.name))} \subseteq DOMAIN chain
  BY <1>1, OpenedAre
<1>4. ASSUME NEW i \in DOMAIN Idl[call.name] PROVE SeedsHold(Idl[call.name][i], call, chain)
  <2>1. /\ SeedsHold(ThePool, call, chain) /\ SeedsHold(CellByArg, call, chain)
        /\ SeedsHold(SensorByKey, call, chain)
    BY <1>1, ItemsAsk
  <2>2. \A n : SeedsHold(Signer(n), call, chain) /\ SeedsHold(Plain(n), call, chain)
    BY NothingAsked
  <2> QED BY <1>1, <2>1, <2>2, RegisterSensorItems
<1>5. RolesHold(call, chain)
  BY <1>1 DEF RolesHold
<1>6. CellIsTheSensors(call, chain)
  BY <1>1 DEF CellIsTheSensors
<1>7. Accepts(call, chain)
  BY <1>1, <1>2, <1>3, <1>4, <1>5, <1>6 DEF Accepts
<1> QED BY <1>7 DEF call

(* reinstateSensor, built from the accounts as they are, is taken.         *)
LEMMA ReinstateSensorTaken ==
  ASSUME NEW chain, AccountsOK(chain), NEW key \in CallKeys, SensorPda(key) \in DOMAIN chain
  PROVE  LET s == chain[SensorPda(key)] IN
         Accepts(ReinstateSensorInstruction(s.operator, key, s.cellId), chain)
<1> DEFINE s == chain[SensorPda(key)]
           operator == s.operator
           cellId == s.cellId
           call == ReinstateSensorInstruction(operator, key, cellId)
           at == call.accounts
<1>1. /\ PoolPda \in DOMAIN chain /\ s.sensorKey = key /\ s.operator \in CallOperators
      /\ s.operator = operator /\ s.cellId = cellId
  BY SensorRead
<1>2. /\ call.name = "reinstateSensor"
      /\ DOMAIN at = {"operator", "sensor", "reputation"}
      /\ at["operator"] = operator /\ at["sensor"] = SensorPda(key)
      /\ at["reputation"] = ReputationPda(cellId)
  BY ReinstateSensorAccounts
<1> HIDE DEF call, operator, cellId
<1>3. ~Throws(call)
  BY <1>1, <1>2, NotMissing DEF Throws
<1>4. /\ \A n \in Opened(call.name) : at[n] \notin DOMAIN chain
      /\ {at[n] : n \in {"pool", "sensor", "policy"} \cap (DOMAIN at \ Opened(call.name))} \subseteq DOMAIN chain
  BY <1>1, <1>2, OpenedAre
<1>5. ASSUME NEW i \in DOMAIN Idl[call.name] PROVE SeedsHold(Idl[call.name][i], call, chain)
  <2>1. /\ SeedsHold(SensorByItself, call, chain)
        /\ SeedsHold(InCell("reputation", "reputation", "cellId"), call, chain)
    BY <1>1, <1>2, ItemsAsk
  <2>2. \A n : SeedsHold(Signer(n), call, chain) /\ SeedsHold(Plain(n), call, chain)
    BY NothingAsked
  <2> QED BY <1>2, <2>1, <2>2, ReinstateSensorItems
<1>6. RolesHold(call, chain)
  BY <1>1, <1>2 DEF RolesHold
<1>7. CellIsTheSensors(call, chain)
  BY <1>1, <1>2 DEF CellIsTheSensors
<1>8. Accepts(call, chain)
  BY <1>2, <1>3, <1>4, <1>5, <1>6, <1>7 DEF Accepts
<1> QED BY <1>8 DEF call, operator, cellId

(* requestUnstake, built from the accounts as they are, is taken.          *)
LEMMA RequestUnstakeTaken ==
  ASSUME NEW chain, AccountsOK(chain), NEW key \in CallKeys, SensorPda(key) \in DOMAIN chain, NEW amount
  PROVE  LET s == chain[SensorPda(key)] IN
         Accepts(RequestUnstakeInstruction(s.operator, key, amount), chain)
<1> DEFINE s == chain[SensorPda(key)]
           operator == s.operator
           call == RequestUnstakeInstruction(operator, key, amount)
           at == call.accounts
<1>1. /\ PoolPda \in DOMAIN chain /\ s.sensorKey = key /\ s.operator \in CallOperators
      /\ s.operator = operator
  BY SensorRead
<1>2. /\ call.name = "requestUnstake"
      /\ DOMAIN at = {"operator", "pool", "sensor"}
      /\ at["operator"] = operator /\ at["pool"] = PoolPda /\ at["sensor"] = SensorPda(key)
      /\ call.args["amount"] = amount
  BY RequestUnstakeAccounts
<1> HIDE DEF call, operator
<1>3. ~Throws(call)
  BY <1>1, <1>2, NotMissing DEF Throws
<1>4. /\ \A n \in Opened(call.name) : at[n] \notin DOMAIN chain
      /\ {at[n] : n \in {"pool", "sensor", "policy"} \cap (DOMAIN at \ Opened(call.name))} \subseteq DOMAIN chain
  BY <1>1, <1>2, OpenedAre
<1>5. ASSUME NEW i \in DOMAIN Idl[call.name] PROVE SeedsHold(Idl[call.name][i], call, chain)
  <2>1. /\ SeedsHold(ThePool, call, chain) /\ SeedsHold(SensorByItself, call, chain)
    BY <1>1, <1>2, ItemsAsk
  <2>2. \A n : SeedsHold(Signer(n), call, chain) /\ SeedsHold(Plain(n), call, chain)
    BY NothingAsked
  <2> QED BY <1>2, <2>1, <2>2, RequestUnstakeItems
<1>6. RolesHold(call, chain)
  BY <1>1, <1>2 DEF RolesHold
<1>7. CellIsTheSensors(call, chain)
  BY <1>1, <1>2 DEF CellIsTheSensors
<1>8. Accepts(call, chain)
  BY <1>2, <1>3, <1>4, <1>5, <1>6, <1>7 DEF Accepts
<1> QED BY <1>8 DEF call, operator

(* setPoolParams, built from the accounts as they are, is taken.           *)
LEMMA SetPoolParamsTaken ==
  ASSUME NEW chain, AccountsOK(chain), PoolPda \in DOMAIN chain
  PROVE  Accepts(SetPoolParamsInstruction(chain[PoolPda].authority), chain)
<1> DEFINE authority == chain[PoolPda].authority
           call == SetPoolParamsInstruction(authority)
           at == call.accounts
<1>1. /\ authority # Missing /\ chain[PoolPda].authority = authority
  BY PoolRead, NotMissing
<1>2. /\ call.name = "setPoolParams"
      /\ DOMAIN at = {"authority", "pool"}
      /\ at["authority"] = authority /\ at["pool"] = PoolPda
  BY SetPoolParamsAccounts
<1> HIDE DEF call, authority
<1>3. ~Throws(call)
  BY <1>1, <1>2, NotMissing DEF Throws
<1>4. /\ \A n \in Opened(call.name) : at[n] \notin DOMAIN chain
      /\ {at[n] : n \in {"pool", "sensor", "policy"} \cap (DOMAIN at \ Opened(call.name))} \subseteq DOMAIN chain
  BY <1>1, <1>2, OpenedAre
<1>5. ASSUME NEW i \in DOMAIN Idl[call.name] PROVE SeedsHold(Idl[call.name][i], call, chain)
  <2>1. /\ SeedsHold(ThePool, call, chain)
    BY <1>1, <1>2, ItemsAsk
  <2>2. \A n : SeedsHold(Signer(n), call, chain) /\ SeedsHold(Plain(n), call, chain)
    BY NothingAsked
  <2> QED BY <1>2, <2>1, <2>2, SetPoolParamsItems
<1>6. RolesHold(call, chain)
  BY <1>1, <1>2 DEF RolesHold
<1>7. CellIsTheSensors(call, chain)
  BY <1>1, <1>2 DEF CellIsTheSensors
<1>8. Accepts(call, chain)
  BY <1>2, <1>3, <1>4, <1>5, <1>6, <1>7 DEF Accepts
<1> QED BY <1>8 DEF call, authority

(* settlePolicy, built from the accounts as they are, is taken.            *)
LEMMA SettlePolicyTaken ==
  ASSUME NEW chain, AccountsOK(chain), NEW owner \in CallOwners, PolicyPda(owner, Nonce) \in DOMAIN chain
  PROVE  LET p == chain[PolicyPda(owner, Nonce)] IN
         Accepts(SettlePolicyInstruction(Authority, owner, Nonce, p.cellId, Asset, TokensOf(owner)), chain)
<1> DEFINE p == chain[PolicyPda(owner, Nonce)]
           caller == Authority
           cellId == p.cellId
           tokens == TokensOf(owner)
           call == SettlePolicyInstruction(caller, owner, Nonce, cellId, Asset, tokens)
           at == call.accounts
<1>1. /\ PoolPda \in DOMAIN chain /\ p.owner = owner /\ p.nonce = Nonce /\ p.cellId = cellId
      /\ caller # Missing /\ tokens \in DOMAIN chain /\ chain[tokens].authority = owner
      /\ tokens # Missing
  BY PolicyRead, NotMissing
<1>2. /\ chain[PoolPda].assetMint = Asset.mint /\ chain[Asset.mint].program = Asset.program
      /\ chain[PoolPda].vault = VaultPda
  BY <1>1, PoolRead
<1>3. /\ call.name = "settlePolicy"
      /\ DOMAIN at = {"caller", "pool", "cell", "policy", "assetMint", "vault", "ownerTokens", "tokenProgram"}
      /\ at["caller"] = caller /\ at["pool"] = PoolPda /\ at["cell"] = CellPda(cellId)
      /\ at["policy"] = PolicyPda(owner, Nonce) /\ at["assetMint"] = Asset.mint
      /\ at["vault"] = VaultPda /\ at["ownerTokens"] = tokens /\ at["tokenProgram"] = Asset.program
  BY SettlePolicyAccounts
<1> HIDE DEF call, caller, cellId, tokens
<1>4. ~Throws(call)
  BY <1>1, <1>2, <1>3, NotMissing DEF Throws
<1>5. /\ \A n \in Opened(call.name) : at[n] \notin DOMAIN chain
      /\ {at[n] : n \in {"pool", "sensor", "policy"} \cap (DOMAIN at \ Opened(call.name))} \subseteq DOMAIN chain
  BY <1>1, <1>2, <1>3, OpenedAre
<1>6. ASSUME NEW i \in DOMAIN Idl[call.name] PROVE SeedsHold(Idl[call.name][i], call, chain)
  <2>1. /\ SeedsHold(ThePool, call, chain) /\ SeedsHold(CellOfPolicy, call, chain)
        /\ SeedsHold(PolicyByItself, call, chain)
    BY <1>1, <1>2, <1>3, ItemsAsk
  <2>2. \A n : SeedsHold(Signer(n), call, chain) /\ SeedsHold(Plain(n), call, chain)
    BY NothingAsked
  <2> QED BY <1>3, <2>1, <2>2, SettlePolicyItems
<1>7. RolesHold(call, chain)
  BY <1>1, <1>2, <1>3 DEF RolesHold
<1>8. CellIsTheSensors(call, chain)
  BY <1>1, <1>2, <1>3 DEF CellIsTheSensors
<1>9. Accepts(call, chain)
  BY <1>3, <1>4, <1>5, <1>6, <1>7, <1>8 DEF Accepts
<1> QED BY <1>9 DEF call, caller, cellId, tokens

(* stakeSensor, built from the accounts as they are, is taken.             *)
LEMMA StakeSensorTaken ==
  ASSUME NEW chain, AccountsOK(chain), NEW key \in CallKeys, SensorPda(key) \in DOMAIN chain, NEW amount
  PROVE  LET s == chain[SensorPda(key)] IN
         Accepts(StakeSensorInstruction(s.operator, key, Asset, TokensOf(s.operator), amount), chain)
<1> DEFINE s == chain[SensorPda(key)]
           operator == s.operator
           tokens == TokensOf(s.operator)
           call == StakeSensorInstruction(operator, key, Asset, tokens, amount)
           at == call.accounts
<1>1. /\ PoolPda \in DOMAIN chain /\ s.sensorKey = key /\ s.operator \in CallOperators
      /\ s.operator = operator /\ tokens \in DOMAIN chain /\ chain[tokens].authority = s.operator
      /\ tokens # Missing
  BY SensorRead, NotMissing
<1>2. /\ chain[PoolPda].assetMint = Asset.mint /\ chain[Asset.mint].program = Asset.program
      /\ chain[PoolPda].stakeVault = StakeVaultPda
  BY <1>1, PoolRead
<1>3. /\ call.name = "stakeSensor"
      /\ DOMAIN at = {"operator", "pool", "sensor", "assetMint", "stakeVault", "operatorTokens", "tokenProgram"}
      /\ at["operator"] = operator /\ at["pool"] = PoolPda /\ at["sensor"] = SensorPda(key)
      /\ at["assetMint"] = Asset.mint /\ at["stakeVault"] = StakeVaultPda
      /\ at["operatorTokens"] = tokens /\ at["tokenProgram"] = Asset.program
      /\ call.args["amount"] = amount
  BY StakeSensorAccounts
<1> HIDE DEF call, operator, tokens
<1>4. ~Throws(call)
  BY <1>1, <1>2, <1>3, NotMissing DEF Throws
<1>5. /\ \A n \in Opened(call.name) : at[n] \notin DOMAIN chain
      /\ {at[n] : n \in {"pool", "sensor", "policy"} \cap (DOMAIN at \ Opened(call.name))} \subseteq DOMAIN chain
  BY <1>1, <1>2, <1>3, OpenedAre
<1>6. ASSUME NEW i \in DOMAIN Idl[call.name] PROVE SeedsHold(Idl[call.name][i], call, chain)
  <2>1. /\ SeedsHold(ThePool, call, chain) /\ SeedsHold(SensorByItself, call, chain)
    BY <1>1, <1>2, <1>3, ItemsAsk
  <2>2. \A n : SeedsHold(Signer(n), call, chain) /\ SeedsHold(Plain(n), call, chain)
    BY NothingAsked
  <2> QED BY <1>3, <2>1, <2>2, StakeSensorItems
<1>7. RolesHold(call, chain)
  BY <1>1, <1>2, <1>3 DEF RolesHold
<1>8. CellIsTheSensors(call, chain)
  BY <1>1, <1>2, <1>3 DEF CellIsTheSensors
<1>9. Accepts(call, chain)
  BY <1>3, <1>4, <1>5, <1>6, <1>7, <1>8 DEF Accepts
<1> QED BY <1>9 DEF call, operator, tokens

(* submitDayRecord, built from the accounts as they are, is taken.         *)
LEMMA SubmitDayRecordTaken ==
  ASSUME NEW chain, AccountsOK(chain), PoolPda \in DOMAIN chain, NEW cellId
  PROVE  Accepts(SubmitDayRecordInstruction(chain[PoolPda].aggregator, cellId), chain)
<1> DEFINE aggregator == chain[PoolPda].aggregator
           call == SubmitDayRecordInstruction(aggregator, cellId)
           at == call.accounts
<1>1. /\ aggregator # Missing /\ chain[PoolPda].aggregator = aggregator
  BY PoolRead, NotMissing
<1>2. /\ call.name = "submitDayRecord"
      /\ DOMAIN at = {"aggregator", "pool", "cell"}
      /\ at["aggregator"] = aggregator /\ at["pool"] = PoolPda /\ at["cell"] = CellPda(cellId)
      /\ call.args["cellId"] = cellId
  BY SubmitDayRecordAccounts
<1> HIDE DEF call, aggregator
<1>3. ~Throws(call)
  BY <1>1, <1>2, NotMissing DEF Throws
<1>4. /\ \A n \in Opened(call.name) : at[n] \notin DOMAIN chain
      /\ {at[n] : n \in {"pool", "sensor", "policy"} \cap (DOMAIN at \ Opened(call.name))} \subseteq DOMAIN chain
  BY <1>1, <1>2, OpenedAre
<1>5. ASSUME NEW i \in DOMAIN Idl[call.name] PROVE SeedsHold(Idl[call.name][i], call, chain)
  <2>1. /\ SeedsHold(ThePool, call, chain) /\ SeedsHold(CellByArg, call, chain)
    BY <1>1, <1>2, ItemsAsk
  <2>2. \A n : SeedsHold(Signer(n), call, chain) /\ SeedsHold(Plain(n), call, chain)
    BY NothingAsked
  <2> QED BY <1>2, <2>1, <2>2, SubmitDayRecordItems
<1>6. RolesHold(call, chain)
  BY <1>1, <1>2 DEF RolesHold
<1>7. CellIsTheSensors(call, chain)
  BY <1>1, <1>2 DEF CellIsTheSensors
<1>8. Accepts(call, chain)
  BY <1>2, <1>3, <1>4, <1>5, <1>6, <1>7 DEF Accepts
<1> QED BY <1>8 DEF call, aggregator

(* submitDayReputation, built from the accounts as they are, is taken.     *)
LEMMA SubmitDayReputationTaken ==
  ASSUME NEW chain, AccountsOK(chain), PoolPda \in DOMAIN chain, NEW cellId
  PROVE  Accepts(SubmitDayReputationInstruction(chain[PoolPda].aggregator, cellId), chain)
<1> DEFINE aggregator == chain[PoolPda].aggregator
           call == SubmitDayReputationInstruction(aggregator, cellId)
           at == call.accounts
<1>1. /\ aggregator # Missing /\ chain[PoolPda].aggregator = aggregator
  BY PoolRead, NotMissing
<1>2. /\ call.name = "submitDayReputation"
      /\ DOMAIN at = {"aggregator", "pool", "cell", "reputation", "rewards"}
      /\ at["aggregator"] = aggregator /\ at["pool"] = PoolPda /\ at["cell"] = CellPda(cellId)
      /\ at["reputation"] = ReputationPda(cellId) /\ at["rewards"] = RewardsPda(cellId)
      /\ call.args["cellId"] = cellId
  BY SubmitDayReputationAccounts
<1> HIDE DEF call, aggregator
<1>3. ~Throws(call)
  BY <1>1, <1>2, NotMissing DEF Throws
<1>4. /\ \A n \in Opened(call.name) : at[n] \notin DOMAIN chain
      /\ {at[n] : n \in {"pool", "sensor", "policy"} \cap (DOMAIN at \ Opened(call.name))} \subseteq DOMAIN chain
  BY <1>1, <1>2, OpenedAre
<1>5. ASSUME NEW i \in DOMAIN Idl[call.name] PROVE SeedsHold(Idl[call.name][i], call, chain)
  <2>1. /\ SeedsHold(ThePool, call, chain) /\ SeedsHold(CellByArg, call, chain)
        /\ SeedsHold(ReputationByArg, call, chain) /\ SeedsHold(RewardsByArg, call, chain)
    BY <1>1, <1>2, ItemsAsk
  <2>2. \A n : SeedsHold(Signer(n), call, chain) /\ SeedsHold(Plain(n), call, chain)
    BY NothingAsked
  <2> QED BY <1>2, <2>1, <2>2, SubmitDayReputationItems
<1>6. RolesHold(call, chain)
  BY <1>1, <1>2 DEF RolesHold
<1>7. CellIsTheSensors(call, chain)
  BY <1>1, <1>2 DEF CellIsTheSensors
<1>8. Accepts(call, chain)
  BY <1>2, <1>3, <1>4, <1>5, <1>6, <1>7 DEF Accepts
<1> QED BY <1>8 DEF call, aggregator

(* withdrawStake, built from the accounts as they are, is taken.           *)
LEMMA WithdrawStakeTaken ==
  ASSUME NEW chain, AccountsOK(chain), NEW key \in CallKeys, SensorPda(key) \in DOMAIN chain
  PROVE  LET s == chain[SensorPda(key)] IN
         Accepts(WithdrawStakeInstruction(s.operator, key, Asset, TokensOf(s.operator)), chain)
<1> DEFINE s == chain[SensorPda(key)]
           operator == s.operator
           tokens == TokensOf(s.operator)
           call == WithdrawStakeInstruction(operator, key, Asset, tokens)
           at == call.accounts
<1>1. /\ PoolPda \in DOMAIN chain /\ s.sensorKey = key /\ s.operator \in CallOperators
      /\ s.operator = operator /\ tokens \in DOMAIN chain /\ chain[tokens].authority = s.operator
      /\ tokens # Missing
  BY SensorRead, NotMissing
<1>2. /\ chain[PoolPda].assetMint = Asset.mint /\ chain[Asset.mint].program = Asset.program
      /\ chain[PoolPda].stakeVault = StakeVaultPda
  BY <1>1, PoolRead
<1>3. /\ call.name = "withdrawStake"
      /\ DOMAIN at = {"operator", "pool", "sensor", "assetMint", "stakeVault", "operatorTokens", "tokenProgram"}
      /\ at["operator"] = operator /\ at["pool"] = PoolPda /\ at["sensor"] = SensorPda(key)
      /\ at["assetMint"] = Asset.mint /\ at["stakeVault"] = StakeVaultPda
      /\ at["operatorTokens"] = tokens /\ at["tokenProgram"] = Asset.program
  BY WithdrawStakeAccounts
<1> HIDE DEF call, operator, tokens
<1>4. ~Throws(call)
  BY <1>1, <1>2, <1>3, NotMissing DEF Throws
<1>5. /\ \A n \in Opened(call.name) : at[n] \notin DOMAIN chain
      /\ {at[n] : n \in {"pool", "sensor", "policy"} \cap (DOMAIN at \ Opened(call.name))} \subseteq DOMAIN chain
  BY <1>1, <1>2, <1>3, OpenedAre
<1>6. ASSUME NEW i \in DOMAIN Idl[call.name] PROVE SeedsHold(Idl[call.name][i], call, chain)
  <2>1. /\ SeedsHold(ThePool, call, chain) /\ SeedsHold(SensorByItself, call, chain)
    BY <1>1, <1>2, <1>3, ItemsAsk
  <2>2. \A n : SeedsHold(Signer(n), call, chain) /\ SeedsHold(Plain(n), call, chain)
    BY NothingAsked
  <2> QED BY <1>3, <2>1, <2>2, WithdrawStakeItems
<1>7. RolesHold(call, chain)
  BY <1>1, <1>2, <1>3 DEF RolesHold
<1>8. CellIsTheSensors(call, chain)
  BY <1>1, <1>2, <1>3 DEF CellIsTheSensors
<1>9. Accepts(call, chain)
  BY <1>3, <1>4, <1>5, <1>6, <1>7, <1>8 DEF Accepts
<1> QED BY <1>9 DEF call, operator, tokens

(* The calls there are, one by one.                                        *)
LEMMA CallsAre ==
  ASSUME NEW read, AccountsOK(read), NEW call
  PROVE  call \in CallsFrom(read) <=>
           \/ /\ PoolPda \notin DOMAIN read
              /\ \E a \in CallAggregators : call = InitializePoolInstruction(Authority, Asset, a)
           \/ /\ PoolPda \in DOMAIN read
              /\ \/ call \in PoolCalls(read)
                 \/ \E k \in CallKeys : SensorPda(k) \in DOMAIN read /\ call \in SensorCalls(read[SensorPda(k)], k)
                 \/ \E o \in CallOwners :
                      PolicyPda(o, Nonce) \in DOMAIN read /\ call \in PolicyCalls(read[PolicyPda(o, Nonce)], Authority)
<1>1. PoolPda \notin DOMAIN read =>
        (call \in CallsFrom(read) <=> \E a \in CallAggregators : call = InitializePoolInstruction(Authority, Asset, a))
  BY DEF CallsFrom
<1>2. ASSUME PoolPda \in DOMAIN read
      PROVE  call \in CallsFrom(read) <=>
               \/ call \in PoolCalls(read)
               \/ \E s \in SensorsRead(read) : call \in SensorCalls(s, s.sensorKey)
               \/ \E p \in PoliciesRead(read) : call \in PolicyCalls(p, Authority)
  BY <1>2 DEF CallsFrom
<1>3. (\E s \in SensorsRead(read) : call \in SensorCalls(s, s.sensorKey)) <=>
        \E k \in CallKeys : SensorPda(k) \in DOMAIN read /\ call \in SensorCalls(read[SensorPda(k)], k)
  <2>1. \A k \in CallKeys : SensorPda(k) \in DOMAIN read => read[SensorPda(k)].sensorKey = k
    BY SensorRead
  <2>2. SensorsRead(read) = {read[SensorPda(k)] : k \in {l \in CallKeys : SensorPda(l) \in DOMAIN read}}
    BY DEF SensorsRead
  <2> QED BY <2>1, <2>2
<1>4. (\E p \in PoliciesRead(read) : call \in PolicyCalls(p, Authority)) <=>
        \E o \in CallOwners :
          PolicyPda(o, Nonce) \in DOMAIN read /\ call \in PolicyCalls(read[PolicyPda(o, Nonce)], Authority)
  <2>1. PoliciesRead(read) =
          {read[PolicyPda(o, Nonce)] : o \in {l \in CallOwners : PolicyPda(l, Nonce) \in DOMAIN read}}
    BY DEF PoliciesRead
  <2> QED BY <2>1
<1> QED BY <1>1, <1>2, <1>3, <1>4

(* Every call that the accounts of the chain allow is taken.               *)
LEMMA FreshIsTaken ==
  ASSUME NEW chain, AccountsOK(chain), NEW call \in CallsFrom(chain)
  PROVE  Accepts(call, chain)
<1>1. CASE PoolPda \notin DOMAIN chain
  <2>1. PICK a \in CallAggregators : call = InitializePoolInstruction(Authority, Asset, a)
    BY <1>1, CallsAre
  <2> QED BY <1>1, <2>1, InitializePoolTaken
<1>2. CASE PoolPda \in DOMAIN chain /\ call \in PoolCalls(chain)
  <2>1. \/ call = SetPoolParamsInstruction(chain[PoolPda].authority)
        \/ \E w \in CallWallets : call = DepositCapitalInstruction(w, Asset, TokensOf(w))
        \/ \E c \in CallCells : \/ call = SubmitDayRecordInstruction(chain[PoolPda].aggregator, c)
                                \/ call = SubmitDayReputationInstruction(chain[PoolPda].aggregator, c)
                                \/ call = OpenInvestigationInstruction(chain[PoolPda].aggregator, c)
                                \/ call = CloseInvestigationInstruction(chain[PoolPda].authority, c)
        \/ \E o \in CallOwners, c \in CallCells :
             PolicyPda(o, Nonce) \notin DOMAIN chain /\ call = IssuePolicyInstruction(o, Asset, TokensOf(o), Nonce, c)
        \/ \E o \in CallOperators, k \in CallKeys, c \in CallCells :
             SensorPda(k) \notin DOMAIN chain /\ call = RegisterSensorInstruction(o, k, c)
    BY <1>2 DEF PoolCalls
  <2> QED BY <1>2, <2>1, SetPoolParamsTaken, DepositCapitalTaken, SubmitDayRecordTaken, SubmitDayReputationTaken,
             OpenInvestigationTaken, CloseInvestigationTaken, IssuePolicyTaken, RegisterSensorTaken
<1>3. ASSUME NEW k \in CallKeys, SensorPda(k) \in DOMAIN chain, call \in SensorCalls(chain[SensorPda(k)], k)
      PROVE  Accepts(call, chain)
  <2> DEFINE s == chain[SensorPda(k)]
  <2>1. \/ call = StakeSensorInstruction(s.operator, k, Asset, TokensOf(s.operator), "amount")
        \/ call = RequestUnstakeInstruction(s.operator, k, "amount")
        \/ call = WithdrawStakeInstruction(s.operator, k, Asset, TokensOf(s.operator))
        \/ call = ExcludeSensorInstruction(s.operator, k, s.cellId, s.previousCellId, Asset)
        \/ call = ReinstateSensorInstruction(s.operator, k, s.cellId)
        \/ call = ClaimRewardInstruction(s.operator, k, s.cellId, Asset, TokensOf(s.operator))
        \/ call = ClaimRewardInstruction(s.operator, k, s.previousCellId, Asset, TokensOf(s.operator))
        \/ \E c \in CallCells : c # s.cellId /\ call = MoveSensorInstruction(s.operator, k, c, s.previousCellId)
    BY <1>3 DEF SensorCalls
  <2> QED BY <1>3, <2>1, StakeSensorTaken, RequestUnstakeTaken, WithdrawStakeTaken, ExcludeSensorTaken,
             ReinstateSensorTaken, ClaimRewardTaken, MoveSensorTaken
<1>4. ASSUME NEW o \in CallOwners, PolicyPda(o, Nonce) \in DOMAIN chain,
             call \in PolicyCalls(chain[PolicyPda(o, Nonce)], Authority)
      PROVE  Accepts(call, chain)
  <2> DEFINE p == chain[PolicyPda(o, Nonce)]
  <2>1. p.owner = o /\ p.nonce = Nonce
    BY <1>4, PolicyRead
  <2>2. \/ call = SettlePolicyInstruction(Authority, o, Nonce, p.cellId, Asset, TokensOf(o))
        \/ call = ClosePolicyInstruction(Authority, o, Nonce, p.cellId)
        \/ call = ClaimUnclaimedPayoutInstruction(Authority, o, Nonce, p.cellId, Asset, TokensOf(o))
    BY <1>4, <2>1 DEF PolicyCalls
  <2> QED BY <1>4, <2>2, SettlePolicyTaken, ClosePolicyTaken, ClaimUnclaimedPayoutTaken
<1> QED BY <1>1, <1>2, <1>3, <1>4, CallsAre

(***************************************************************************)
(* A call built from older accounts, and taken, is one that could be built *)
(* from the accounts as they are.                                          *)
(***************************************************************************)
(* What never changes of an account. *)
Older(read, chain) ==
  /\ DOMAIN read \subseteq DOMAIN chain
  /\ \A k \in CallKeys : SensorPda(k) \in DOMAIN read =>
       chain[SensorPda(k)].operator = read[SensorPda(k)].operator
  /\ \A o \in CallOwners : PolicyPda(o, Nonce) \in DOMAIN read =>
       chain[PolicyPda(o, Nonce)].cellId = read[PolicyPda(o, Nonce)].cellId

(* An address names the cell, the sensor or the owner it is derived from.  *)
LEMMA PdasTell ==
  /\ \A x, y : RewardsPda(x) = RewardsPda(y) => x = y
  /\ \A x, y : ReputationPda(x) = ReputationPda(y) => x = y
  /\ \A x, y : SensorPda(x) = SensorPda(y) => x = y
  /\ \A x, y : PolicyPda(x, Nonce) = PolicyPda(y, Nonce) => x = y
BY DEF RewardsPda, ReputationPda, SensorPda, PolicyPda

(* An exclusion that is taken named both cells of the sensor as the chain  *)
(* has them: its two rings are seeded by them.                             *)
LEMMA ExcludeNames ==
  ASSUME NEW chain, NEW operator, NEW key, NEW cellId, NEW previousCellId,
         Accepts(ExcludeSensorInstruction(operator, key, cellId, previousCellId, Asset), chain)
  PROVE  /\ cellId = chain[SensorPda(key)].cellId
         /\ previousCellId = chain[SensorPda(key)].previousCellId
<1> DEFINE call == ExcludeSensorInstruction(operator, key, cellId, previousCellId, Asset)
           at == call.accounts
           s == chain[SensorPda(key)]
<1>1. /\ call.name = "excludeSensor" /\ at["sensor"] = SensorPda(key) /\ "sensor" \in DOMAIN at
      /\ at["reputation"] = ReputationPda(cellId) /\ at["previousReputation"] = ReputationPda(previousCellId)
  BY ExcludeSensorAccounts
<1> HIDE DEF call
<1>2. at["sensor"] \in DOMAIN chain
  <2>1. {at[n] : n \in {"pool", "sensor", "policy"} \cap (DOMAIN at \ Opened(call.name))} \subseteq DOMAIN chain
    BY DEF call, Accepts
  <2> QED BY <1>1, <2>1, OpenedAre
<1>3. /\ SeedsHold(InCell("reputation", "reputation", "cellId"), call, chain)
      /\ SeedsHold(InCell("previousReputation", "reputation", "previousCellId"), call, chain)
  <2>1. \A i \in DOMAIN Idl[call.name] : SeedsHold(Idl[call.name][i], call, chain)
    BY DEF call, Accepts
  <2> QED BY <1>1, <2>1, ExcludeSensorItems
<1>4. at["reputation"] = ReputationPda(s.cellId) /\ at["previousReputation"] = ReputationPda(s.previousCellId)
  BY <1>1, <1>2, <1>3, ItemsAsk
<1>5. ReputationPda(cellId) = ReputationPda(s.cellId)
  BY <1>1, <1>4
<1>6. ReputationPda(previousCellId) = ReputationPda(s.previousCellId)
  BY <1>1, <1>4
<1> HIDE DEF s
<1>7. cellId = s.cellId
  BY <1>5, PdasTell
<1>8. previousCellId = s.previousCellId
  BY <1>6, PdasTell
<1> QED BY <1>7, <1>8 DEF s

(* A reinstatement that is taken named the cell the sensor is in.          *)
LEMMA ReinstateNames ==
  ASSUME NEW chain, NEW operator, NEW key, NEW cellId,
         Accepts(ReinstateSensorInstruction(operator, key, cellId), chain)
  PROVE  cellId = chain[SensorPda(key)].cellId
<1> DEFINE call == ReinstateSensorInstruction(operator, key, cellId)
           at == call.accounts
           s == chain[SensorPda(key)]
<1>1. /\ call.name = "reinstateSensor" /\ at["sensor"] = SensorPda(key) /\ "sensor" \in DOMAIN at
      /\ at["reputation"] = ReputationPda(cellId)
  BY ReinstateSensorAccounts
<1> HIDE DEF call
<1>2. at["sensor"] \in DOMAIN chain
  <2>1. {at[n] : n \in {"pool", "sensor", "policy"} \cap (DOMAIN at \ Opened(call.name))} \subseteq DOMAIN chain
    BY DEF call, Accepts
  <2> QED BY <1>1, <2>1, OpenedAre
<1>3. SeedsHold(InCell("reputation", "reputation", "cellId"), call, chain)
  <2>1. \A i \in DOMAIN Idl[call.name] : SeedsHold(Idl[call.name][i], call, chain)
    BY DEF call, Accepts
  <2> QED BY <1>1, <2>1, ReinstateSensorItems
<1>4. at["reputation"] = ReputationPda(s.cellId)
  BY <1>1, <1>2, <1>3, ItemsAsk
<1> QED BY <1>1, <1>4, PdasTell

(* A move that is taken is to another cell than the sensor's, and named    *)
(* the cell before: the schedule it closes is seeded by it.                *)
LEMMA MoveNames ==
  ASSUME NEW chain, NEW operator, NEW key, NEW cellId, NEW previousCellId,
         Accepts(MoveSensorInstruction(operator, key, cellId, previousCellId), chain)
  PROVE  /\ cellId # chain[SensorPda(key)].cellId
         /\ previousCellId = chain[SensorPda(key)].previousCellId
<1> DEFINE call == MoveSensorInstruction(operator, key, cellId, previousCellId)
           at == call.accounts
           s == chain[SensorPda(key)]
<1>1. /\ call.name = "moveSensor" /\ at["sensor"] = SensorPda(key) /\ "sensor" \in DOMAIN at
      /\ at["previousRewards"] = RewardsPda(previousCellId) /\ call.args["cellId"] = cellId
  BY MoveSensorAccounts
<1> HIDE DEF call
<1>2. at["sensor"] \in DOMAIN chain
  <2>1. {at[n] : n \in {"pool", "sensor", "policy"} \cap (DOMAIN at \ Opened(call.name))} \subseteq DOMAIN chain
    BY DEF call, Accepts
  <2> QED BY <1>1, <2>1, OpenedAre
<1>3. SeedsHold(InCell("previousRewards", "rewards", "previousCellId"), call, chain)
  <2>1. \A i \in DOMAIN Idl[call.name] : SeedsHold(Idl[call.name][i], call, chain)
    BY DEF call, Accepts
  <2> QED BY <1>1, <2>1, MoveSensorItems
<1>4. at["previousRewards"] = RewardsPda(s.previousCellId)
  BY <1>1, <1>2, <1>3, ItemsAsk
<1>5. cellId # s.cellId
  <2>1. CellIsTheSensors(call, chain)
    BY DEF call, Accepts
  <2> QED BY <1>1, <2>1 DEF CellIsTheSensors
<1> QED BY <1>1, <1>4, <1>5, PdasTell

(* A claim that is taken is of a cell the sensor is in or was in.          *)
LEMMA ClaimNames ==
  ASSUME NEW chain, NEW caller, NEW key, NEW cellId, NEW tokens,
         Accepts(ClaimRewardInstruction(caller, key, cellId, Asset, tokens), chain)
  PROVE  cellId \in {chain[SensorPda(key)].cellId, chain[SensorPda(key)].previousCellId}
<1> DEFINE call == ClaimRewardInstruction(caller, key, cellId, Asset, tokens)
           at == call.accounts
<1>1. call.name = "claimReward" /\ at["sensor"] = SensorPda(key) /\ call.args["cellId"] = cellId
  BY ClaimRewardAccounts
<1> HIDE DEF call
<1>2. CellIsTheSensors(call, chain)
  BY DEF call, Accepts
<1> QED BY <1>1, <1>2 DEF CellIsTheSensors

(* The roles and the new accounts of the pool's calls. *)
LEMMA AggregatorNames ==
  ASSUME NEW chain, NEW aggregator, NEW cellId,
         \/ Accepts(SubmitDayRecordInstruction(aggregator, cellId), chain)
         \/ Accepts(SubmitDayReputationInstruction(aggregator, cellId), chain)
         \/ Accepts(OpenInvestigationInstruction(aggregator, cellId), chain)
  PROVE  aggregator = chain[PoolPda].aggregator
<1>1. ASSUME NEW call, call.name # "initializePool", "aggregator" \in DOMAIN call.accounts,
             call.accounts["aggregator"] = aggregator, Accepts(call, chain)
      PROVE  aggregator = chain[PoolPda].aggregator
  <2>1. RolesHold(call, chain)
    BY <1>1 DEF Accepts
  <2> QED BY <1>1, <2>1 DEF RolesHold
<1>2. /\ SubmitDayRecordInstruction(aggregator, cellId).name # "initializePool"
      /\ "aggregator" \in DOMAIN SubmitDayRecordInstruction(aggregator, cellId).accounts
      /\ SubmitDayRecordInstruction(aggregator, cellId).accounts["aggregator"] = aggregator
  BY SubmitDayRecordAccounts
<1>3. /\ SubmitDayReputationInstruction(aggregator, cellId).name # "initializePool"
      /\ "aggregator" \in DOMAIN SubmitDayReputationInstruction(aggregator, cellId).accounts
      /\ SubmitDayReputationInstruction(aggregator, cellId).accounts["aggregator"] = aggregator
  BY SubmitDayReputationAccounts
<1>4. /\ OpenInvestigationInstruction(aggregator, cellId).name # "initializePool"
      /\ "aggregator" \in DOMAIN OpenInvestigationInstruction(aggregator, cellId).accounts
      /\ OpenInvestigationInstruction(aggregator, cellId).accounts["aggregator"] = aggregator
  BY OpenInvestigationAccounts
<1> QED BY <1>1, <1>2, <1>3, <1>4

(* A call that opens an account is taken while the account is not there.   *)
LEMMA OpenedNames ==
  ASSUME NEW chain
  PROVE  /\ \A authority, a : Accepts(InitializePoolInstruction(authority, Asset, a), chain) =>
                               PoolPda \notin DOMAIN chain
         /\ \A operator, key, c : Accepts(RegisterSensorInstruction(operator, key, c), chain) =>
                                    SensorPda(key) \notin DOMAIN chain
         /\ \A owner, tokens, c : Accepts(IssuePolicyInstruction(owner, Asset, tokens, Nonce, c), chain) =>
                                    PolicyPda(owner, Nonce) \notin DOMAIN chain
<1>0. ASSUME NEW call, NEW n \in Opened(call.name), Accepts(call, chain) PROVE call.accounts[n] \notin DOMAIN chain
  BY <1>0 DEF Accepts
<1>1. ASSUME NEW authority, NEW a, Accepts(InitializePoolInstruction(authority, Asset, a), chain)
      PROVE  PoolPda \notin DOMAIN chain
  <2> DEFINE call == InitializePoolInstruction(authority, Asset, a)
  <2>1. call.name = "initializePool" /\ call.accounts["pool"] = PoolPda
    BY InitializePoolAccounts
  <2> HIDE DEF call
  <2>2. Accepts(call, chain)
    BY <1>1 DEF call
  <2> QED BY <1>0, <2>1, <2>2, OpenedAre
<1>2. ASSUME NEW operator, NEW key, NEW c, Accepts(RegisterSensorInstruction(operator, key, c), chain)
      PROVE  SensorPda(key) \notin DOMAIN chain
  <2> DEFINE call == RegisterSensorInstruction(operator, key, c)
  <2>1. call.name = "registerSensor" /\ call.accounts["sensor"] = SensorPda(key)
    BY RegisterSensorAccounts
  <2> HIDE DEF call
  <2>2. Accepts(call, chain)
    BY <1>2 DEF call
  <2> QED BY <1>0, <2>1, <2>2, OpenedAre
<1>3. ASSUME NEW owner, NEW tokens, NEW c, Accepts(IssuePolicyInstruction(owner, Asset, tokens, Nonce, c), chain)
      PROVE  PolicyPda(owner, Nonce) \notin DOMAIN chain
  <2> DEFINE call == IssuePolicyInstruction(owner, Asset, tokens, Nonce, c)
  <2>1. call.name = "issuePolicy" /\ call.accounts["policy"] = PolicyPda(owner, Nonce)
    BY IssuePolicyAccounts
  <2> HIDE DEF call
  <2>2. Accepts(call, chain)
    BY <1>3 DEF call
  <2> QED BY <1>0, <2>1, <2>2, OpenedAre
<1> QED BY <1>1, <1>2, <1>3

(* What was older stays older.                                             *)
LEMMA OlderSince ==
  ASSUME NEW R, NEW C, NEW D, Older(R, C), Older(C, D)
  PROVE  Older(R, D)
BY DEF Older

(* The calls of a sensor and of a policy that the program takes say of it  *)
(* what the chain says, whatever the caller had read.                      *)
LEMMA SensorCallIsFresh ==
  ASSUME NEW R, NEW C, Older(R, C), NEW k \in CallKeys, SensorPda(k) \in DOMAIN R,
         NEW call \in SensorCalls(R[SensorPda(k)], k), Accepts(call, C)
  PROVE  SensorPda(k) \in DOMAIN C /\ call \in SensorCalls(C[SensorPda(k)], k)
<1> DEFINE r == R[SensorPda(k)]
           s == C[SensorPda(k)]
<1>1. SensorPda(k) \in DOMAIN C /\ s.operator = r.operator
  BY DEF Older
<1>2. \/ call = StakeSensorInstruction(r.operator, k, Asset, TokensOf(r.operator), "amount")
      \/ call = RequestUnstakeInstruction(r.operator, k, "amount")
      \/ call = WithdrawStakeInstruction(r.operator, k, Asset, TokensOf(r.operator))
      \/ call = ExcludeSensorInstruction(r.operator, k, r.cellId, r.previousCellId, Asset)
      \/ call = ReinstateSensorInstruction(r.operator, k, r.cellId)
      \/ call = ClaimRewardInstruction(r.operator, k, r.cellId, Asset, TokensOf(r.operator))
      \/ call = ClaimRewardInstruction(r.operator, k, r.previousCellId, Asset, TokensOf(r.operator))
      \/ \E c \in CallCells : call = MoveSensorInstruction(r.operator, k, c, r.previousCellId)
  BY DEF SensorCalls
<1>3. \/ call = StakeSensorInstruction(s.operator, k, Asset, TokensOf(s.operator), "amount")
      \/ call = RequestUnstakeInstruction(s.operator, k, "amount")
      \/ call = WithdrawStakeInstruction(s.operator, k, Asset, TokensOf(s.operator))
      \/ call = ExcludeSensorInstruction(s.operator, k, s.cellId, s.previousCellId, Asset)
      \/ call = ReinstateSensorInstruction(s.operator, k, s.cellId)
      \/ call = ClaimRewardInstruction(s.operator, k, s.cellId, Asset, TokensOf(s.operator))
      \/ call = ClaimRewardInstruction(s.operator, k, s.previousCellId, Asset, TokensOf(s.operator))
      \/ \E c \in CallCells : c # s.cellId /\ call = MoveSensorInstruction(s.operator, k, c, s.previousCellId)
  <2> HIDE DEF r, s
  <2>1. CASE call = ExcludeSensorInstruction(r.operator, k, r.cellId, r.previousCellId, Asset)
    <3>1. r.cellId = s.cellId /\ r.previousCellId = s.previousCellId
      BY <2>1, ExcludeNames DEF s
    <3> QED BY <1>1, <2>1, <3>1
  <2>2. CASE call = ReinstateSensorInstruction(r.operator, k, r.cellId)
    <3>1. r.cellId = s.cellId
      BY <2>2, ReinstateNames DEF s
    <3> QED BY <1>1, <2>2, <3>1
  <2>3. ASSUME NEW c \in {r.cellId, r.previousCellId},
               call = ClaimRewardInstruction(r.operator, k, c, Asset, TokensOf(r.operator))
        PROVE  \/ call = ClaimRewardInstruction(s.operator, k, s.cellId, Asset, TokensOf(s.operator))
               \/ call = ClaimRewardInstruction(s.operator, k, s.previousCellId, Asset, TokensOf(s.operator))
    <3>1. c \in {s.cellId, s.previousCellId}
      BY <2>3, ClaimNames DEF s
    <3> QED BY <1>1, <2>3, <3>1
  <2>4. ASSUME NEW c \in CallCells, call = MoveSensorInstruction(r.operator, k, c, r.previousCellId)
        PROVE  c # s.cellId /\ call = MoveSensorInstruction(s.operator, k, c, s.previousCellId)
    <3>1. c # s.cellId /\ r.previousCellId = s.previousCellId
      BY <2>4, MoveNames DEF s
    <3> QED BY <1>1, <2>4, <3>1
  <2>5. CASE \/ call = StakeSensorInstruction(r.operator, k, Asset, TokensOf(r.operator), "amount")
             \/ call = RequestUnstakeInstruction(r.operator, k, "amount")
             \/ call = WithdrawStakeInstruction(r.operator, k, Asset, TokensOf(r.operator))
    BY <1>1, <2>5
  <2> QED BY <1>2, <2>1, <2>2, <2>3, <2>4, <2>5
<1> QED BY <1>1, <1>3 DEF SensorCalls

(* A policy never changes in what its calls name.                          *)
LEMMA PolicyCallIsFresh ==
  ASSUME NEW R, NEW C, AccountsOK(R), AccountsOK(C), Older(R, C),
         NEW o \in CallOwners, PolicyPda(o, Nonce) \in DOMAIN R,
         NEW call \in PolicyCalls(R[PolicyPda(o, Nonce)], Authority)
  PROVE  PolicyPda(o, Nonce) \in DOMAIN C /\ call \in PolicyCalls(C[PolicyPda(o, Nonce)], Authority)
<1> DEFINE r == R[PolicyPda(o, Nonce)]
           p == C[PolicyPda(o, Nonce)]
<1>1. PolicyPda(o, Nonce) \in DOMAIN C /\ p.cellId = r.cellId
  BY DEF Older
<1>2. r.owner = o /\ r.nonce = Nonce /\ p.owner = o /\ p.nonce = Nonce
  BY <1>1, PolicyRead
<1> QED BY <1>1, <1>2 DEF PolicyCalls

(* The pool's authority never changes, its aggregator is asked for by      *)
(* role, and an account that is opened is not there.                       *)
LEMMA PoolCallIsFresh ==
  ASSUME NEW R, NEW C, AccountsOK(R), AccountsOK(C), Older(R, C), PoolPda \in DOMAIN R,
         NEW call \in PoolCalls(R), Accepts(call, C)
  PROVE  PoolPda \in DOMAIN C /\ call \in PoolCalls(C)
<1> DEFINE aggregator == R[PoolPda].aggregator
<1>1. PoolPda \in DOMAIN C
  BY DEF Older
<1>2. R[PoolPda].authority = Authority /\ C[PoolPda].authority = Authority
  BY <1>1, PoolRead
<1> HIDE DEF aggregator
<1>3. \/ call = SetPoolParamsInstruction(Authority)
      \/ \E w \in CallWallets : call = DepositCapitalInstruction(w, Asset, TokensOf(w))
      \/ \E c \in CallCells : \/ call = SubmitDayRecordInstruction(aggregator, c)
                              \/ call = SubmitDayReputationInstruction(aggregator, c)
                              \/ call = OpenInvestigationInstruction(aggregator, c)
                              \/ call = CloseInvestigationInstruction(Authority, c)
      \/ \E o \in CallOwners, c \in CallCells : call = IssuePolicyInstruction(o, Asset, TokensOf(o), Nonce, c)
      \/ \E o \in CallOperators, k \in CallKeys, c \in CallCells : call = RegisterSensorInstruction(o, k, c)
  BY <1>2 DEF PoolCalls, aggregator
<1>4. ASSUME NEW c \in CallCells,
             \/ call = SubmitDayRecordInstruction(aggregator, c)
             \/ call = SubmitDayReputationInstruction(aggregator, c)
             \/ call = OpenInvestigationInstruction(aggregator, c)
      PROVE  aggregator = C[PoolPda].aggregator
  BY <1>4, AggregatorNames
<1>5. ASSUME NEW o \in CallOwners, NEW c \in CallCells, call = IssuePolicyInstruction(o, Asset, TokensOf(o), Nonce, c)
      PROVE  PolicyPda(o, Nonce) \notin DOMAIN C
  BY <1>5, OpenedNames
<1>6. ASSUME NEW o \in CallOperators, NEW k \in CallKeys, NEW c \in CallCells, call = RegisterSensorInstruction(o, k, c)
      PROVE  SensorPda(k) \notin DOMAIN C
  BY <1>6, OpenedNames
<1>7. \/ call = SetPoolParamsInstruction(C[PoolPda].authority)
      \/ \E w \in CallWallets : call = DepositCapitalInstruction(w, Asset, TokensOf(w))
      \/ \E c \in CallCells : \/ call = SubmitDayRecordInstruction(C[PoolPda].aggregator, c)
                              \/ call = SubmitDayReputationInstruction(C[PoolPda].aggregator, c)
                              \/ call = OpenInvestigationInstruction(C[PoolPda].aggregator, c)
                              \/ call = CloseInvestigationInstruction(C[PoolPda].authority, c)
      \/ \E o \in CallOwners, c \in CallCells :
           PolicyPda(o, Nonce) \notin DOMAIN C /\ call = IssuePolicyInstruction(o, Asset, TokensOf(o), Nonce, c)
      \/ \E o \in CallOperators, k \in CallKeys, c \in CallCells :
           SensorPda(k) \notin DOMAIN C /\ call = RegisterSensorInstruction(o, k, c)
  BY <1>2, <1>3, <1>4, <1>5, <1>6
<1> QED BY <1>1, <1>7 DEF PoolCalls

(* A call built from older accounts, and taken, is one a fresh caller      *)
(* would build.                                                            *)
LEMMA AcceptedIsFresh ==
  ASSUME NEW R, NEW C, AccountsOK(R), AccountsOK(C), Older(R, C), NEW call \in CallsFrom(R), Accepts(call, C)
  PROVE  call \in CallsFrom(C)
<1>1. CASE PoolPda \notin DOMAIN R
  <2>1. PICK a \in CallAggregators : call = InitializePoolInstruction(Authority, Asset, a)
    BY <1>1, CallsAre
  <2>2. PoolPda \notin DOMAIN C
    BY <2>1, OpenedNames
  <2> QED BY <2>1, <2>2, CallsAre
<1>2. CASE PoolPda \in DOMAIN R /\ call \in PoolCalls(R)
  BY <1>2, PoolCallIsFresh, CallsAre
<1>3. ASSUME NEW k \in CallKeys, SensorPda(k) \in DOMAIN R, call \in SensorCalls(R[SensorPda(k)], k)
      PROVE  call \in CallsFrom(C)
  <2>1. SensorPda(k) \in DOMAIN C
    BY <1>3 DEF Older
  <2>2. PoolPda \in DOMAIN C
    BY <2>1, SensorRead
  <2> QED BY <1>3, <2>2, SensorCallIsFresh, CallsAre
<1>4. ASSUME NEW o \in CallOwners, PolicyPda(o, Nonce) \in DOMAIN R,
             call \in PolicyCalls(R[PolicyPda(o, Nonce)], Authority)
      PROVE  call \in CallsFrom(C)
  <2>1. PolicyPda(o, Nonce) \in DOMAIN C /\ call \in PolicyCalls(C[PolicyPda(o, Nonce)], Authority)
    BY <1>4, PolicyCallIsFresh
  <2>2. PoolPda \in DOMAIN C
    BY <2>1, PolicyRead
  <2> QED BY <2>1, <2>2, CallsAre
<1> QED BY <1>1, <1>2, <1>3, <1>4, CallsAre

(***************************************************************************)
(* What a call leaves behind.                                              *)
(***************************************************************************)
(* No two kinds of account share an address.                               *)
LEMMA AddressesDiffer ==
  /\ PoolPda # Asset.mint /\ PoolPda # VaultPda /\ PoolPda # StakeVaultPda
  /\ \A x : /\ SensorPda(x) # PoolPda /\ SensorPda(x) # Asset.mint
            /\ SensorPda(x) # VaultPda /\ SensorPda(x) # StakeVaultPda
  /\ \A x : /\ PolicyPda(x, Nonce) # PoolPda /\ PolicyPda(x, Nonce) # Asset.mint
            /\ PolicyPda(x, Nonce) # VaultPda /\ PolicyPda(x, Nonce) # StakeVaultPda
  /\ \A x : /\ TokensOf(x) # PoolPda /\ TokensOf(x) # Asset.mint
            /\ TokensOf(x) # VaultPda /\ TokensOf(x) # StakeVaultPda
  /\ \A x, y : /\ SensorPda(x) # PolicyPda(y, Nonce) /\ SensorPda(x) # TokensOf(y)
               /\ PolicyPda(x, Nonce) # TokensOf(y)
BY DEF PoolPda, Asset, VaultPda, StakeVaultPda, SensorPda, PolicyPda, TokensOf, AssociatedTokenAddress

(* One account has been opened or written.                                 *)
Put(chain, next, a) ==
  /\ DOMAIN next = DOMAIN chain \cup {a}
  /\ \A x \in DOMAIN chain : x # a => next[x] = chain[x]

(* The pool opened.                                                        *)
LEMMA PoolPut ==
  ASSUME NEW chain, AccountsOK(chain), NEW next, Put(chain, next, PoolPda), next[PoolPda] \in PoolAccounts
  PROVE  AccountsOK(next) /\ Older(chain, next)
<1>1. /\ \A w \in CallWallets : TokensOf(w) \in DOMAIN next /\ next[TokensOf(w)].authority = w
      /\ Asset.mint \in DOMAIN next /\ next[Asset.mint].program = Asset.program
      /\ VaultPda \notin DOMAIN next /\ StakeVaultPda \notin DOMAIN next
  BY AddressesDiffer DEF Put, AccountsOK
<1>2. \A k \in CallKeys : SensorPda(k) \in DOMAIN next =>
        SensorPda(k) \in DOMAIN chain /\ next[SensorPda(k)] = chain[SensorPda(k)]
  BY AddressesDiffer DEF Put
<1>3. \A o \in CallOwners : PolicyPda(o, Nonce) \in DOMAIN next =>
        PolicyPda(o, Nonce) \in DOMAIN chain /\ next[PolicyPda(o, Nonce)] = chain[PolicyPda(o, Nonce)]
  BY AddressesDiffer DEF Put
<1>4. DOMAIN chain \subseteq DOMAIN next /\ PoolPda \in DOMAIN next
  BY DEF Put
<1>5. AccountsOK(next)
  BY <1>1, <1>2, <1>3, <1>4 DEF AccountsOK
<1>6. Older(chain, next)
  BY <1>2, <1>3, <1>4 DEF Older
<1> QED BY <1>5, <1>6

(* A sensor opened, or moved: its operator stays.                          *)
LEMMA SensorPut ==
  ASSUME NEW chain, AccountsOK(chain), PoolPda \in DOMAIN chain, NEW key \in CallKeys, NEW next,
         Put(chain, next, SensorPda(key)), next[SensorPda(key)] \in SensorAccounts(key),
         SensorPda(key) \in DOMAIN chain => next[SensorPda(key)].operator = chain[SensorPda(key)].operator
  PROVE  AccountsOK(next) /\ Older(chain, next)
<1>1. /\ \A w \in CallWallets : TokensOf(w) \in DOMAIN next /\ next[TokensOf(w)].authority = w
      /\ Asset.mint \in DOMAIN next /\ next[Asset.mint].program = Asset.program
      /\ VaultPda \notin DOMAIN next /\ StakeVaultPda \notin DOMAIN next
      /\ PoolPda \in DOMAIN next /\ next[PoolPda] = chain[PoolPda] /\ chain[PoolPda] \in PoolAccounts
  BY AddressesDiffer DEF Put, AccountsOK
<1>2. ASSUME NEW k \in CallKeys, SensorPda(k) \in DOMAIN next
      PROVE  /\ next[SensorPda(k)] \in SensorAccounts(k)
             /\ SensorPda(k) \in DOMAIN chain => next[SensorPda(k)].operator = chain[SensorPda(k)].operator
  <2>1. CASE k = key
    BY <2>1
  <2>2. CASE k # key
    <3>1. SensorPda(k) # SensorPda(key)
      BY <2>2, PdasTell
    <3>2. SensorPda(k) \in DOMAIN chain /\ next[SensorPda(k)] = chain[SensorPda(k)]
      BY <1>2, <3>1 DEF Put
    <3>3. chain[SensorPda(k)] \in SensorAccounts(k)
      BY <3>2 DEF AccountsOK
    <3> QED BY <3>2, <3>3
  <2> QED BY <2>1, <2>2
<1>3. \A o \in CallOwners : PolicyPda(o, Nonce) \in DOMAIN next =>
        PolicyPda(o, Nonce) \in DOMAIN chain /\ next[PolicyPda(o, Nonce)] = chain[PolicyPda(o, Nonce)]
  BY AddressesDiffer DEF Put
<1>4. DOMAIN chain \subseteq DOMAIN next
  BY DEF Put
<1>5. \A o \in CallOwners : PolicyPda(o, Nonce) \in DOMAIN next => next[PolicyPda(o, Nonce)] \in PolicyAccounts(o)
  BY <1>3 DEF AccountsOK
<1>6. AccountsOK(next)
  BY <1>1, <1>2, <1>5 DEF AccountsOK
<1>7. Older(chain, next)
  BY <1>2, <1>3, <1>4 DEF Older
<1> QED BY <1>6, <1>7

(* A policy opened.                                                        *)
LEMMA PolicyPut ==
  ASSUME NEW chain, AccountsOK(chain), PoolPda \in DOMAIN chain, NEW owner \in CallOwners, NEW next,
         Put(chain, next, PolicyPda(owner, Nonce)), next[PolicyPda(owner, Nonce)] \in PolicyAccounts(owner),
         PolicyPda(owner, Nonce) \notin DOMAIN chain
  PROVE  AccountsOK(next) /\ Older(chain, next)
<1>1. /\ \A w \in CallWallets : TokensOf(w) \in DOMAIN next /\ next[TokensOf(w)].authority = w
      /\ Asset.mint \in DOMAIN next /\ next[Asset.mint].program = Asset.program
      /\ VaultPda \notin DOMAIN next /\ StakeVaultPda \notin DOMAIN next
      /\ PoolPda \in DOMAIN next /\ next[PoolPda] = chain[PoolPda] /\ chain[PoolPda] \in PoolAccounts
  BY AddressesDiffer DEF Put, AccountsOK
<1>2. \A k \in CallKeys : SensorPda(k) \in DOMAIN next =>
        SensorPda(k) \in DOMAIN chain /\ next[SensorPda(k)] = chain[SensorPda(k)]
  BY AddressesDiffer DEF Put
<1>3. \A o \in CallOwners : PolicyPda(o, Nonce) \in DOMAIN chain =>
        next[PolicyPda(o, Nonce)] = chain[PolicyPda(o, Nonce)]
  BY DEF Put
<1>4. ASSUME NEW o \in CallOwners, PolicyPda(o, Nonce) \in DOMAIN next
      PROVE  next[PolicyPda(o, Nonce)] \in PolicyAccounts(o)
  <2>1. CASE o = owner
    BY <2>1
  <2>2. CASE o # owner
    <3>1. PolicyPda(o, Nonce) # PolicyPda(owner, Nonce)
      BY <2>2, PdasTell
    <3>2. PolicyPda(o, Nonce) \in DOMAIN chain
      BY <1>4, <3>1 DEF Put
    <3> QED BY <1>3, <3>2 DEF AccountsOK
  <2> QED BY <2>1, <2>2
<1>5. DOMAIN chain \subseteq DOMAIN next
  BY DEF Put
<1>6. \A k \in CallKeys : SensorPda(k) \in DOMAIN next => next[SensorPda(k)] \in SensorAccounts(k)
  BY <1>2 DEF AccountsOK
<1>7. AccountsOK(next)
  BY <1>1, <1>4, <1>6 DEF AccountsOK
<1>8. Older(chain, next)
  BY <1>2, <1>3, <1>5 DEF Older
<1> QED BY <1>7, <1>8

(* A new entry is one account opened.                                      *)
LEMMA EntryIsPut ==
  ASSUME NEW chain, NEW a, NEW v
  PROVE  Put(chain, WithEntry(chain, a, v), a) /\ WithEntry(chain, a, v)[a] = v
BY DEF Put, WithEntry

(* The handlers that leave the accounts of the chain as they were, as far  *)
(* as an address or a role goes.                                           *)
LEMMA OthersLeave ==
  ASSUME NEW call, NEW chain,
         call.name \notin {"initializePool", "registerSensor", "moveSensor", "reinstateSensor", "issuePolicy"}
  PROVE  Landed(call, chain) = chain
BY DEF Landed

(* Accounts are as old as themselves.                                      *)
LEMMA OlderThanItself == ASSUME NEW chain PROVE Older(chain, chain)
BY DEF Older


(* initialize_pool opens the pool.                                         *)
LEMMA InitializePoolLands ==
  ASSUME NEW chain, AccountsOK(chain), NEW a \in CallAggregators
  PROVE  LET next == Landed(InitializePoolInstruction(Authority, Asset, a), chain) IN
         AccountsOK(next) /\ Older(chain, next)
<1> DEFINE call == InitializePoolInstruction(Authority, Asset, a)
           next == Landed(call, chain)
           account == PoolAccount(Authority, Asset.mint, a)
<1>1. /\ call.name = "initializePool" /\ call.accounts["authority"] = Authority
      /\ call.accounts["assetMint"] = Asset.mint /\ call.args["aggregator"] = a
  BY InitializePoolAccounts
<1> HIDE DEF call
<1>2. next = WithEntry(chain, PoolPda, account)
  BY <1>1 DEF Landed
<1>3. account \in PoolAccounts
  BY DEF PoolAccount, PoolAccounts
<1> HIDE DEF next, account
<1>4. AccountsOK(next) /\ Older(chain, next)
  BY <1>2, <1>3, EntryIsPut, PoolPut
<1> QED BY <1>4 DEF next, call

(* register_sensor opens the sensor.                                       *)
LEMMA RegisterSensorLands ==
  ASSUME NEW chain, AccountsOK(chain), PoolPda \in DOMAIN chain,
         NEW operator \in CallOperators, NEW key \in CallKeys, NEW cellId \in CallCells,
         SensorPda(key) \notin DOMAIN chain
  PROVE  LET next == Landed(RegisterSensorInstruction(operator, key, cellId), chain) IN
         AccountsOK(next) /\ Older(chain, next)
<1> DEFINE call == RegisterSensorInstruction(operator, key, cellId)
           next == Landed(call, chain)
           account == SensorAccount(key, operator, cellId, cellId)
<1>1. /\ call.name = "registerSensor" /\ call.accounts["sensor"] = SensorPda(key)
      /\ call.accounts["sensorKey"] = key /\ call.accounts["operator"] = operator
      /\ call.args["cellId"] = cellId
  BY RegisterSensorAccounts
<1> HIDE DEF call
<1>2. next = WithEntry(chain, SensorPda(key), account)
  BY <1>1 DEF Landed
<1>3. account \in SensorAccounts(key)
  BY DEF SensorAccount, SensorAccounts
<1> HIDE DEF next, account
<1>4. AccountsOK(next) /\ Older(chain, next)
  BY <1>2, <1>3, EntryIsPut, SensorPut
<1> QED BY <1>4 DEF next, call

(* move_sensor writes the sensor's two cells.                              *)
LEMMA MoveSensorLands ==
  ASSUME NEW chain, AccountsOK(chain), NEW operator, NEW key \in CallKeys, NEW cellId \in CallCells,
         NEW previousCellId, SensorPda(key) \in DOMAIN chain
  PROVE  LET next == Landed(MoveSensorInstruction(operator, key, cellId, previousCellId), chain) IN
         AccountsOK(next) /\ Older(chain, next)
<1> DEFINE call == MoveSensorInstruction(operator, key, cellId, previousCellId)
           next == Landed(call, chain)
           s == chain[SensorPda(key)]
           account == [s EXCEPT !.previousCellId = s.cellId, !.cellId = cellId]
<1>1. /\ call.name = "moveSensor" /\ call.accounts["sensor"] = SensorPda(key)
      /\ call.args["cellId"] = cellId
  BY MoveSensorAccounts
<1> HIDE DEF call
<1>2. next = [chain EXCEPT ![SensorPda(key)].previousCellId = s.cellId, ![SensorPda(key)].cellId = cellId]
  BY <1>1 DEF Landed
<1>3. s \in SensorAccounts(key) /\ PoolPda \in DOMAIN chain
  BY DEF AccountsOK
<1>4. Put(chain, next, SensorPda(key)) /\ next[SensorPda(key)] = account
  BY <1>2 DEF Put
<1>5. account \in SensorAccounts(key) /\ account.operator = s.operator
  <2> HIDE DEF s
  <2> QED BY <1>3 DEF SensorAccounts
<1> HIDE DEF next, account
<1>6. AccountsOK(next) /\ Older(chain, next)
  BY <1>3, <1>4, <1>5, SensorPut
<1> QED BY <1>6 DEF next, call

(* reinstate_sensor drops the sensor's pointer to the cell it left.        *)
LEMMA ReinstateSensorLands ==
  ASSUME NEW chain, AccountsOK(chain), NEW operator, NEW key \in CallKeys, NEW cellId,
         SensorPda(key) \in DOMAIN chain
  PROVE  LET next == Landed(ReinstateSensorInstruction(operator, key, cellId), chain) IN
         AccountsOK(next) /\ Older(chain, next)
<1> DEFINE call == ReinstateSensorInstruction(operator, key, cellId)
           next == Landed(call, chain)
           s == chain[SensorPda(key)]
           account == [s EXCEPT !.previousCellId = s.cellId]
<1>1. call.name = "reinstateSensor" /\ call.accounts["sensor"] = SensorPda(key)
  BY ReinstateSensorAccounts
<1> HIDE DEF call
<1>2. next = [chain EXCEPT ![SensorPda(key)].previousCellId = s.cellId]
  BY <1>1 DEF Landed
<1>3. s \in SensorAccounts(key) /\ PoolPda \in DOMAIN chain
  BY DEF AccountsOK
<1>4. Put(chain, next, SensorPda(key)) /\ next[SensorPda(key)] = account
  BY <1>2 DEF Put
<1>5. account \in SensorAccounts(key) /\ account.operator = s.operator
  <2> HIDE DEF s
  <2> QED BY <1>3 DEF SensorAccounts
<1> HIDE DEF next, account
<1>6. AccountsOK(next) /\ Older(chain, next)
  BY <1>3, <1>4, <1>5, SensorPut
<1> QED BY <1>6 DEF next, call

(* issue_policy opens the policy.                                          *)
LEMMA IssuePolicyLands ==
  ASSUME NEW chain, AccountsOK(chain), PoolPda \in DOMAIN chain,
         NEW owner \in CallOwners, NEW tokens, NEW cellId \in CallCells,
         PolicyPda(owner, Nonce) \notin DOMAIN chain
  PROVE  LET next == Landed(IssuePolicyInstruction(owner, Asset, tokens, Nonce, cellId), chain) IN
         AccountsOK(next) /\ Older(chain, next)
<1> DEFINE call == IssuePolicyInstruction(owner, Asset, tokens, Nonce, cellId)
           next == Landed(call, chain)
           account == PolicyAccount(owner, Nonce, cellId)
<1>1. /\ call.name = "issuePolicy" /\ call.accounts["policy"] = PolicyPda(owner, Nonce)
      /\ call.accounts["owner"] = owner /\ call.args["nonce"] = Nonce /\ call.args["cellId"] = cellId
  BY IssuePolicyAccounts
<1> HIDE DEF call
<1>2. next = WithEntry(chain, PolicyPda(owner, Nonce), account)
  BY <1>1 DEF Landed
<1>3. account \in PolicyAccounts(owner)
  BY DEF PolicyAccount, PolicyAccounts
<1> HIDE DEF next, account
<1>4. AccountsOK(next) /\ Older(chain, next)
  BY <1>2, <1>3, EntryIsPut, PolicyPut
<1> QED BY <1>4 DEF next, call

(* Whatever call lands, the accounts stay well-formed, and what never      *)
(* changes of them has not changed.                                        *)
LEMMA LandedKeeps ==
  ASSUME NEW chain, AccountsOK(chain), NEW call \in CallsFrom(chain)
  PROVE  AccountsOK(Landed(call, chain)) /\ Older(chain, Landed(call, chain))
<1>0. ASSUME call.name \notin {"initializePool", "registerSensor", "moveSensor", "reinstateSensor", "issuePolicy"}
      PROVE  AccountsOK(Landed(call, chain)) /\ Older(chain, Landed(call, chain))
  BY <1>0, OthersLeave, OlderThanItself
<1>1. CASE PoolPda \notin DOMAIN chain
  <2>1. PICK a \in CallAggregators : call = InitializePoolInstruction(Authority, Asset, a)
    BY <1>1, CallsAre
  <2> QED BY <2>1, InitializePoolLands
<1>2. CASE PoolPda \in DOMAIN chain /\ call \in PoolCalls(chain)
  <2> DEFINE pool == chain[PoolPda]
  <2>1. \/ call = SetPoolParamsInstruction(pool.authority)
        \/ \E w \in CallWallets : call = DepositCapitalInstruction(w, Asset, TokensOf(w))
        \/ \E c \in CallCells : \/ call = SubmitDayRecordInstruction(pool.aggregator, c)
                                \/ call = SubmitDayReputationInstruction(pool.aggregator, c)
                                \/ call = OpenInvestigationInstruction(pool.aggregator, c)
                                \/ call = CloseInvestigationInstruction(pool.authority, c)
        \/ \E o \in CallOwners, c \in CallCells :
             PolicyPda(o, Nonce) \notin DOMAIN chain /\ call = IssuePolicyInstruction(o, Asset, TokensOf(o), Nonce, c)
        \/ \E o \in CallOperators, k \in CallKeys, c \in CallCells :
             SensorPda(k) \notin DOMAIN chain /\ call = RegisterSensorInstruction(o, k, c)
    BY <1>2 DEF PoolCalls
  <2> HIDE DEF pool
  <2>2. CASE \E w \in CallWallets : call = DepositCapitalInstruction(w, Asset, TokensOf(w))
    <3>1. call.name = "depositCapital"
      BY <2>2, DepositCapitalAccounts
    <3> QED BY <1>0, <3>1
  <2>3. CASE \E c \in CallCells : \/ call = SubmitDayRecordInstruction(pool.aggregator, c)
                                  \/ call = SubmitDayReputationInstruction(pool.aggregator, c)
                                  \/ call = OpenInvestigationInstruction(pool.aggregator, c)
                                  \/ call = CloseInvestigationInstruction(pool.authority, c)
    <3>1. call.name \in {"submitDayRecord", "submitDayReputation", "openInvestigation", "closeInvestigation"}
      BY <2>3, SubmitDayRecordAccounts, SubmitDayReputationAccounts, OpenInvestigationAccounts,
         CloseInvestigationAccounts
    <3> QED BY <1>0, <3>1
  <2>4. CASE call = SetPoolParamsInstruction(pool.authority)
    <3>1. call.name = "setPoolParams"
      BY <2>4, SetPoolParamsAccounts
    <3> QED BY <1>0, <3>1
  <2> QED BY <1>2, <2>1, <2>2, <2>3, <2>4, IssuePolicyLands, RegisterSensorLands
<1>3. ASSUME NEW k \in CallKeys, SensorPda(k) \in DOMAIN chain, call \in SensorCalls(chain[SensorPda(k)], k)
      PROVE  AccountsOK(Landed(call, chain)) /\ Older(chain, Landed(call, chain))
  <2> DEFINE s == chain[SensorPda(k)]
  <2>1. \/ call = StakeSensorInstruction(s.operator, k, Asset, TokensOf(s.operator), "amount")
        \/ call = RequestUnstakeInstruction(s.operator, k, "amount")
        \/ call = WithdrawStakeInstruction(s.operator, k, Asset, TokensOf(s.operator))
        \/ call = ExcludeSensorInstruction(s.operator, k, s.cellId, s.previousCellId, Asset)
        \/ call = ReinstateSensorInstruction(s.operator, k, s.cellId)
        \/ \E c : call = ClaimRewardInstruction(s.operator, k, c, Asset, TokensOf(s.operator))
        \/ \E c \in CallCells : call = MoveSensorInstruction(s.operator, k, c, s.previousCellId)
    BY <1>3 DEF SensorCalls
  <2> HIDE DEF s
  <2>2. CASE \E c \in CallCells : call = MoveSensorInstruction(s.operator, k, c, s.previousCellId)
    BY <1>3, <2>2, MoveSensorLands
  <2>3. CASE call = ReinstateSensorInstruction(s.operator, k, s.cellId)
    BY <1>3, <2>3, ReinstateSensorLands
  <2>4. CASE /\ ~ \E c \in CallCells : call = MoveSensorInstruction(s.operator, k, c, s.previousCellId)
             /\ call # ReinstateSensorInstruction(s.operator, k, s.cellId)
    <3>1. call.name \in {"stakeSensor", "requestUnstake", "withdrawStake", "excludeSensor", "claimReward"}
      BY <2>1, <2>4, StakeSensorAccounts, RequestUnstakeAccounts, WithdrawStakeAccounts, ExcludeSensorAccounts,
         ClaimRewardAccounts
    <3> QED BY <1>0, <3>1
  <2> QED BY <2>2, <2>3, <2>4
<1>4. ASSUME NEW o \in CallOwners, PolicyPda(o, Nonce) \in DOMAIN chain,
             call \in PolicyCalls(chain[PolicyPda(o, Nonce)], Authority)
      PROVE  AccountsOK(Landed(call, chain)) /\ Older(chain, Landed(call, chain))
  <2> DEFINE p == chain[PolicyPda(o, Nonce)]
  <2>1. \/ call = SettlePolicyInstruction(Authority, p.owner, p.nonce, p.cellId, Asset, TokensOf(p.owner))
        \/ call = ClosePolicyInstruction(Authority, p.owner, p.nonce, p.cellId)
        \/ call = ClaimUnclaimedPayoutInstruction(Authority, p.owner, p.nonce, p.cellId, Asset, TokensOf(p.owner))
    BY <1>4 DEF PolicyCalls
  <2> HIDE DEF p
  <2>2. call.name \in {"settlePolicy", "closePolicy", "claimUnclaimedPayout"}
    BY <2>1, SettlePolicyAccounts, ClosePolicyAccounts, ClaimUnclaimedPayoutAccounts
  <2> QED BY <1>0, <2>2
<1> QED BY <1>1, <1>2, <1>3, <1>4, CallsAre

-----------------------------------------------------------------------------
(* The inductive invariant: the accounts and the older copy of them the    *)
(* caller has are well-formed, what never changes of an account is the     *)
(* same in both, and the call in flight was built from that copy.          *)
CallsInv ==
  /\ AccountsOK(callChain) /\ AccountsOK(callRead) /\ Older(callRead, callChain)
  /\ callMade \subseteq CallsFrom(callRead)

(* The accounts of the start: everybody's tokens and the mint.             *)
LEMMA CallsStartRight == CallsInit => CallsInv
<1> SUFFICES ASSUME CallsInit PROVE CallsInv
  OBVIOUS
<1>1. callChain = CallsTokens /\ callRead = CallsTokens /\ callMade = {}
  BY DEF CallsInit
<1>2. /\ \A w \in CallWallets : TokensOf(w) \in DOMAIN CallsTokens /\ CallsTokens[TokensOf(w)].authority = w
      /\ Asset.mint \in DOMAIN CallsTokens /\ CallsTokens[Asset.mint].program = Asset.program
      /\ DOMAIN CallsTokens = {TokensOf(w) : w \in CallWallets} \cup {Asset.mint}
  <2>1. \A w : TokensOf(w)[2] = w
    BY DEF TokensOf, AssociatedTokenAddress
  <2> DEFINE tokens == [a \in {TokensOf(w) : w \in CallWallets} |-> [authority |-> a[2]]]
  <2>2. \A w \in CallWallets : TokensOf(w) \in DOMAIN tokens /\ tokens[TokensOf(w)].authority = w
    BY <2>1
  <2>3. /\ DOMAIN tokens = {TokensOf(w) : w \in CallWallets}
        /\ CallsTokens = WithEntry(tokens, Asset.mint, [program |-> Asset.program])
    BY DEF CallsTokens
  <2> HIDE DEF tokens
  <2>4. Put(tokens, CallsTokens, Asset.mint) /\ CallsTokens[Asset.mint] = [program |-> Asset.program]
    BY <2>3, EntryIsPut
  <2> QED BY <2>2, <2>3, <2>4, AddressesDiffer DEF Put
<1>3. AccountsOK(CallsTokens)
  <2>1. \A k : SensorPda(k) \notin DOMAIN CallsTokens
    BY <1>2, AddressesDiffer
  <2>2. \A o : PolicyPda(o, Nonce) \notin DOMAIN CallsTokens
    BY <1>2, AddressesDiffer
  <2>3. /\ PoolPda \notin DOMAIN CallsTokens /\ VaultPda \notin DOMAIN CallsTokens
        /\ StakeVaultPda \notin DOMAIN CallsTokens
    <3>1. VaultPda # Asset.mint /\ StakeVaultPda # Asset.mint
      BY DEF VaultPda, StakeVaultPda, Asset, PoolPda
    <3> QED BY <1>2, <3>1, AddressesDiffer
  <2> QED BY <1>2, <2>1, <2>2, <2>3 DEF AccountsOK
<1> QED BY <1>1, <1>3, OlderThanItself DEF CallsInv

(* A call that lands was fresh or is refused, and either way keeps the     *)
(* accounts well-formed and no younger than the caller's copy.             *)
LEMMA CallsStepKeeps == CallsInv /\ [CallsNext]_callVars => CallsInv'
<1> SUFFICES ASSUME CallsInv, [CallsNext]_callVars PROVE CallsInv'
  OBVIOUS
<1> USE DEF CallsInv
<1>1. CASE ReadAccounts
  BY <1>1, OlderThanItself DEF ReadAccounts
<1>2. CASE BuildCall
  BY <1>2 DEF BuildCall
<1>3. CASE CallLands
  <2>1. PICK call \in callMade : callChain' = IF Accepts(call, callChain) THEN Landed(call, callChain) ELSE callChain
    BY <1>3 DEF CallLands
  <2>2. callMade' = {} /\ callRead' = callRead
    BY <1>3 DEF CallLands
  <2>3. AccountsOK(callChain') /\ Older(callChain, callChain')
    <3>1. CASE Accepts(call, callChain)
      <4>1. call \in CallsFrom(callChain)
        BY <3>1, AcceptedIsFresh
      <4> QED BY <2>1, <3>1, <4>1, LandedKeeps
    <3>2. CASE ~Accepts(call, callChain)
      BY <2>1, <3>2, OlderThanItself
    <3> QED BY <3>1, <3>2
  <2>4. Older(callRead, callChain')
    BY <2>3, OlderSince
  <2> QED BY <2>2, <2>3, <2>4
<1>4. CASE AnotherCallLands
  <2>1. PICK call \in CallsFrom(callChain) : callChain' = Landed(call, callChain)
    BY <1>4 DEF AnotherCallLands
  <2>2. callMade' = callMade /\ callRead' = callRead
    BY <1>4 DEF AnotherCallLands
  <2>3. AccountsOK(callChain') /\ Older(callChain, callChain')
    BY <2>1, LandedKeeps
  <2>4. Older(callRead, callChain')
    BY <2>3, OlderSince
  <2> QED BY <2>2, <2>3, <2>4
<1>5. CASE UNCHANGED callVars
  BY <1>5 DEF callVars
<1> QED BY <1>1, <1>2, <1>3, <1>4, <1>5 DEF CallsNext

(* With the invariant, the agreement is what the lemmas say of a call.     *)
LEMMA CallsInvAgrees == CallsInv => ClientAgreesWithProgram
<1> SUFFICES ASSUME CallsInv PROVE ClientAgreesWithProgram
  OBVIOUS
<1>1. \A call \in CallsFrom(callRead) : Accepts(call, callRead)
  BY FreshIsTaken DEF CallsInv
<1>2. \A call \in callMade : ~Throws(call)
  BY <1>1 DEF CallsInv, Accepts
<1>3. AcceptedMeansFresh
  BY AcceptedIsFresh DEF CallsInv, AcceptedMeansFresh
<1> QED BY <1>1, <1>2, <1>3 DEF ClientAgreesWithProgram, FreshCallsLand

(* The invariant of the calls in flight holds of every behaviour, for      *)
(* every set of wallets, keys and cells.                                   *)
THEOREM CallsInvariance == CallsSpec => []CallsInv
<1> QED BY CallsStartRight, CallsStepKeeps, PTL DEF CallsSpec

(* A call the program takes is the call of somebody who has read the chain *)
(* as it is, and theirs are all taken (instructions.ts and                 *)
(* buildInstruction against #[derive(Accounts)] of all nineteen            *)
(* instructions).                                                          *)
THEOREM ClientAlwaysAgreesWithProgram == CallsSpec => []ClientAgreesWithProgram
<1> QED BY CallsInvariance, CallsInvAgrees, PTL
=============================================================================
