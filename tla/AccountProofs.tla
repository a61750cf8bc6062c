---------------------------- MODULE AccountProofs ----------------------------
(***************************************************************************)
(* Proofs about sums over the stored blocks: that the balances a start     *)
(* adds up from the entry credit blocks are those the engine served from,  *)
(* and that no commit pays for more entries than it was charged for.       *)
(***************************************************************************)
EXTENDS ChainProofs

----------------------------------------------------------------------------
\* Sums.  SumFunctionOnSet takes the elements of a set in an order the library
\* chooses, by a recursion over the subsets of the set.  Nothing about it can
\* be had from the library's induction theorems, whose operator parameters
\* cannot be instantiated here; but "is a strict subset of" is well founded
\* on a finite set, so a statement about sums can be shown by looking at a
\* minimal set for which it fails.

Pick(s) == CHOOSE x \in s : TRUE

Rec(g, f, S) ==
    g = [s \in SUBSET S |-> IF s = {} THEN 0 ELSE f[Pick(s)] + g[s \ {Pick(s)}]]

\* A nonempty collection of subsets of a finite set has a minimal member.
LEMMA Minimal ==
    ASSUME NEW S, IsFiniteSet(S), NEW B, B \subseteq SUBSET S, B # {}
    PROVE  \E s \in B : \A t \in B : t \subseteq s => t = s
<1>1. IsWellFoundedOn(StrictSubsetOrdering(S), SUBSET S)
  BY FS_StrictSubsetOrderingWellFounded, FS_FiniteSubsetsOfFinite
<1>2. PICK s \in B : \A t \in B : <<t, s>> \notin StrictSubsetOrdering(S)
  BY <1>1, WFMin
<1> QED BY <1>2 DEF StrictSubsetOrdering

LEMMA PickIn == \A s : s # {} => Pick(s) \in s
BY DEF Pick

\* The recursion of the library defines at most one function ...
LEMMA Unique ==
    ASSUME NEW S, IsFiniteSet(S), NEW T, T \subseteq S, NEW f, NEW g, NEW h,
           Rec(g, f, S), Rec(h, f, T)
    PROVE  \A s \in SUBSET T : g[s] = h[s]
<1> DEFINE B == {s \in SUBSET T : g[s] # h[s]}
<1> SUFFICES ASSUME B # {} PROVE FALSE
  OBVIOUS
<1>1. PICK s \in B : \A t \in B : t \subseteq s => t = s
  <2>1. B \subseteq SUBSET S
    OBVIOUS
  <2> HIDE DEF B
  <2> QED BY <2>1, Minimal
<1>2. s # {}
  BY DEF Rec
<1>3. Pick(s) \in s
  BY <1>2, PickIn
<1>4. g[s] = f[Pick(s)] + g[s \ {Pick(s)}]
  BY <1>2 DEF Rec
<1>5. h[s] = f[Pick(s)] + h[s \ {Pick(s)}]
  BY <1>2 DEF Rec
<1>6. g[s \ {Pick(s)}] = h[s \ {Pick(s)}]
  BY <1>1, <1>3
<1> QED BY <1>4, <1>5, <1>6

Smaller(f, s) == (CHOOSE h : Rec(h, f, s \ {Pick(s)}))[s \ {Pick(s)}]

\* ... and at least one.
LEMMA Exists ==
    ASSUME NEW S, IsFiniteSet(S), NEW f PROVE \E g : Rec(g, f, S)
<1> DEFINE B == {T \in SUBSET S : ~\E g : Rec(g, f, T)}
<1> SUFFICES ASSUME B # {} PROVE FALSE
  OBVIOUS
<1>1. PICK T \in B : \A t \in B : t \subseteq T => t = T
  <2>1. B \subseteq SUBSET S
    OBVIOUS
  <2> HIDE DEF B
  <2> QED BY <2>1, Minimal
<1>2. \A t \in SUBSET T : t # T => \E g : Rec(g, f, t)
  BY <1>1
<1> DEFINE g == [s \in SUBSET T |-> IF s = {} THEN 0 ELSE f[Pick(s)] + Smaller(f, s)]
<1>3. ASSUME NEW s \in SUBSET T, s # {}
      PROVE  Smaller(f, s) = g[s \ {Pick(s)}]
  <2> DEFINE u == s \ {Pick(s)}
             h == CHOOSE h : Rec(h, f, u)
             v == u \ {Pick(u)}
  <2>1. u \in SUBSET T /\ u # T
    BY <1>3, PickIn
  <2>2. Rec(h, f, u)
    BY <1>2, <2>1
  <2>3. Smaller(f, s) = h[u]
    BY DEF Smaller
  <2> HIDE DEF h
  <2>4. CASE u = {}
    <3>1. h[u] = 0
      BY <2>2, <2>4 DEF Rec
    <3> QED BY <2>1, <2>3, <2>4, <3>1
  <2>5. CASE u # {}
    <3>1. h[u] = f[Pick(u)] + h[v]
      BY <2>2, <2>5 DEF Rec
    <3>2. g[u] = f[Pick(u)] + Smaller(f, u)
      BY <2>1, <2>5
    <3>3. v \in SUBSET T /\ v # T /\ v \subseteq u
      BY <2>1, <2>5, PickIn
    <3>4. Rec(CHOOSE k : Rec(k, f, v), f, v)
      BY <1>2, <3>3
    <3>5. IsFiniteSet(u)
      BY <2>1, <1>1, FS_Subset
    <3>6. h[v] = (CHOOSE k : Rec(k, f, v))[v]
      BY <2>2, <3>3, <3>4, <3>5, Unique
    <3>7. h[v] = Smaller(f, u)
      BY <3>6 DEF Smaller
    <3> QED BY <2>3, <3>1, <3>2, <3>7
  <2> QED BY <2>4, <2>5
<1>4. Rec(g, f, T)
  BY <1>3 DEF Rec
<1> QED BY <1>1, <1>4

\* So a sum is the value of the function its recursion defines.
LEMMA SumIsRec ==
    ASSUME NEW S, IsFiniteSet(S), NEW f
    PROVE  \E g : Rec(g, f, S) /\ SumFunctionOnSet(f, S) = g[S]
<1> DEFINE g == CHOOSE g : Rec(g, f, S)
<1>1. Rec(g, f, S)
  BY Exists
<1>2. SumFunctionOnSet(f, S) = g[S]
  BY DEF SumFunctionOnSet, FoldFunctionOnSet, MapThenFoldSet, Rec, Pick
<1> QED BY <1>1, <1>2

LEMMA SumEmpty == \A f : SumFunctionOnSet(f, {}) = 0
<1> SUFFICES ASSUME NEW f PROVE SumFunctionOnSet(f, {}) = 0
  OBVIOUS
<1>1. PICK g : Rec(g, f, {}) /\ SumFunctionOnSet(f, {}) = g[{}]
  BY SumIsRec, FS_EmptySet
<1> QED BY <1>1 DEF Rec

LEMMA SumPick ==
    ASSUME NEW S, IsFiniteSet(S), S # {}, NEW f
    PROVE  SumFunctionOnSet(f, S)
               = f[Pick(S)] + SumFunctionOnSet(f, S \ {Pick(S)})
<1> DEFINE T == S \ {Pick(S)}
<1>1. PICK g : Rec(g, f, S) /\ SumFunctionOnSet(f, S) = g[S]
  BY SumIsRec
<1>2. IsFiniteSet(T)
  BY FS_Subset
<1>3. PICK h : Rec(h, f, T) /\ SumFunctionOnSet(f, T) = h[T]
  BY <1>2, SumIsRec
<1>4. g[T] = h[T]
  BY <1>1, <1>3, Unique
<1>5. g[S] = f[Pick(S)] + g[T]
  BY <1>1 DEF Rec
<1> HIDE DEF T
<1> QED BY <1>1, <1>3, <1>4, <1>5 DEF T

LEMMA SumType ==
    ASSUME NEW S, IsFiniteSet(S), NEW f, \A x \in S : f[x] \in Int
    PROVE  SumFunctionOnSet(f, S) \in Int
<1> DEFINE B == {T \in SUBSET S : SumFunctionOnSet(f, T) \notin Int}
<1> SUFFICES ASSUME B # {} PROVE FALSE
  OBVIOUS
<1>1. PICK T \in B : \A t \in B : t \subseteq T => t = T
  <2>1. B \subseteq SUBSET S
    OBVIOUS
  <2> HIDE DEF B
  <2> QED BY <2>1, Minimal
<1>2. T # {}
  BY SumEmpty
<1>3. IsFiniteSet(T)
  BY FS_Subset
<1>4. Pick(T) \in T
  BY <1>2, PickIn
<1>5. SumFunctionOnSet(f, T \ {Pick(T)}) \in Int
  BY <1>1, <1>4
<1>6. SumFunctionOnSet(f, T)
          = f[Pick(T)] + SumFunctionOnSet(f, T \ {Pick(T)})
  BY <1>2, <1>3, SumPick
<1> QED BY <1>1, <1>4, <1>5, <1>6

\* A sum depends only on the values summed.
LEMMA SumAgrees ==
    ASSUME NEW S, IsFiniteSet(S), NEW f, NEW g, \A x \in S : f[x] = g[x]
    PROVE  SumFunctionOnSet(f, S) = SumFunctionOnSet(g, S)
<1> DEFINE B == {T \in SUBSET S :
                    SumFunctionOnSet(f, T) # SumFunctionOnSet(g, T)}
<1> SUFFICES ASSUME B # {} PROVE FALSE
  OBVIOUS
<1>1. PICK T \in B : \A t \in B : t \subseteq T => t = T
  <2>1. B \subseteq SUBSET S
    OBVIOUS
  <2> HIDE DEF B
  <2> QED BY <2>1, Minimal
<1>2. T # {}
  BY SumEmpty
<1>3. IsFiniteSet(T)
  BY FS_Subset
<1>4. Pick(T) \in T
  BY <1>2, PickIn
<1>5. SumFunctionOnSet(f, T \ {Pick(T)}) = SumFunctionOnSet(g, T \ {Pick(T)})
  BY <1>1, <1>4
<1>6. /\ SumFunctionOnSet(f, T)
             = f[Pick(T)] + SumFunctionOnSet(f, T \ {Pick(T)})
      /\ SumFunctionOnSet(g, T)
             = g[Pick(T)] + SumFunctionOnSet(g, T \ {Pick(T)})
  BY <1>2, <1>3, SumPick
<1> QED BY <1>4, <1>5, <1>6

\* Any element may be taken out first, not only the one the library chooses.
LEMMA SumRemove ==
    ASSUME NEW S, IsFiniteSet(S), NEW f, \A x \in S : f[x] \in Int, NEW a \in S
    PROVE  SumFunctionOnSet(f, S) = f[a] + SumFunctionOnSet(f, S \ {a})
<1> DEFINE Sum(T) == SumFunctionOnSet(f, T)
           B == {T \in SUBSET S : \E x \in T : Sum(T) # f[x] + Sum(T \ {x})}
<1> SUFFICES ASSUME B # {} PROVE FALSE
  OBVIOUS
<1>1. PICK T \in B : \A t \in B : t \subseteq T => t = T
  <2>1. B \subseteq SUBSET S
    OBVIOUS
  <2> HIDE DEF B
  <2> QED BY <2>1, Minimal
<1>2. PICK x \in T : Sum(T) # f[x] + Sum(T \ {x})
  OBVIOUS
<1> DEFINE p == Pick(T)
<1>3. p \in T
  BY <1>2, PickIn
<1>4. Sum(T) = f[p] + Sum(T \ {p})
  <2>1. IsFiniteSet(T)
    BY FS_Subset
  <2> QED BY <1>2, <2>1, SumPick
<1> HIDE DEF p
<1>5. x # p
  BY <1>2, <1>4
<1>6. ASSUME NEW y \in T, NEW z \in T, y # z
      PROVE  Sum(T \ {y}) = f[z] + Sum((T \ {y}) \ {z})
  <2>1. T \ {y} \notin B
    BY <1>1
  <2> HIDE DEF Sum
  <2> QED BY <1>6, <2>1
<1>7. Sum(T \ {p}) = f[x] + Sum((T \ {p}) \ {x})
  BY <1>3, <1>5, <1>6
<1>8. Sum(T \ {x}) = f[p] + Sum((T \ {x}) \ {p})
  BY <1>3, <1>5, <1>6
<1>9. (T \ {p}) \ {x} = (T \ {x}) \ {p}
  OBVIOUS
<1>10. f[x] \in Int /\ f[p] \in Int /\ Sum((T \ {p}) \ {x}) \in Int
  <2>1. IsFiniteSet((T \ {p}) \ {x})
    BY FS_Subset
  <2> QED BY <1>3, <2>1, SumType
<1> HIDE DEF Sum
<1> QED BY <1>2, <1>4, <1>7, <1>8, <1>9, <1>10

LEMMA SumAdd ==
    ASSUME NEW S, IsFiniteSet(S), NEW a, a \notin S, NEW f,
           \A x \in S \cup {a} : f[x] \in Int
    PROVE  SumFunctionOnSet(f, S \cup {a}) = SumFunctionOnSet(f, S) + f[a]
<1>1. IsFiniteSet(S \cup {a})
  BY FS_AddElement
<1>2. (S \cup {a}) \ {a} = S
  OBVIOUS
<1>3. SumFunctionOnSet(f, S) \in Int
  BY SumType
<1> QED BY <1>1, <1>2, <1>3, SumRemove

LEMMA SumZero ==
    ASSUME NEW S, IsFiniteSet(S), NEW f, \A x \in S : f[x] = 0
    PROVE  SumFunctionOnSet(f, S) = 0
<1> DEFINE B == {T \in SUBSET S : SumFunctionOnSet(f, T) # 0}
<1> SUFFICES ASSUME B # {} PROVE FALSE
  OBVIOUS
<1>1. PICK T \in B : \A t \in B : t \subseteq T => t = T
  <2>1. B \subseteq SUBSET S
    OBVIOUS
  <2> HIDE DEF B
  <2> QED BY <2>1, Minimal
<1>2. T # {}
  BY SumEmpty
<1>3. IsFiniteSet(T)
  BY FS_Subset
<1>4. Pick(T) \in T
  BY <1>2, PickIn
<1>5. SumFunctionOnSet(f, T \ {Pick(T)}) = 0
  BY <1>1, <1>4
<1>6. SumFunctionOnSet(f, T)
          = f[Pick(T)] + SumFunctionOnSet(f, T \ {Pick(T)})
  BY <1>2, <1>3, SumPick
<1> QED BY <1>1, <1>4, <1>5, <1>6
\* One more summand, for sums over the whole domain of a function.
LEMMA SumGrows ==
    ASSUME NEW S, IsFiniteSet(S), NEW a, a \notin S, NEW f, NEW g,
           DOMAIN f = S, DOMAIN g = S \cup {a},
           \A x \in S : f[x] \in Int /\ g[x] = f[x], g[a] \in Int
    PROVE  SumFunction(g) = SumFunction(f) + g[a]
<1>1. SumFunctionOnSet(g, S \cup {a}) = SumFunctionOnSet(g, S) + g[a]
  BY SumAdd
<1>2. SumFunctionOnSet(g, S) = SumFunctionOnSet(f, S)
  BY SumAgrees
<1> QED BY <1>1, <1>2 DEF SumFunction

----------------------------------------------------------------------------
\* Balances.  The variables dbCredit and ecCredit, which the proofs of
\* ProcessorProofs speak of, are the sums a replay of the blocks gives: in
\* every state, at every program point, also when a block was lost.

LEMMA FiniteDomain ==
    ASSUME NEW X, NEW s \in Seq(X) PROVE IsFiniteSet(DOMAIN s)
BY FS_Interval

LEMMA DeltaType == \A x \in ECEntries, k \in Keys : x.delta[k] \in Int
BY DEF ECEntries, Balances

LEMMA BlockSumType ==
    ASSUME NEW es \in Seq(ECEntries), NEW k \in Keys
    PROVE  BlockSum(es, k) \in Int
<1> DEFINE f == [i \in DOMAIN es |-> es[i].delta[k]]
<1>1. \A i \in DOMAIN es : f[i] \in Int
  <2>1. \A i \in DOMAIN es : es[i] \in ECEntries
    OBVIOUS
  <2> QED BY <2>1, DeltaType
<1>2. IsFiniteSet(DOMAIN es)
  BY FiniteDomain
<1>3. DOMAIN f = DOMAIN es
  OBVIOUS
<1> HIDE DEF f
<1>4. SumFunctionOnSet(f, DOMAIN es) \in Int
  BY <1>1, <1>2, SumType
<1> QED BY <1>3, <1>4 DEF BlockSum, SumFunction, f

LEMMA BlockSumAppend ==
    ASSUME NEW es \in Seq(ECEntries), NEW x \in ECEntries, NEW k \in Keys
    PROVE  BlockSum(Append(es, x), k) = BlockSum(es, k) + x.delta[k]
<1> DEFINE longer == Append(es, x)
           f == [i \in DOMAIN es |-> es[i].delta[k]]
           g == [i \in DOMAIN longer |-> longer[i].delta[k]]
           a == Len(es) + 1
           S == DOMAIN es
<1>1. /\ a \notin S /\ DOMAIN longer = S \cup {a}
      /\ \A i \in S : longer[i] = es[i] /\ es[i] \in ECEntries
      /\ longer[a] = x
  OBVIOUS
<1>2. IsFiniteSet(S)
  BY FiniteDomain
<1> HIDE DEF longer, a
<1>3. DOMAIN f = S /\ DOMAIN g = S \cup {a}
  BY <1>1
<1>4. /\ \A i \in S : f[i] \in Int /\ g[i] = f[i]
      /\ g[a] = x.delta[k] /\ g[a] \in Int
  BY <1>1, DeltaType
<1> HIDE DEF f, g, S
<1>5. SumFunction(g) = SumFunction(f) + g[a]
  BY <1>1, <1>2, <1>3, <1>4, SumGrows
<1> QED BY <1>4, <1>5 DEF BlockSum, f, g, longer

\* A block whose entries change no balance adds nothing.
LEMMA BlockSumZero ==
    ASSUME NEW es \in Seq(ECEntries), NEW k \in Keys,
           \A i \in DOMAIN es : es[i].delta = Zero
    PROVE  BlockSum(es, k) = 0
<1> DEFINE f == [i \in DOMAIN es |-> es[i].delta[k]]
<1>1. \A i \in DOMAIN es : f[i] = 0
  BY DEF Zero
<1>2. IsFiniteSet(DOMAIN es) /\ DOMAIN f = DOMAIN es
  BY FiniteDomain
<1> HIDE DEF f
<1> QED BY <1>1, <1>2, SumZero DEF BlockSum, SumFunction, f

ReplayOf(blocks, k) == SumFunction([b \in blocks |-> BlockSum(b.entries, k)])

LEMMA ReplayStore ==
    ASSUME NEW blocks \in SUBSET ECBlocks, IsFiniteSet(blocks), NEW k \in Keys,
           NEW block \in ECBlocks, block \notin blocks
    PROVE  ReplayOf(blocks \cup {block}, k)
               = ReplayOf(blocks, k) + BlockSum(block.entries, k)
<1> DEFINE f == [b \in blocks |-> BlockSum(b.entries, k)]
           g == [b \in blocks \cup {block} |-> BlockSum(b.entries, k)]
<1>1. \A b \in ECBlocks : BlockSum(b.entries, k) \in Int
  BY BlockSumType DEF ECBlocks
<1>2. DOMAIN f = blocks /\ DOMAIN g = blocks \cup {block}
  OBVIOUS
<1>3. /\ \A b \in blocks : f[b] \in Int /\ g[b] = f[b]
      /\ g[block] = BlockSum(block.entries, k) /\ g[block] \in Int
  BY <1>1
<1> HIDE DEF f, g
<1>4. SumFunction(g) = SumFunction(f) + g[block]
  BY <1>2, <1>3, SumGrows
<1> QED BY <1>3, <1>4 DEF ReplayOf, f, g

Replayed ==
    /\ IsFiniteSet(ecDB)
    /\ \A k \in Keys : /\ dbCredit[k] = ReplayOf(ecDB, k)
                       /\ ecCredit[k] = dbCredit[k] + BlockSum(ecNext, k)

LEMMA EmptyBlockSum == \A k \in Keys : BlockSum(<<>>, k) = 0
<1>1. <<>> \in Seq(ECEntries) /\ DOMAIN <<>> = {}
  OBVIOUS
<1> QED BY <1>1, BlockSumZero

LEMMA OpenBlockSum == \A k \in Keys : BlockSum(<<ServerIndex>>, k) = 0
<1>1. /\ <<ServerIndex>> \in Seq(ECEntries)
      /\ \A i \in DOMAIN <<ServerIndex>> : <<ServerIndex>>[i].delta = Zero
  BY ServerIndexType DEF ServerIndex, ECEntry
<1> QED BY <1>1, BlockSumZero

\* The entries of the genesis block change no balance and charge for nothing.
LEMMA GenesisEntries ==
    /\ GenesisECEntries \in Seq(ECEntries)
    /\ \A i \in DOMAIN GenesisECEntries :
           /\ GenesisECEntries[i].delta = Zero
           /\ GenesisECEntries[i].type \notin CommitKinds
<1> DEFINE minutes == [m \in Minutes |-> ECEntry("minute", None, Zero, m)]
           calm(x) == x.delta = Zero /\ x.type \notin CommitKinds
<1>1. \A m \in Minutes : minutes[m] \in ECEntries /\ calm(minutes[m])
  BY ZeroType, ConstantTypes
     DEF ECEntry, ECEntries, Minutes, Messages, CommitKinds
<1>2. minutes \in Seq(ECEntries) /\ DOMAIN minutes = Minutes
  BY <1>1, ConstantTypes DEF Minutes
<1>3. <<ServerIndex>> \in Seq(ECEntries) /\ calm(ServerIndex)
  BY ServerIndexType DEF ServerIndex, ECEntry, CommitKinds
<1> HIDE DEF minutes
<1>4. \A i \in DOMAIN (<<ServerIndex>> \o minutes) :
          \/ (<<ServerIndex>> \o minutes)[i] = ServerIndex
          \/ \E m \in DOMAIN minutes :
                 (<<ServerIndex>> \o minutes)[i] = minutes[m]
  BY <1>2, <1>3
<1>5. GenesisECEntries = <<ServerIndex>> \o minutes
  BY DEF GenesisECEntries, minutes
<1> QED BY <1>1, <1>2, <1>3, <1>4, <1>5

LEMMA InitReplayed == Init => Replayed
<1> SUFFICES ASSUME Init PROVE Replayed
  OBVIOUS
<1>1. GenesisEC \in ECBlocks /\ ecDB = {GenesisEC} /\ IsFiniteSet(ecDB)
  BY GenesisEntries, FS_Singleton DEF Init, GenesisEC, ECBlocks
<1>2. ASSUME NEW k \in Keys PROVE ReplayOf({GenesisEC}, k) = 0
  <2>1. BlockSum(GenesisEC.entries, k) = 0
    BY GenesisEntries, BlockSumZero DEF GenesisEC
  <2>2. ReplayOf({} \cup {GenesisEC}, k) = ReplayOf({}, k) + 0
    BY <1>1, <2>1, ReplayStore, FS_EmptySet
  <2>3. ReplayOf({}, k) = 0
    BY SumEmpty DEF ReplayOf, SumFunction
  <2> QED BY <2>2, <2>3
<1>3. \A k \in Keys : dbCredit[k] = 0 /\ ecCredit[k] = 0
  BY DEF Init, Zero
<1>4. ecNext = <<ServerIndex>>
  BY DEF Init
<1> QED BY <1>1, <1>2, <1>3, <1>4, OpenBlockSum DEF Replayed

LEMMA QuietReplayed ==
    ASSUME Replayed, UNCHANGED <<ecDB, ecNext, dbCredit, ecCredit>>
    PROVE  Replayed'
BY DEF Replayed

\* One more entry in the open block.
LEMMA EntryReplayed ==
    ASSUME TypeInv, TypeInv', Replayed, NEW x, AddECEntry(x),
           UNCHANGED <<ecDB, dbCredit>>
    PROVE  Replayed'
<1>1. /\ ecNext \in Seq(ECEntries) /\ ecNext' \in Seq(ECEntries)
      /\ ecNext' = Append(ecNext, x) /\ ecCredit' = Apply(ecCredit, x.delta)
      /\ dbCredit \in Balances
  BY DEF TypeInv, TypeOK, AddECEntry
<1>2. x \in ECEntries
  <2>1. ecNext'[Len(ecNext) + 1] = x /\ Len(ecNext) + 1 \in DOMAIN ecNext'
    BY <1>1
  <2> QED BY <1>1, <2>1
<1>3. ASSUME NEW k \in Keys
      PROVE  ecCredit'[k] = dbCredit[k] + BlockSum(ecNext', k)
  <2>1. BlockSum(ecNext', k) = BlockSum(ecNext, k) + x.delta[k]
    BY <1>1, <1>2, BlockSumAppend
  <2>2. ecCredit'[k] = ecCredit[k] + x.delta[k]
    BY <1>1 DEF Apply
  <2>3. ecCredit[k] = dbCredit[k] + BlockSum(ecNext, k)
    BY DEF Replayed
  <2>4. /\ dbCredit[k] \in Int /\ x.delta[k] \in Int
        /\ BlockSum(ecNext, k) \in Int
    BY <1>1, <1>2, DeltaType, BlockSumType DEF Balances
  <2> QED BY <2>1, <2>2, <2>3, <2>4
<1> QED BY <1>3 DEF Replayed

LEMMA StoreReplayed ==
    ASSUME TypeInv, Replayed, newEntryCreditBlock PROVE Replayed'
<1> DEFINE block == [height |-> nextHeight.ec, entries |-> ecNext]
<1>1. /\ ecDB' = ecDB \cup {block} /\ ecCredit' = dbCredit'
      /\ dbCredit' = IF block \in ecDB THEN dbCredit ELSE ecCredit
      /\ ecNext' = <<ServerIndex>>
  BY DEF newEntryCreditBlock
<1>2. block \in ECBlocks /\ block.entries = ecNext
      /\ ecDB \in SUBSET ECBlocks /\ IsFiniteSet(ecDB)
  BY DEF TypeInv, TypeOK, Heights, ECBlocks, Replayed
<1> HIDE DEF block
<1>3. IsFiniteSet(ecDB')
  BY <1>1, <1>2, FS_AddElement
<1>4. ASSUME NEW k \in Keys PROVE dbCredit'[k] = ReplayOf(ecDB', k)
  <2>1. CASE block \in ecDB
    <3>1. ecDB' = ecDB /\ dbCredit' = dbCredit
      BY <1>1, <2>1
    <3> QED BY <3>1 DEF Replayed
  <2>2. CASE block \notin ecDB
    <3>1. ReplayOf(ecDB', k) = ReplayOf(ecDB, k) + BlockSum(ecNext, k)
      BY <1>1, <1>2, <2>2, ReplayStore
    <3> QED BY <1>1, <2>2, <3>1 DEF Replayed
  <2> QED BY <2>1, <2>2
<1>5. ASSUME NEW k \in Keys
      PROVE  ecCredit'[k] = dbCredit'[k] + BlockSum(ecNext', k)
  <2>1. dbCredit'[k] \in Int
    BY <1>1 DEF TypeInv, TypeOK, Balances
  <2> QED BY <1>1, <2>1, OpenBlockSum
<1> QED BY <1>3, <1>4, <1>5 DEF Replayed

LEMMA ReplayedStep ==
    ASSUME TypeInv, TypeInv', Replayed, [Next]_vars PROVE Replayed'
<1>1. CASE \/ Serve \/ EndOfMinute \/ EndOfMinute10 \/ EndProcessList
           \/ \E e \in Entries : processFromOrphanPool(e)
  BY <1>1, QuietReplayed
     DEF Serve, processCommitEntry, processCommitChain, RefuseCommit,
     processBuyEntryCredit, RefuseFactoidTX, processRevealEntry, EndOfMinute,
     EndOfMinute10, EndProcessList, processFromOrphanPool, open, disk, credit
<1>2. CASE buildCommit \/ buildIncreaseBalance \/ buildEndOfMinute
  <2>1. PICK x : AddECEntry(x)
    BY <1>2 DEF buildCommit, buildIncreaseBalance, buildEndOfMinute
  <2>2. UNCHANGED <<ecDB, dbCredit>>
    BY <1>2 DEF buildCommit, buildIncreaseBalance, buildEndOfMinute, disk
  <2> QED BY <2>1, <2>2, EntryReplayed
<1>3. CASE buildRevealEntry \/ buildRevealChain \/ buildFirstEntry
  BY <1>3, QuietReplayed DEF buildRevealEntry, buildRevealChain,
     buildFirstEntry, open, credit
<1>4. CASE newEntryCreditBlock
  BY <1>4, StoreReplayed
<1>5. CASE \/ newAdminBlock \/ newFactoidBlock \/ newDirectoryBlock
           \/ \E c \in Chains : newEntryBlock(c)
  BY <1>5, QuietReplayed DEF newAdminBlock, newFactoidBlock,
     newDirectoryBlock, newEntryBlock, VisitChain, credit
<1>6. CASE initProcessor
  <2>1. /\ ecNext' = <<>> /\ ecCredit' = dbCredit
        /\ UNCHANGED <<ecDB, dbCredit>>
    BY <1>6 DEF initProcessor, disk
  <2>2. \A k \in Keys : dbCredit[k] \in Int
    BY DEF TypeInv, TypeOK, Balances
  <2> QED BY <2>1, <2>2, EmptyBlockSum DEF Replayed
<1>7. CASE UNCHANGED vars
  BY <1>7, QuietReplayed DEF vars, open, disk, credit
<1> QED BY <1>1, <1>2, <1>3, <1>4, <1>5, <1>6, <1>7, NextGroups
        DEF BuildItem, SealBlock

\* A replay of the stored entry credit blocks gives the balances the engine
\* serves from, wherever the process has died: initECChain adds up exactly
\* what processCommitEntry, processCommitChain and processBuyEntryCredit did.
THEOREM ReplayIsTheLedger == Spec => []ReplayGivesBalances
<1>1. Init => IInv /\ Replayed
  BY InitType, InitControl, InitLedger, InitReplayed DEF IInv
<1>2. (IInv /\ Replayed) /\ [Next]_vars => (IInv /\ Replayed)'
  BY TypeStep, ControlStep, LedgerStep, ReplayedStep DEF IInv
<1>3. ASSUME IInv, Replayed PROVE ReplayGivesBalances
  <2> SUFFICES ASSUME ~ecLost, pc \in Sealing \/ (pc = "serve" /\ plist = <<>>),
                      NEW k \in Keys
               PROVE  eCreditMap[k] = Replay(k)
    BY DEF ReplayGivesBalances
  <2>1. dbCredit = eCreditMap
    <3>1. ASSUME Certified, plist = <<>> PROVE dbCredit = eCreditMap
      BY <3>1 DEF Certified, Bal
    <3> QED BY <1>3, <3>1 DEF IInv, Ledger, Collecting
  <2>2. dbCredit[k] = Replay(k)
    BY <1>3 DEF Replayed, ReplayOf, Replay
  <2> QED BY <2>1, <2>2
<1> QED BY <1>1, <1>2, <1>3, PTL DEF Spec

----------------------------------------------------------------------------
\* Payments.  First, what an entry carries with it from its reveal to the
\* stored block: the commit that was waiting for it, which is large enough.

PaidBy(e, by) ==
    /\ by \in Commits
    /\ CommitMsg[by].entry = e
    /\ CommitMsg[by].credits >= Cost[e]

PaidItems(list) ==
    \A n \in DOMAIN list :
        list[n].type \in Reveals => PaidBy(list[n].msg, list[n].by)

\* The entries of a body belong to chain d and are paid for, and its
\* end-of-minute markers are not.
PaidBody(body, d) ==
    \A i \in DOMAIN body :
        \/ body[i].entry = None /\ body[i].by = None
        \/ PaidBy(body[i].entry, body[i].by) /\ ChainOf[body[i].entry] = d

Bought ==
    /\ Committed
    /\ PaidItems(plist)
    /\ \A d \in Chains : PaidBody(eNext[d].body, d)
    /\ \A b \in eDB : \E d \in Chains : PaidBody(b.body, d)

LEMMA EmptyBody == \A d : PaidBody(<<>>, d)
BY DEF PaidBody

LEMMA BodyAppend ==
    ASSUME NEW body \in Seq(EBEntries), NEW d, NEW x, PaidBody(body, d),
           \/ x.entry = None /\ x.by = None
           \/ PaidBy(x.entry, x.by) /\ ChainOf[x.entry] = d
    PROVE  PaidBody(Append(body, x), d)
<1>1. /\ \A i \in DOMAIN body : Append(body, x)[i] = body[i]
      /\ \A i \in DOMAIN Append(body, x) : i \in DOMAIN body \/ i = Len(body) + 1
      /\ Append(body, x)[Len(body) + 1] = x
  OBVIOUS
<1> QED BY <1>1 DEF PaidBody

LEMMA ItemsAppend ==
    ASSUME NEW list \in Seq(Items), NEW item, PaidItems(list),
           item.type \in Reveals => PaidBy(item.msg, item.by)
    PROVE  PaidItems(Append(list, item))
<1>1. /\ \A i \in DOMAIN list : Append(list, item)[i] = list[i]
      /\ \A i \in DOMAIN Append(list, item) :
             i \in DOMAIN list \/ i = Len(list) + 1
      /\ Append(list, item)[Len(list) + 1] = item
  OBVIOUS
<1> QED BY <1>1 DEF PaidItems

LEMMA InitBought == Init => Bought
<1>1. Init => Committed
  BY InitLists DEF Lists
<1>2. ASSUME Init PROVE \A d \in Chains : eNext[d].body = <<>>
  BY <1>2 DEF Init, NewEBlock
<1>3. Init => PaidItems(plist) /\ eDB = {}
  BY DEF Init, PaidItems
<1> QED BY <1>1, <1>2, <1>3, EmptyBody DEF Bought

\* The list stays, or grows by one message; a reveal is paid for.
ListsPaid ==
    \/ UNCHANGED plist
    \/ \E item : /\ plist' = Append(plist, item)
                 /\ item.type \in Reveals => PaidBy(item.msg, item.by)

\* A step that lists one message, and perhaps opens a new block of a chain.
LEMMA ListBought ==
    ASSUME TypeInv, Bought, Committed',
           \A c \in Chains : eNext'[c].body \in {eNext[c].body, <<>>},
           ListsPaid, UNCHANGED eDB
    PROVE  Bought'
<1>1. plist \in Seq(Items)
  BY DEF TypeInv, TypeOK
<1>2. PaidItems(plist')
  <2>1. CASE UNCHANGED plist
    BY <2>1 DEF Bought
  <2>2. CASE plist' # plist
    <3>1. PICK item : /\ plist' = Append(plist, item)
                      /\ item.type \in Reveals => PaidBy(item.msg, item.by)
      BY <2>2 DEF ListsPaid
    <3> QED BY <1>1, <3>1, ItemsAppend DEF Bought
  <2> QED BY <2>1, <2>2
<1>3. \A d \in Chains : PaidBody(eNext'[d].body, d)
  BY EmptyBody DEF Bought
<1> QED BY <1>2, <1>3 DEF Bought

\* What a reveal may do: nothing to the list, or list an entry that the
\* commit waiting for it pays for.
LEMMA RevealPaid ==
    ASSUME TypeInv, Committed, NEW e \in Entries,
           \/ AcceptEntry(e) \/ AcceptChain(e) \/ RegisterOnly(e)
           \/ UNCHANGED <<plist, commitEntryMap, commitChainMap, chains>>
    PROVE  ListsPaid
<1>0. /\ commitEntryMap[e] \in Commits \cup {None}
      /\ commitChainMap[e] \in Commits \cup {None}
  BY DEF TypeInv, TypeOK
<1>1. CASE AcceptEntry(e)
  <2> DEFINE item == Item("revealEntry", e, commitEntryMap[e], minute, eCreditMap)
  <2>1. item.msg = e /\ item.by = commitEntryMap[e]
    BY DEF Item
  <2>2. /\ plist' = Append(plist, item)
        /\ commitEntryMap[e] # None /\ EntryPaid(e)
    BY <1>1 DEF AcceptEntry, AcceptsEntry, HasEntryCommit, ListMessage,
       AddMyProcessListItem
  <2> HIDE DEF item
  <2>3. PaidBy(item.msg, item.by)
    BY <1>0, <2>1, <2>2 DEF PaidBy, EntryPaid, Committed
  <2> QED BY <2>2, <2>3 DEF ListsPaid
<1>2. CASE AcceptChain(e)
  <2> DEFINE item == Item("revealChain", e, commitChainMap[e], minute, eCreditMap)
  <2>1. item.msg = e /\ item.by = commitChainMap[e]
    BY DEF Item
  <2>2. /\ plist' = Append(plist, item)
        /\ commitChainMap[e] # None /\ ChainPaid(e)
    BY <1>2 DEF AcceptChain, AcceptsChain, HasChainCommit, ListMessage,
       AddMyProcessListItem
  <2> HIDE DEF item
  <2>3. CommitMsg[commitChainMap[e]].credits >= Cost[e]
    <3>1. /\ CommitMsg[commitChainMap[e]].credits \in Nat
          /\ Cost[e] \in Nat /\ ChainFee \in Nat
      BY <1>0, <2>2, ConstantTypes
    <3> QED BY <2>2, <3>1 DEF ChainPaid
  <2>4. PaidBy(item.msg, item.by)
    BY <1>0, <2>1, <2>2, <2>3 DEF PaidBy, Committed
  <2> QED BY <2>2, <2>4 DEF ListsPaid
<1>3. CASE \/ RegisterOnly(e)
           \/ UNCHANGED <<plist, commitEntryMap, commitChainMap, chains>>
  BY <1>3 DEF RegisterOnly, ListsPaid
<1> QED BY <1>1, <1>2, <1>3

LEMMA ServeBought ==
    ASSUME TypeInv, Bought, Committed', Serve PROVE Bought'
<1>1. ASSUME NEW c \in Commits, processCommitEntry(c) \/ processCommitChain(c)
      PROVE  Bought'
  <2> DEFINE item == Item(CommitMsg[c].kind, c, None, 0, eCreditMap')
  <2>1. item.type \notin Reveals
    BY ConstantTypes DEF Item, CommitKinds, Reveals
  <2>2. plist' = Append(plist, item) /\ UNCHANGED <<eDB, eNext>>
    BY <1>1 DEF processCommitEntry, processCommitChain, ChargeCommit,
       ListMessage, AddMyProcessListItem, chains, disk
  <2> HIDE DEF item
  <2> QED BY <2>1, <2>2, ListBought DEF ListsPaid
<1>2. ASSUME NEW t \in Txs, processBuyEntryCredit(t) PROVE Bought'
  <2> DEFINE item == Item("factoidTX", t, None, 0, eCreditMap')
  <2>1. item.type \notin Reveals
    BY DEF Item, Reveals
  <2>2. plist' = Append(plist, item) /\ UNCHANGED <<eDB, eNext>>
    BY <1>2 DEF processBuyEntryCredit, ListMessage, AddMyProcessListItem,
       chains, disk
  <2> HIDE DEF item
  <2> QED BY <2>1, <2>2, ListBought DEF ListsPaid
<1>3. ASSUME \/ \E c \in Commits : RefuseCommit(c)
             \/ \E t \in Txs : RefuseFactoidTX(t)
      PROVE  Bought'
  <2>1. UNCHANGED <<plist, eDB, eNext>>
    BY <1>3 DEF RefuseCommit, RefuseFactoidTX, chains, ledger, disk
  <2> QED BY <2>1, ListBought DEF ListsPaid
<1>4. ASSUME NEW e \in Entries, processRevealEntry(e) PROVE Bought'
  <2>1. /\ UNCHANGED eDB
        /\ \/ AcceptEntry(e) \/ AcceptChain(e) \/ RegisterOnly(e)
           \/ UNCHANGED <<plist, commitEntryMap, commitChainMap, chains>>
    BY <1>4 DEF processRevealEntry, disk
  <2>2. \A c \in Chains : eNext'[c].body \in {eNext[c].body, <<>>}
    BY <2>1, RevealOutcome
  <2> QED BY <2>1, <2>2, RevealPaid, ListBought DEF Bought
<1> QED BY <1>1, <1>2, <1>3, <1>4 DEF Serve

\* A step that builds: it writes into open blocks and leaves the list alone.
LEMMA BuildBought ==
    ASSUME TypeInv, Control, Bought, Committed', BuildItem PROVE Bought'
<1>0. /\ eNext \in [Chains -> OpenEBlocks] /\ plist \in Seq(Items) /\ idx \in Nat
      /\ \A d \in Chains : eNext[d].body \in Seq(EBEntries)
  BY DEF TypeInv, TypeOK, OpenEBlocks
<1>1. UNCHANGED <<plist, eDB>>
  BY DEF BuildItem, buildCommit, buildIncreaseBalance, buildRevealEntry,
     buildRevealChain, buildFirstEntry, buildEndOfMinute, ledger, disk
<1>2. SUFFICES \A d \in Chains : PaidBody(eNext'[d].body, d)
  BY <1>1 DEF Bought
<1>3. CASE buildCommit \/ buildIncreaseBalance
  BY <1>3 DEF buildCommit, buildIncreaseBalance, chains, Bought
<1>4. CASE buildRevealEntry \/ buildFirstEntry
  <2> DEFINE item == plist[idx]
             ch == ChainOf[item.msg]
             x == EBEntry(item.msg, item.by, item.at)
  <2>1. /\ item.type \in Reveals /\ idx \in DOMAIN plist
        /\ AddEBEntry(ch, x)
    BY <1>0, <1>4 DEF buildRevealEntry, buildFirstEntry, Building, Reveals,
       Control, TypeInv, TypeOK
  <2>2. /\ PaidBy(x.entry, x.by) /\ ChainOf[x.entry] = ch
        /\ ch \in Chains
    BY <2>1, ConstantTypes, BuiltItem DEF Bought, PaidItems, EBEntry, PaidBy
  <2> HIDE DEF x, ch
  <2>3. \A d \in Chains : eNext'[d].body = IF d = ch THEN Append(eNext[d].body, x)
                                                    ELSE eNext[d].body
    BY <1>0, <2>1, <2>2 DEF AddEBEntry, OpenEBlocks
  <2> QED BY <1>0, <2>2, <2>3, BodyAppend DEF Bought
<1>5. CASE buildRevealChain
  <2>1. PICK ch \in Chains : eNext' = [eNext EXCEPT ![ch] = initEChainFromDB(ch)]
    <3>1. ChainOf[plist[idx].msg] \in Chains
      BY <1>5, BuiltItem, ConstantTypes DEF buildRevealChain, Building, Reveals
    <3> QED BY <1>5, <3>1 DEF buildRevealChain
  <2>2. \A d \in Chains : eNext'[d].body \in {eNext[d].body, <<>>}
    BY <1>0, <2>1 DEF initEChainFromDB
  <2> QED BY <2>2, EmptyBody DEF Bought
<1>6. CASE buildEndOfMinute
  <2> DEFINE x == EBEntry(None, None, plist[idx].at)
  <2>1. \A d \in Chains : eNext'[d].body \in {eNext[d].body, Append(eNext[d].body, x)}
    BY <1>0, <1>6 DEF buildEndOfMinute, OpenEBlocks
  <2>2. x.entry = None /\ x.by = None
    BY DEF EBEntry
  <2> HIDE DEF x
  <2>3. ASSUME NEW d \in Chains PROVE PaidBody(Append(eNext[d].body, x), d)
    BY <1>0, <2>2, BodyAppend DEF Bought
  <2> QED BY <2>1, <2>3 DEF Bought
<1> QED BY <1>3, <1>4, <1>5, <1>6 DEF BuildItem

LEMMA SealBought ==
    ASSUME TypeInv, Bought, Committed', SealBlock PROVE Bought'
<1>0. eNext \in [Chains -> OpenEBlocks]
  BY DEF TypeInv, TypeOK
<1>1. CASE newEntryCreditBlock \/ newAdminBlock \/ newFactoidBlock
  BY <1>1 DEF newEntryCreditBlock, newAdminBlock, newFactoidBlock, chains,
     ledger, Bought
<1>2. CASE newDirectoryBlock
  <2>1. PaidItems(<<>>)
    BY DEF PaidItems
  <2> QED BY <1>2, <2>1 DEF newDirectoryBlock, chains, Bought
<1>3. ASSUME NEW c \in Chains, newEntryBlock(c) PROVE Bought'
  <2>1. CASE eNext[c].body = <<>>
    BY <1>3, <2>1 DEF newEntryBlock, VisitChain, ledger, Bought
  <2>2. CASE eNext[c].body # <<>>
    <3>1. PICK block : block.body = eNext[c].body /\ eDB' = eDB \cup {block}
      BY <1>3, <2>2 DEF newEntryBlock, StoreEntryBlock
    <3>2. \A d \in Chains : eNext'[d].body \in {eNext[d].body, <<>>}
      BY <1>0, <1>3, <2>2 DEF newEntryBlock, StoreEntryBlock
    <3>3. UNCHANGED plist
      BY <1>3 DEF newEntryBlock, VisitChain, ledger
    <3> QED BY <3>1, <3>2, <3>3, EmptyBody DEF Bought
  <2> QED BY <2>1, <2>2
<1> QED BY <1>1, <1>2, <1>3 DEF SealBlock

LEMMA BoughtStep ==
    ASSUME TypeInv, Control, Bought, [Next]_vars PROVE Bought'
<1>0. Committed'
  BY CommittedStep DEF Bought
<1>1. CASE Serve
  BY <1>0, <1>1, ServeBought
<1>2. CASE EndOfMinute \/ EndOfMinute10 \/ EndProcessList
  <2>1. /\ \/ UNCHANGED plist
           \/ \E at : plist' = Append(plist, Item("EOM", None, None, at, eCreditMap))
        /\ UNCHANGED <<eDB, eNext>>
    BY <1>2 DEF EndOfMinute, EndOfMinute10, EndProcessList, ledger,
       AddMyProcessListItem, chains, disk
  <2>2. \A at : Item("EOM", None, None, at, eCreditMap).type \notin Reveals
    BY DEF Item, Reveals
  <2>3. ListsPaid
    BY <2>1, <2>2 DEF ListsPaid
  <2> QED BY <1>0, <2>1, <2>3, ListBought
<1>3. ASSUME NEW e \in Entries, processFromOrphanPool(e) PROVE Bought'
  <2>1. /\ UNCHANGED eDB
        /\ \/ AcceptEntry(e) \/ AcceptChain(e) \/ RegisterOnly(e)
           \/ UNCHANGED <<plist, commitEntryMap, commitChainMap, chains>>
    BY <1>3 DEF processFromOrphanPool, disk
  <2>2. \A c \in Chains : eNext'[c].body \in {eNext[c].body, <<>>}
    BY <2>1, RevealOutcome
  <2> QED BY <1>0, <2>1, <2>2, RevealPaid, ListBought DEF Bought
<1>4. CASE BuildItem
  BY <1>0, <1>4, BuildBought
<1>5. CASE SealBlock
  BY <1>0, <1>5, SealBought
<1>6. CASE initProcessor
  <2>1. /\ plist' = <<>> /\ UNCHANGED eDB
        /\ \A d \in Chains : eNext'[d].body = <<>>
    BY <1>6 DEF initProcessor, disk, initEChainFromDB, NewEBlock
  <2>2. PaidItems(<<>>)
    BY DEF PaidItems
  <2> QED BY <1>0, <2>1, <2>2, EmptyBody DEF Bought
<1>7. CASE UNCHANGED vars
  BY <1>0, <1>7 DEF vars, chains, ledger, disk, Bought
<1> QED BY <1>1, <1>2, <1>3, <1>4, <1>5, <1>6, <1>7, NextGroups

----------------------------------------------------------------------------
\* Then, how often a commit is used and charged for.  Between its acceptance
\* and the stored blocks a use passes through the map of waiting commits, the
\* process list from idx on and the open entry block of its chain; a charge
\* through the process list and the open entry credit block.  At every point
\* of the two paths, no use is ahead of its charge.

UsesOf(blocks, c) == SumFunction([b \in blocks |-> UsesIn(b.body, c)])

ChargesOf(blocks, c) == SumFunction([b \in blocks |-> ChargesIn(b.entries, c)])

PendingUses(list, from, c) ==
    Cardinality({n \in DOMAIN list : n >= from /\ list[n].by = c})

IsCharge(item, c) == item.type \in CommitKinds /\ item.msg = c

PendingCharges(list, from, c) ==
    Cardinality({n \in DOMAIN list : n >= from /\ IsCharge(list[n], c)})

HomeOf(c) == ChainOf[CommitMsg[c].entry]

OpenUses(c) == UsesIn(eNext[HomeOf(c)].body, c)

Waiting(c) ==
    LET e == CommitMsg[c].entry IN
    IF commitEntryMap[e] = c \/ commitChainMap[e] = c THEN 1 ELSE 0

Covered(c) ==
    /\ UsesOf(eDB, c) + OpenUses(c) + PendingUses(plist, idx, c) + Waiting(c)
           <= ChargesOf(ecDB, c) + ChargesIn(ecNext, c)
              + PendingCharges(plist, idx, c)
    /\ UsesOf(eDB, c) <= ChargesOf(ecDB, c)

Spent ==
    /\ pc \in Sealing =>
           idx > Len(plist) /\ \A c \in Commits : ChargesIn(ecNext, c) = 0
    /\ ~ecLost => \A c \in Commits : Covered(c)

\* Counting the indices of a sequence that satisfy a condition.
LEMMA SomeIndices ==
    ASSUME NEW n \in Nat, NEW S \in SUBSET (1 .. n)
    PROVE  IsFiniteSet(S) /\ Cardinality(S) \in Nat
<1>1. IsFiniteSet(1 .. n)
  BY FS_Interval
<1>2. IsFiniteSet(S)
  BY <1>1, FS_Subset
<1> QED BY <1>2, FS_CardinalityType

LEMMA OneMoreIndex ==
    ASSUME NEW n \in Nat, NEW S \in SUBSET (1 .. n), NEW a, a \notin S
    PROVE  Cardinality(S \cup {a}) = Cardinality(S) + 1
BY SomeIndices, FS_AddElement

LEMMA CountTypes ==
    /\ \A body \in Seq(EBEntries), c \in Commits : UsesIn(body, c) \in Nat
    /\ \A es \in Seq(ECEntries), c \in Commits : ChargesIn(es, c) \in Nat
    /\ \A list \in Seq(Items) : \A from, c :
           PendingUses(list, from, c) \in Nat /\ PendingCharges(list, from, c) \in Nat
<1>1. ASSUME NEW body \in Seq(EBEntries), NEW c \in Commits
      PROVE  UsesIn(body, c) \in Nat
  <2>1. /\ {i \in DOMAIN body : body[i].by = c} \in SUBSET (1 .. Len(body))
        /\ Len(body) \in Nat
    OBVIOUS
  <2> QED BY <2>1, SomeIndices DEF UsesIn
<1>2. ASSUME NEW es \in Seq(ECEntries), NEW c \in Commits
      PROVE  ChargesIn(es, c) \in Nat
  <2>1. /\ {i \in DOMAIN es : es[i].type \in CommitKinds /\ es[i].msg = c}
               \in SUBSET (1 .. Len(es))
        /\ Len(es) \in Nat
    OBVIOUS
  <2> QED BY <2>1, SomeIndices DEF ChargesIn
<1>3. ASSUME NEW list \in Seq(Items), NEW from, NEW c
      PROVE  PendingUses(list, from, c) \in Nat /\ PendingCharges(list, from, c) \in Nat
  <2>1. /\ {n \in DOMAIN list : n >= from /\ list[n].by = c}
               \in SUBSET (1 .. Len(list))
        /\ {n \in DOMAIN list : n >= from /\ IsCharge(list[n], c)}
               \in SUBSET (1 .. Len(list))
        /\ Len(list) \in Nat
    OBVIOUS
  <2> QED BY <2>1, SomeIndices DEF PendingUses, PendingCharges
<1> QED BY <1>1, <1>2, <1>3

LEMMA UsesAppend ==
    ASSUME NEW body \in Seq(EBEntries), NEW x, NEW c \in Commits
    PROVE  UsesIn(Append(body, x), c)
               = UsesIn(body, c) + (IF x.by = c THEN 1 ELSE 0)
<1> DEFINE longer == Append(body, x)
           S == {i \in DOMAIN body : body[i].by = c}
           T == {i \in DOMAIN longer : longer[i].by = c}
           a == Len(body) + 1
<1>1. /\ DOMAIN longer = DOMAIN body \cup {a} /\ a \notin S
      /\ \A i \in DOMAIN body : longer[i] = body[i]
      /\ longer[a] = x /\ S \in SUBSET (1 .. Len(body)) /\ a \notin DOMAIN body
      /\ Len(body) \in Nat
  OBVIOUS
<1>2. T = IF x.by = c THEN S \cup {a} ELSE S
  BY <1>1
<1> HIDE DEF S, T, a, longer
<1>3. Cardinality(T) = Cardinality(S) + (IF x.by = c THEN 1 ELSE 0)
  <2>1. Cardinality(S) \in Nat /\ Cardinality(S \cup {a}) = Cardinality(S) + 1
    BY <1>1, SomeIndices, OneMoreIndex
  <2> QED BY <1>2, <2>1
<1> QED BY <1>3 DEF UsesIn, S, T, longer

LEMMA ChargesAppend ==
    ASSUME NEW es \in Seq(ECEntries), NEW x, NEW c \in Commits
    PROVE  ChargesIn(Append(es, x), c)
               = ChargesIn(es, c) + (IF IsCharge(x, c) THEN 1 ELSE 0)
<1> DEFINE longer == Append(es, x)
           S == {i \in DOMAIN es : es[i].type \in CommitKinds /\ es[i].msg = c}
           T == {i \in DOMAIN longer :
                    longer[i].type \in CommitKinds /\ longer[i].msg = c}
           a == Len(es) + 1
<1>1. /\ DOMAIN longer = DOMAIN es \cup {a} /\ a \notin S
      /\ \A i \in DOMAIN es : longer[i] = es[i]
      /\ longer[a] = x /\ S \in SUBSET (1 .. Len(es)) /\ a \notin DOMAIN es
      /\ Len(es) \in Nat
  OBVIOUS
<1>2. T = IF IsCharge(x, c) THEN S \cup {a} ELSE S
  BY <1>1 DEF IsCharge
<1> HIDE DEF S, T, a, longer
<1>3. Cardinality(T) = Cardinality(S) + (IF IsCharge(x, c) THEN 1 ELSE 0)
  <2>1. Cardinality(S) \in Nat /\ Cardinality(S \cup {a}) = Cardinality(S) + 1
    BY <1>1, SomeIndices, OneMoreIndex
  <2> QED BY <1>2, <2>1
<1> QED BY <1>3 DEF ChargesIn, S, T, longer

\* A message joins the list.
LEMMA PendingAppend ==
    ASSUME NEW list \in Seq(Items), NEW item, NEW c \in Commits
    PROVE  /\ PendingUses(Append(list, item), 1, c)
                  = PendingUses(list, 1, c) + (IF item.by = c THEN 1 ELSE 0)
           /\ PendingCharges(Append(list, item), 1, c)
                  = PendingCharges(list, 1, c)
                    + (IF IsCharge(item, c) THEN 1 ELSE 0)
<1> DEFINE longer == Append(list, item)
           S == {n \in DOMAIN list : n >= 1 /\ list[n].by = c}
           T == {n \in DOMAIN longer : n >= 1 /\ longer[n].by = c}
           U == {n \in DOMAIN list : n >= 1 /\ IsCharge(list[n], c)}
           V == {n \in DOMAIN longer : n >= 1 /\ IsCharge(longer[n], c)}
           a == Len(list) + 1
<1>1. /\ DOMAIN longer = DOMAIN list \cup {a} /\ a >= 1
      /\ \A i \in DOMAIN list : longer[i] = list[i]
      /\ longer[a] = item /\ a \notin DOMAIN list
      /\ S \in SUBSET (1 .. Len(list)) /\ U \in SUBSET (1 .. Len(list))
      /\ Len(list) \in Nat
  OBVIOUS
<1>2. /\ T = IF item.by = c THEN S \cup {a} ELSE S
      /\ V = IF IsCharge(item, c) THEN U \cup {a} ELSE U
      /\ a \notin S /\ a \notin U
  BY <1>1
<1> HIDE DEF S, T, U, V, a, longer
<1>3. /\ Cardinality(S) \in Nat /\ Cardinality(S \cup {a}) = Cardinality(S) + 1
      /\ Cardinality(U) \in Nat /\ Cardinality(U \cup {a}) = Cardinality(U) + 1
  BY <1>1, <1>2, SomeIndices, OneMoreIndex
<1>4. /\ Cardinality(T) = Cardinality(S) + (IF item.by = c THEN 1 ELSE 0)
      /\ Cardinality(V) = Cardinality(U) + (IF IsCharge(item, c) THEN 1 ELSE 0)
  BY <1>2, <1>3
<1> QED BY <1>4 DEF PendingUses, PendingCharges, S, T, U, V, longer

\* The next message of the list is built.
LEMMA PendingNext ==
    ASSUME NEW list \in Seq(Items), NEW i \in DOMAIN list, NEW c \in Commits
    PROVE  /\ PendingUses(list, i, c)
                  = PendingUses(list, i + 1, c) + (IF list[i].by = c THEN 1 ELSE 0)
           /\ PendingCharges(list, i, c)
                  = PendingCharges(list, i + 1, c)
                    + (IF IsCharge(list[i], c) THEN 1 ELSE 0)
<1> DEFINE S == {n \in DOMAIN list : n >= i + 1 /\ list[n].by = c}
           T == {n \in DOMAIN list : n >= i /\ list[n].by = c}
           U == {n \in DOMAIN list : n >= i + 1 /\ IsCharge(list[n], c)}
           V == {n \in DOMAIN list : n >= i /\ IsCharge(list[n], c)}
<1>1. /\ S \in SUBSET (1 .. Len(list)) /\ U \in SUBSET (1 .. Len(list))
      /\ Len(list) \in Nat /\ i \notin S /\ i \notin U
  OBVIOUS
<1>2. \A n \in DOMAIN list : n >= i <=> (n >= i + 1 \/ n = i)
  OBVIOUS
<1>3. T = IF list[i].by = c THEN S \cup {i} ELSE S
  BY <1>2
<1>4. V = IF IsCharge(list[i], c) THEN U \cup {i} ELSE U
  BY <1>2
<1> HIDE DEF S, T, U, V
<1>5. /\ Cardinality(S) \in Nat /\ Cardinality(S \cup {i}) = Cardinality(S) + 1
      /\ Cardinality(U) \in Nat /\ Cardinality(U \cup {i}) = Cardinality(U) + 1
  BY <1>1, SomeIndices, OneMoreIndex
<1>6. /\ Cardinality(T) = Cardinality(S) + (IF list[i].by = c THEN 1 ELSE 0)
      /\ Cardinality(V) = Cardinality(U) + (IF IsCharge(list[i], c) THEN 1 ELSE 0)
  BY <1>3, <1>4, <1>5
<1> QED BY <1>6 DEF PendingUses, PendingCharges, S, T, U, V

LEMMA NothingPending ==
    ASSUME NEW list \in Seq(Items), NEW i \in Nat, i > Len(list), NEW c
    PROVE  PendingUses(list, i, c) = 0 /\ PendingCharges(list, i, c) = 0
<1>1. /\ {n \in DOMAIN list : n >= i /\ list[n].by = c} = {}
      /\ {n \in DOMAIN list : n >= i /\ IsCharge(list[n], c)} = {}
  OBVIOUS
<1> QED BY <1>1, FS_EmptySet DEF PendingUses, PendingCharges

LEMMA EmptyCounts ==
    \A c : UsesIn(<<>>, c) = 0 /\ ChargesIn(<<>>, c) = 0
<1> SUFFICES ASSUME NEW c PROVE UsesIn(<<>>, c) = 0 /\ ChargesIn(<<>>, c) = 0
  OBVIOUS
<1>1. /\ {i \in DOMAIN <<>> : <<>>[i].by = c} = {}
      /\ {i \in DOMAIN <<>> : <<>>[i].type \in CommitKinds /\ <<>>[i].msg = c} = {}
  OBVIOUS
<1> QED BY <1>1, FS_EmptySet DEF UsesIn, ChargesIn

\* No commit is used outside of its chain.
LEMMA UsedAtHome ==
    ASSUME NEW body, NEW d, PaidBody(body, d), NEW c \in Commits, HomeOf(c) # d
    PROVE  UsesIn(body, c) = 0
<1>1. \A i \in DOMAIN body : body[i].by # c
  BY ConstantTypes DEF PaidBody, PaidBy, HomeOf
<1>2. {i \in DOMAIN body : body[i].by = c} = {}
  BY <1>1
<1> QED BY <1>2, FS_EmptySet DEF UsesIn

\* A stored block adds its uses and its charges.
LEMMA UsesStore ==
    ASSUME NEW blocks \in SUBSET EBlocks, IsFiniteSet(blocks),
           NEW block \in EBlocks, NEW c \in Commits
    PROVE  /\ UsesOf(blocks, c) \in Int
           /\ UsesOf(blocks \cup {block}, c)
                  <= UsesOf(blocks, c) + UsesIn(block.body, c)
<1> DEFINE f == [b \in blocks |-> UsesIn(b.body, c)]
           g == [b \in blocks \cup {block} |-> UsesIn(b.body, c)]
<1>1. \A b \in EBlocks : UsesIn(b.body, c) \in Nat
  BY CountTypes DEF EBlocks
<1>2. DOMAIN f = blocks /\ DOMAIN g = blocks \cup {block}
  OBVIOUS
<1>3. /\ \A b \in blocks : f[b] \in Int /\ g[b] = f[b]
      /\ g[block] = UsesIn(block.body, c) /\ g[block] \in Nat
  BY <1>1
<1> HIDE DEF f, g
<1>4. SumFunctionOnSet(f, blocks) \in Int
  BY <1>3, SumType
<1>5. UsesOf(blocks, c) \in Int
  BY <1>2, <1>4 DEF UsesOf, SumFunction, f
<1>6. CASE block \in blocks
  <2>1. blocks \cup {block} = blocks
    BY <1>6
  <2>2. UsesOf(blocks \cup {block}, c) = UsesOf(blocks, c)
    BY <2>1
  <2> QED BY <1>3, <1>5, <2>2
<1>7. CASE block \notin blocks
  <2>1. g[block] \in Int
    BY <1>3
  <2>2. SumFunction(g) = SumFunction(f) + g[block]
    BY <1>2, <1>3, <1>7, <2>1, SumGrows
  <2> QED BY <1>3, <1>5, <2>2 DEF UsesOf, f, g
<1> QED BY <1>6, <1>7

LEMMA ChargesStore ==
    ASSUME NEW blocks \in SUBSET ECBlocks, IsFiniteSet(blocks),
           NEW block \in ECBlocks, NEW c \in Commits
    PROVE  /\ ChargesOf(blocks, c) \in Int
           /\ block \notin blocks =>
                  ChargesOf(blocks \cup {block}, c)
                      = ChargesOf(blocks, c) + ChargesIn(block.entries, c)
<1> DEFINE f == [b \in blocks |-> ChargesIn(b.entries, c)]
           g == [b \in blocks \cup {block} |-> ChargesIn(b.entries, c)]
<1>1. \A b \in ECBlocks : ChargesIn(b.entries, c) \in Int
  BY CountTypes DEF ECBlocks
<1>2. DOMAIN f = blocks /\ DOMAIN g = blocks \cup {block}
  OBVIOUS
<1>3. /\ \A b \in blocks : f[b] \in Int /\ g[b] = f[b]
      /\ g[block] = ChargesIn(block.entries, c) /\ g[block] \in Int
  BY <1>1
<1> HIDE DEF f, g
<1>4. SumFunctionOnSet(f, blocks) \in Int
  BY <1>3, SumType
<1>5. ChargesOf(blocks, c) \in Int
  BY <1>2, <1>4 DEF ChargesOf, SumFunction, f
<1>6. ASSUME block \notin blocks
      PROVE  ChargesOf(blocks \cup {block}, c)
                 = ChargesOf(blocks, c) + ChargesIn(block.entries, c)
  <2>1. SumFunction(g) = SumFunction(f) + g[block]
    BY <1>2, <1>3, <1>6, SumGrows
  <2> QED BY <1>3, <2>1 DEF ChargesOf, f, g
<1> QED BY <1>5, <1>6

\* All the counts of Covered are numbers.
Typed == TypeInv /\ IsFiniteSet(ecDB)

LEMMA CoveredTypes ==
    ASSUME Typed, NEW c \in Commits
    PROVE  /\ UsesOf(eDB, c) \in Int /\ ChargesOf(ecDB, c) \in Int
           /\ OpenUses(c) \in Nat /\ PendingUses(plist, idx, c) \in Nat
           /\ Waiting(c) \in Nat /\ ChargesIn(ecNext, c) \in Nat
           /\ PendingCharges(plist, idx, c) \in Nat
           /\ CommitMsg[c].entry \in Entries /\ HomeOf(c) \in Chains
           /\ eNext[HomeOf(c)].body \in Seq(EBEntries)
<1>1. CommitMsg[c].entry \in Entries /\ HomeOf(c) \in Chains
  BY ConstantTypes DEF HomeOf
<1>2. eNext[HomeOf(c)].body \in Seq(EBEntries)
  BY <1>1 DEF Typed, TypeInv, TypeOK, OpenEBlocks
<1>3. /\ eDB \in SUBSET EBlocks /\ IsFiniteSet(eDB) /\ ecDB \in SUBSET ECBlocks
      /\ IsFiniteSet(ecDB) /\ plist \in Seq(Items) /\ ecNext \in Seq(ECEntries)
  BY DEF Typed, TypeInv, TypeOK, FiniteDB
<1>4. OpenUses(c) \in Nat
  BY <1>2, CountTypes DEF OpenUses
<1>5. /\ PendingUses(plist, idx, c) \in Nat /\ ChargesIn(ecNext, c) \in Nat
      /\ PendingCharges(plist, idx, c) \in Nat
  BY <1>3, CountTypes
<1>6. UsesOf(eDB, c) \in Int
  <2>1. \A b \in eDB : UsesIn(b.body, c) \in Int
    BY <1>3, CountTypes DEF EBlocks
  <2> DEFINE f == [b \in eDB |-> UsesIn(b.body, c)]
  <2>2. DOMAIN f = eDB /\ \A b \in eDB : f[b] \in Int
    BY <2>1
  <2> HIDE DEF f
  <2> QED BY <1>3, <2>2, SumType DEF UsesOf, SumFunction, f
<1>7. ChargesOf(ecDB, c) \in Int
  <2>1. \A b \in ecDB : ChargesIn(b.entries, c) \in Int
    BY <1>3, CountTypes DEF ECBlocks
  <2> DEFINE f == [b \in ecDB |-> ChargesIn(b.entries, c)]
  <2>2. DOMAIN f = ecDB /\ \A b \in ecDB : f[b] \in Int
    BY <2>1
  <2> HIDE DEF f
  <2> QED BY <1>3, <2>2, SumType DEF ChargesOf, SumFunction, f
<1>8. Waiting(c) \in Nat
  BY DEF Waiting
<1> QED BY <1>1, <1>2, <1>4, <1>5, <1>6, <1>7, <1>8

LEMMA InitSpent == Init => Spent
<1> SUFFICES ASSUME Init, NEW c \in Commits PROVE Covered(c)
  BY DEF Init, Spent, Sealing
<1>1. HomeOf(c) \in Chains /\ CommitMsg[c].entry \in Entries /\ c # None
  BY ConstantTypes DEF HomeOf
<1>2. OpenUses(c) = 0
  BY <1>1, EmptyCounts DEF Init, NewEBlock, OpenUses
<1>3. Waiting(c) = 0
  BY <1>1 DEF Init, Waiting
<1>4. UsesOf(eDB, c) = 0
  <2>1. DOMAIN [b \in {} |-> UsesIn(b.body, c)] = {}
    OBVIOUS
  <2> QED BY <2>1, SumEmpty DEF Init, UsesOf, SumFunction
<1>5. PendingUses(plist, idx, c) = 0 /\ PendingCharges(plist, idx, c) = 0
  <2>1. plist \in Seq(Items) /\ idx \in Nat /\ idx > Len(plist)
    BY DEF Init
  <2> QED BY <2>1, NothingPending
<1>6. Typed
  BY InitType, InitReplayed DEF Typed, Replayed
<1>7. ChargesOf(ecDB, c) = 0
  <2> DEFINE f == [b \in ecDB |-> ChargesIn(b.entries, c)]
  <2>1. ChargesIn(GenesisECEntries, c) = 0
    <3>1. {i \in DOMAIN GenesisECEntries :
              /\ GenesisECEntries[i].type \in CommitKinds
              /\ GenesisECEntries[i].msg = c} = {}
      BY GenesisEntries
    <3> QED BY <3>1, FS_EmptySet DEF ChargesIn
  <2>2. DOMAIN f = ecDB /\ \A b \in ecDB : f[b] = 0
    BY <2>1 DEF Init, GenesisEC
  <2>3. IsFiniteSet(ecDB)
    BY <1>6 DEF Typed
  <2> HIDE DEF f
  <2> QED BY <2>2, <2>3, SumZero DEF ChargesOf, SumFunction, f
<1>8. ChargesIn(ecNext, c) \in Nat
  BY <1>6, CoveredTypes
<1> QED BY <1>2, <1>3, <1>4, <1>5, <1>7, <1>8 DEF Covered

\* Collecting: the message listed carries its charge, or takes its commit from
\* the map.
Collects(item) ==
    /\ pc \in Collecting /\ pc' \notin Sealing
    /\ plist' = Append(plist, item)
    /\ \A d \in Chains : eNext'[d].body \in {eNext[d].body, <<>>}
    /\ \A c \in Commits :
           Waiting(c)' + (IF item.by = c THEN 1 ELSE 0)
               <= Waiting(c) + (IF IsCharge(item, c) THEN 1 ELSE 0)
    /\ UNCHANGED <<eDB, ecDB, ecNext, idx, ecLost>>

LEMMA CollectSpent ==
    ASSUME Typed, Typed', Ledger, Spent, NEW item, Collects(item) PROVE Spent'
<1>0. ecLost' = ecLost /\ pc' \notin Sealing /\ idx = 1
  BY DEF Collects, Ledger
<1> SUFFICES ASSUME ~ecLost, NEW c \in Commits PROVE Covered(c)'
  BY <1>0 DEF Spent
<1> DEFINE u == IF item.by = c THEN 1 ELSE 0
           v == IF IsCharge(item, c) THEN 1 ELSE 0
<1>1. Covered(c) /\ u \in Nat /\ v \in Nat
  BY DEF Spent
<1>2. plist \in Seq(Items)
  BY DEF Typed, TypeInv, TypeOK
<1>3. /\ PendingUses(plist, idx, c)' = PendingUses(plist, idx, c) + u
      /\ PendingCharges(plist, idx, c)' = PendingCharges(plist, idx, c) + v
  BY <1>0, <1>2, PendingAppend DEF Collects
<1>4. /\ UsesOf(eDB, c)' = UsesOf(eDB, c)
      /\ ChargesOf(ecDB, c)' = ChargesOf(ecDB, c)
      /\ ChargesIn(ecNext, c)' = ChargesIn(ecNext, c)
      /\ Waiting(c)' + u <= Waiting(c) + v
  BY DEF Collects
<1>5. /\ UsesOf(eDB, c) \in Int /\ ChargesOf(ecDB, c) \in Int
      /\ OpenUses(c) \in Nat /\ PendingUses(plist, idx, c) \in Nat
      /\ Waiting(c) \in Nat /\ ChargesIn(ecNext, c) \in Nat
      /\ PendingCharges(plist, idx, c) \in Nat /\ HomeOf(c) \in Chains
  BY CoveredTypes
<1>6. OpenUses(c)' <= OpenUses(c) /\ OpenUses(c)' \in Nat
  <2>1. OpenUses(c)' \in {OpenUses(c), 0}
    BY <1>5, EmptyCounts DEF OpenUses, Collects
  <2> QED BY <1>5, <2>1
<1>7. Waiting(c)' \in Nat
  BY DEF Waiting
<1> HIDE DEF u, v
<1> QED BY <1>1, <1>3, <1>4, <1>5, <1>6, <1>7 DEF Covered

\* Steps that leave the list alone and at most empty an open block.
Opens ==
    /\ pc' \notin Sealing
    /\ \A d \in Chains : eNext'[d].body \in {eNext[d].body, <<>>}
    /\ UNCHANGED <<eDB, ecDB, ecNext, plist, idx, commitEntryMap,
                   commitChainMap, ecLost>>

LEMMA OpenSpent ==
    ASSUME Typed, Spent, Opens PROVE Spent'
<1>0. ecLost' = ecLost /\ pc' \notin Sealing
  BY DEF Opens
<1> SUFFICES ASSUME ~ecLost, NEW c \in Commits PROVE Covered(c)'
  BY <1>0 DEF Spent
<1>1. Covered(c)
  BY DEF Spent
<1>2. /\ UsesOf(eDB, c)' = UsesOf(eDB, c)
      /\ ChargesOf(ecDB, c)' = ChargesOf(ecDB, c)
      /\ ChargesIn(ecNext, c)' = ChargesIn(ecNext, c)
      /\ PendingUses(plist, idx, c)' = PendingUses(plist, idx, c)
      /\ PendingCharges(plist, idx, c)' = PendingCharges(plist, idx, c)
      /\ Waiting(c)' = Waiting(c)
  BY DEF Opens, Waiting
<1>3. /\ UsesOf(eDB, c) \in Int /\ ChargesOf(ecDB, c) \in Int
      /\ OpenUses(c) \in Nat /\ PendingUses(plist, idx, c) \in Nat
      /\ Waiting(c) \in Nat /\ ChargesIn(ecNext, c) \in Nat
      /\ PendingCharges(plist, idx, c) \in Nat /\ HomeOf(c) \in Chains
  BY CoveredTypes
<1>4. OpenUses(c)' \in {OpenUses(c), 0}
  BY <1>3, EmptyCounts DEF OpenUses, Opens
<1>5. OpenUses(c)' <= OpenUses(c) /\ OpenUses(c)' \in Nat
  BY <1>3, <1>4
<1> QED BY <1>1, <1>2, <1>3, <1>5 DEF Covered

\* A commit is listed when it enters its map, and a reveal when it takes the
\* commit out: the two kinds of commit never share a map.
LEMMA CommitSpent ==
    ASSUME Typed, Typed', Ledger, Spent, NEW c \in Commits,
           processCommitEntry(c) \/ processCommitChain(c)
    PROVE  Spent'
<1> DEFINE item == Item(CommitMsg[c].kind, c, None, 0, eCreditMap')
           e == CommitMsg[c].entry
<1>1. /\ item.by = None /\ item.type \in CommitKinds /\ item.msg = c
      /\ e \in Entries /\ None \notin Commits
  BY ConstantTypes DEF Item
<1>2. /\ plist' = Append(plist, item) /\ pc = "serve" /\ pc' = pc
      /\ UNCHANGED <<eDB, ecDB, ecNext, idx, ecLost, eNext>>
  BY DEF processCommitEntry, processCommitChain, ChargeCommit,
     ListMessage, AddMyProcessListItem, chains, disk, open, credit
<1>3. \/ /\ commitEntryMap[e] = None /\ UNCHANGED commitChainMap
         /\ commitEntryMap' = [commitEntryMap EXCEPT ![e] = c]
      \/ /\ commitChainMap[e] = None /\ UNCHANGED commitEntryMap
         /\ commitChainMap' = [commitChainMap EXCEPT ![e] = c]
  BY DEF processCommitEntry, processCommitChain, CommitEntryAllowed,
     CommitChainAllowed
<1>4. /\ commitEntryMap \in [Entries -> Commits \cup {None}]
      /\ commitChainMap \in [Entries -> Commits \cup {None}]
  BY DEF Typed, TypeInv, TypeOK
<1> HIDE DEF item
<1>5. ASSUME NEW x \in Commits
      PROVE  Waiting(x)' + (IF item.by = x THEN 1 ELSE 0)
                 <= Waiting(x) + (IF IsCharge(item, x) THEN 1 ELSE 0)
  <2>1. item.by # x /\ (IsCharge(item, x) <=> x = c)
    BY <1>1 DEF IsCharge
  <2>2. Waiting(x) \in {0, 1} /\ Waiting(x)' \in {0, 1}
    BY DEF Waiting
  <2>3. x # c => Waiting(x)' = Waiting(x)
    BY <1>1, <1>3, <1>4, ConstantTypes DEF Waiting
  <2> QED BY <2>1, <2>2, <2>3
<1>6. Collects(item)
  BY <1>2, <1>5 DEF Collects, Collecting, Sealing
<1> QED BY <1>6, CollectSpent

LEMMA AcceptSpent ==
    ASSUME Typed, Typed', Ledger, Bought, Spent, NEW e \in Entries,
           pc \in Collecting, pc' = pc, AcceptEntry(e) \/ AcceptChain(e),
           UNCHANGED <<eDB, ecDB, ecNext, idx, ecLost>>
    PROVE  Spent'
<1>0. /\ commitEntryMap \in [Entries -> Commits \cup {None}]
      /\ commitChainMap \in [Entries -> Commits \cup {None}]
      /\ None \notin Commits
  BY ConstantTypes DEF Typed, TypeInv, TypeOK
<1>1. PICK type \in Reveals, by \in Commits :
         /\ plist' = Append(plist, Item(type, e, by, minute, eCreditMap))
         /\ CommitMsg[by].entry = e
         /\ \/ /\ commitEntryMap[e] = by /\ commitChainMap[e] # by
               /\ commitEntryMap' = [commitEntryMap EXCEPT ![e] = None]
               /\ UNCHANGED commitChainMap
            \/ /\ commitChainMap[e] = by /\ commitEntryMap[e] # by
               /\ commitChainMap' = [commitChainMap EXCEPT ![e] = None]
               /\ UNCHANGED commitEntryMap
  <2>1. Committed
    BY DEF Bought
  <2>2. CASE AcceptEntry(e)
    <3>1. commitEntryMap[e] \in Commits
      BY <1>0, <2>2 DEF AcceptEntry, AcceptsEntry, HasEntryCommit
    <3>2. /\ CommitMsg[commitEntryMap[e]].entry = e
          /\ commitChainMap[e] # commitEntryMap[e]
      BY <1>0, <2>1, <3>1 DEF Committed
    <3> QED BY <2>2, <3>1, <3>2 DEF AcceptEntry, ListMessage,
               AddMyProcessListItem, Reveals
  <2>3. CASE AcceptChain(e)
    <3>1. commitChainMap[e] \in Commits /\ commitEntryMap[e] = None
      BY <1>0, <2>3 DEF AcceptChain, AcceptsChain, HasChainCommit, HasEntryCommit
    <3>2. /\ CommitMsg[commitChainMap[e]].entry = e
          /\ commitEntryMap[e] # commitChainMap[e]
      BY <1>0, <2>1, <3>1 DEF Committed
    <3> QED BY <2>3, <3>1, <3>2 DEF AcceptChain, ListMessage,
               AddMyProcessListItem, Reveals
  <2> QED BY <2>2, <2>3
<1> DEFINE item == Item(type, e, by, minute, eCreditMap)
<1>2. item.by = by /\ item.type \notin CommitKinds
  BY DEF Item, Reveals, CommitKinds
<1> HIDE DEF item
<1>3. ASSUME NEW x \in Commits
      PROVE  Waiting(x)' + (IF item.by = x THEN 1 ELSE 0)
                 <= Waiting(x) + (IF IsCharge(item, x) THEN 1 ELSE 0)
  <2>1. ~IsCharge(item, x)
    BY <1>2 DEF IsCharge
  <2>2. Waiting(x) \in {0, 1} /\ Waiting(x)' \in {0, 1}
    BY DEF Waiting
  <2>3. x = by => Waiting(x)' = 0 /\ Waiting(x) = 1
    BY <1>0, <1>1 DEF Waiting
  <2>4. x # by => Waiting(x)' <= Waiting(x)
    <3>1. CommitMsg[x].entry \in Entries
      BY ConstantTypes
    <3> QED BY <1>0, <1>1, <3>1 DEF Waiting
  <2> QED BY <1>2, <2>1, <2>2, <2>3, <2>4
<1>4. \A c \in Chains : eNext'[c].body \in {eNext[c].body, <<>>}
  BY RevealOutcome DEF Typed
<1>5. Collects(item)
  BY <1>1, <1>3, <1>4 DEF Collects, Collecting, Sealing, item
<1> QED BY <1>5, CollectSpent

\* A purchase or an end of minute is listed: neither uses nor charges.
LEMMA PlainSpent ==
    ASSUME Typed, Typed', Ledger, Spent, pc \in Collecting, pc' \notin Sealing,
           NEW item, plist' = Append(plist, item), item.by = None,
           item.type \notin CommitKinds,
           UNCHANGED <<eDB, ecDB, ecNext, idx, ecLost, eNext, commitEntryMap,
                       commitChainMap>>
    PROVE  Spent'
<1>1. ASSUME NEW x \in Commits
      PROVE  Waiting(x)' + (IF item.by = x THEN 1 ELSE 0)
                 <= Waiting(x) + (IF IsCharge(item, x) THEN 1 ELSE 0)
  <2>1. ~IsCharge(item, x) /\ item.by # x
    BY ConstantTypes DEF IsCharge
  <2>2. Waiting(x)' = Waiting(x) /\ Waiting(x) \in Nat
    BY DEF Waiting
  <2> QED BY <2>1, <2>2
<1>2. Collects(item)
  BY <1>1 DEF Collects
<1> QED BY <1>2, CollectSpent

LEMMA RevealSpent ==
    ASSUME Typed, Typed', Ledger, Bought, Spent, NEW e \in Entries,
           pc \in Collecting, pc' = pc,
           \/ AcceptEntry(e) \/ AcceptChain(e) \/ RegisterOnly(e)
           \/ UNCHANGED <<plist, commitEntryMap, commitChainMap, chains>>,
           UNCHANGED <<eDB, ecDB, ecNext, idx, ecLost>>
    PROVE  Spent'
<1>1. CASE AcceptEntry(e) \/ AcceptChain(e)
  BY <1>1, AcceptSpent
<1>2. CASE \/ RegisterOnly(e)
           \/ UNCHANGED <<plist, commitEntryMap, commitChainMap, chains>>
  <2>1. \A c \in Chains : eNext'[c].body \in {eNext[c].body, <<>>}
    BY <1>2, RevealOutcome DEF Typed
  <2>2. UNCHANGED <<plist, commitEntryMap, commitChainMap>>
    BY <1>2 DEF RegisterOnly
  <2>3. Opens
    BY <2>1, <2>2 DEF Opens, Collecting, Sealing
  <2> QED BY <2>3, OpenSpent
<1> QED BY <1>1, <1>2

LEMMA ServeSpent ==
    ASSUME Typed, Typed', Ledger, Bought, Spent, Serve PROVE Spent'
<1>1. ASSUME NEW c \in Commits, processCommitEntry(c) \/ processCommitChain(c)
      PROVE  Spent'
  BY <1>1, CommitSpent
<1>2. ASSUME NEW t \in Txs, processBuyEntryCredit(t) PROVE Spent'
  <2> DEFINE item == Item("factoidTX", t, None, 0, eCreditMap')
  <2>1. item.by = None /\ item.type \notin CommitKinds
    BY DEF Item, CommitKinds
  <2>2. /\ plist' = Append(plist, item) /\ pc = "serve" /\ pc' = pc
        /\ UNCHANGED <<eDB, ecDB, ecNext, idx, ecLost, eNext, commitEntryMap,
                       commitChainMap>>
    BY <1>2 DEF processBuyEntryCredit, ListMessage, AddMyProcessListItem,
       chains, disk, open, credit
  <2> HIDE DEF item
  <2> QED BY <2>1, <2>2, PlainSpent DEF Collecting, Sealing
<1>3. ASSUME \/ \E c \in Commits : RefuseCommit(c)
             \/ \E t \in Txs : RefuseFactoidTX(t)
      PROVE  Spent'
  <2>1. Opens
    BY <1>3 DEF RefuseCommit, RefuseFactoidTX, chains, ledger, disk, open,
       credit, Opens, Sealing
  <2> QED BY <2>1, OpenSpent
<1>4. ASSUME NEW e \in Entries, processRevealEntry(e) PROVE Spent'
  <2>1. /\ pc = "serve" /\ pc' = pc
        /\ UNCHANGED <<eDB, ecDB, ecNext, idx, ecLost>>
        /\ \/ AcceptEntry(e) \/ AcceptChain(e) \/ RegisterOnly(e)
           \/ UNCHANGED <<plist, commitEntryMap, commitChainMap, chains>>
    BY <1>4 DEF processRevealEntry, disk, open, credit
  <2> QED BY <2>1, RevealSpent DEF Collecting
<1> QED BY <1>1, <1>2, <1>3, <1>4 DEF Serve

LEMMA ClockSpent ==
    ASSUME Typed, Typed', Ledger, Spent,
           EndOfMinute \/ EndOfMinute10 \/ EndProcessList
    PROVE  Spent'
<1>1. CASE EndOfMinute10
  <2>1. Opens
    BY <1>1 DEF EndOfMinute10, chains, ledger, disk, open, credit, pools,
       Opens, Sealing
  <2> QED BY <2>1, OpenSpent
<1>2. CASE EndOfMinute \/ EndProcessList
  <2>1. PICK at : plist' = Append(plist, Item("EOM", None, None, at, eCreditMap))
    BY <1>2 DEF EndOfMinute, EndProcessList, AddMyProcessListItem
  <2> DEFINE item == Item("EOM", None, None, at, eCreditMap)
  <2>2. item.by = None /\ item.type \notin CommitKinds
    BY DEF Item, CommitKinds
  <2>3. /\ pc \in Collecting /\ pc' \notin Sealing
        /\ UNCHANGED <<eDB, ecDB, ecNext, idx, ecLost, eNext, commitEntryMap,
                       commitChainMap>>
    BY <1>2 DEF EndOfMinute, EndProcessList, chains, disk, open, credit, pools,
       Collecting, Sealing
  <2> HIDE DEF item
  <2> QED BY <2>1, <2>2, <2>3, PlainSpent DEF item
<1> QED BY <1>1, <1>2

\* Building: the item at idx leaves the list and arrives in an open block.
Builds ==
    /\ pc' \notin Sealing
    /\ idx \in DOMAIN plist /\ idx' = idx + 1
    /\ \A c \in Commits :
           /\ OpenUses(c)' \in Nat /\ ChargesIn(ecNext, c)' \in Nat
           /\ OpenUses(c)' <= OpenUses(c) + (IF plist[idx].by = c THEN 1 ELSE 0)
           /\ ChargesIn(ecNext, c)' >= ChargesIn(ecNext, c)
                  + (IF IsCharge(plist[idx], c) THEN 1 ELSE 0)
    /\ UNCHANGED <<eDB, ecDB, plist, commitEntryMap, commitChainMap, ecLost>>

LEMMA BuildsSpent ==
    ASSUME Typed, Spent, Builds PROVE Spent'
<1>0. ecLost' = ecLost /\ pc' \notin Sealing
  BY DEF Builds
<1> SUFFICES ASSUME ~ecLost, NEW c \in Commits PROVE Covered(c)'
  BY <1>0 DEF Spent
<1> DEFINE u == IF plist[idx].by = c THEN 1 ELSE 0
           v == IF IsCharge(plist[idx], c) THEN 1 ELSE 0
<1>1. Covered(c) /\ u \in Nat /\ v \in Nat
  BY DEF Spent
<1>2. plist \in Seq(Items)
  BY DEF Typed, TypeInv, TypeOK
<1>3. /\ PendingUses(plist, idx, c) = PendingUses(plist, idx + 1, c) + u
      /\ PendingCharges(plist, idx, c) = PendingCharges(plist, idx + 1, c) + v
      /\ PendingUses(plist, idx + 1, c) \in Nat
      /\ PendingCharges(plist, idx + 1, c) \in Nat
  BY <1>2, PendingNext, CountTypes DEF Builds
<1>4. /\ PendingUses(plist, idx, c)' = PendingUses(plist, idx + 1, c)
      /\ PendingCharges(plist, idx, c)' = PendingCharges(plist, idx + 1, c)
      /\ UsesOf(eDB, c)' = UsesOf(eDB, c)
      /\ ChargesOf(ecDB, c)' = ChargesOf(ecDB, c)
      /\ Waiting(c)' = Waiting(c)
  BY DEF Builds, Waiting
<1>5. /\ UsesOf(eDB, c) \in Int /\ ChargesOf(ecDB, c) \in Int
      /\ OpenUses(c) \in Nat /\ Waiting(c) \in Nat
      /\ ChargesIn(ecNext, c) \in Nat
  BY CoveredTypes
<1>6. /\ OpenUses(c)' \in Nat /\ ChargesIn(ecNext, c)' \in Nat
      /\ OpenUses(c)' <= OpenUses(c) + u
      /\ ChargesIn(ecNext, c)' >= ChargesIn(ecNext, c) + v
  BY DEF Builds
<1> HIDE DEF u, v
<1> QED BY <1>1, <1>3, <1>4, <1>5, <1>6 DEF Covered

LEMMA BuildSpent ==
    ASSUME Typed, Typed', Control, Bought, Spent, BuildItem PROVE Spent'
<1>0. /\ eNext \in [Chains -> OpenEBlocks] /\ plist \in Seq(Items) /\ idx \in Nat
      /\ ecNext \in Seq(ECEntries) /\ idx \in Nat \ {0}
      /\ \A d \in Chains : eNext[d].body \in Seq(EBEntries)
  BY DEF Typed, TypeInv, TypeOK, OpenEBlocks
<1>1. ASSUME NEW c \in Commits
      PROVE  /\ OpenUses(c) \in Nat /\ ChargesIn(ecNext, c) \in Nat
             /\ OpenUses(c)' \in Nat /\ ChargesIn(ecNext, c)' \in Nat
             /\ HomeOf(c) \in Chains /\ c # None
  <2>1. OpenUses(c) \in Nat /\ ChargesIn(ecNext, c) \in Nat /\ HomeOf(c) \in Chains
    BY CoveredTypes
  <2>2. eNext'[HomeOf(c)].body \in Seq(EBEntries) /\ ecNext' \in Seq(ECEntries)
    BY <2>1 DEF Typed, TypeInv, TypeOK, OpenEBlocks
  <2>3. OpenUses(c)' \in Nat /\ ChargesIn(ecNext, c)' \in Nat
    BY <2>2, CountTypes DEF OpenUses
  <2> QED BY <2>1, <2>3, ConstantTypes
<1>2. CASE buildCommit \/ buildIncreaseBalance
  <2> DEFINE item == plist[idx]
  <2>1. PICK delta : ecNext' = Append(ecNext, ECEntry(item.type, item.msg, delta, 0))
    BY <1>2 DEF buildCommit, buildIncreaseBalance, AddECEntry
  <2>2. /\ idx \in DOMAIN plist /\ idx' = idx + 1 /\ pc' \notin Sealing
        /\ item.type \in CommitKinds \cup {"factoidTX"}
        /\ UNCHANGED <<eDB, ecDB, plist, commitEntryMap, commitChainMap, ecLost,
                       eNext>>
    BY <1>0, <1>2 DEF buildCommit, buildIncreaseBalance, Building, chains,
       ledger, pools, disk, Sealing
  <2>3. ASSUME NEW c \in Commits
        PROVE  /\ ChargesIn(ecNext', c) = ChargesIn(ecNext, c)
                      + (IF IsCharge(item, c) THEN 1 ELSE 0)
               /\ OpenUses(c)' = OpenUses(c) /\ item.by # c
    <3> DEFINE x == ECEntry(item.type, item.msg, delta, 0)
    <3>1. IsCharge(x, c) <=> IsCharge(item, c)
      BY DEF IsCharge, ECEntry
    <3>2. item.by = None
      BY <1>0, <2>2 DEF Items, CommitKinds, Reveals
    <3> HIDE DEF x
    <3>3. ChargesIn(ecNext', c) = ChargesIn(ecNext, c)
                      + (IF IsCharge(x, c) THEN 1 ELSE 0)
      BY <1>0, <2>1, ChargesAppend DEF x
    <3> QED BY <1>1, <2>2, <3>1, <3>2, <3>3 DEF OpenUses
  <2> HIDE DEF item
  <2>4. ASSUME NEW c \in Commits
        PROVE  /\ OpenUses(c)' <= OpenUses(c) + (IF item.by = c THEN 1 ELSE 0)
               /\ ChargesIn(ecNext, c)' >= ChargesIn(ecNext, c)
                      + (IF IsCharge(item, c) THEN 1 ELSE 0)
    BY <1>1, <2>3
  <2>5. Builds
    BY <1>1, <2>2, <2>4 DEF Builds, item
  <2> QED BY <2>5, BuildsSpent
<1>3. CASE buildRevealEntry \/ buildFirstEntry
  <2> DEFINE item == plist[idx]
             ch == ChainOf[item.msg]
             x == EBEntry(item.msg, item.by, item.at)
  <2>1. /\ item.type \in Reveals /\ idx \in DOMAIN plist
        /\ AddEBEntry(ch, x) /\ idx' = idx + 1 /\ pc' \notin Sealing
        /\ UNCHANGED <<eDB, ecDB, plist, commitEntryMap, commitChainMap, ecLost,
                       ecNext>>
    BY <1>0, <1>3 DEF buildRevealEntry, buildFirstEntry, Building, Reveals,
       Control, ledger, pools, open, credit, Sealing
  <2>2. ch \in Chains /\ x.by = item.by
    <3>1. PaidBy(item.msg, item.by)
      BY <2>1 DEF Bought, PaidItems
    <3> QED BY <3>1, ConstantTypes DEF PaidBy, EBEntry
  <2> HIDE DEF x, ch
  <2>3. \A d \in Chains : eNext'[d].body = IF d = ch THEN Append(eNext[d].body, x)
                                                    ELSE eNext[d].body
    BY <1>0, <2>1, <2>2 DEF AddEBEntry, OpenEBlocks
  <2>4. ASSUME NEW c \in Commits
        PROVE  OpenUses(c)' <= OpenUses(c) + (IF item.by = c THEN 1 ELSE 0)
    <3>1. UsesIn(Append(eNext[HomeOf(c)].body, x), c)
              = UsesIn(eNext[HomeOf(c)].body, c) + (IF item.by = c THEN 1 ELSE 0)
      BY <1>0, <1>1, <2>2, UsesAppend
    <3>2. \/ OpenUses(c)' = OpenUses(c)
          \/ OpenUses(c)' = OpenUses(c) + (IF item.by = c THEN 1 ELSE 0)
      BY <1>1, <2>3, <3>1 DEF OpenUses
    <3> QED BY <1>1, <3>2
  <2>5. ASSUME NEW c \in Commits
        PROVE  ChargesIn(ecNext, c)' >= ChargesIn(ecNext, c)
                   + (IF IsCharge(item, c) THEN 1 ELSE 0)
    <3>1. ~IsCharge(item, c) /\ ChargesIn(ecNext, c)' = ChargesIn(ecNext, c)
      BY <2>1 DEF IsCharge, Reveals, CommitKinds
    <3> QED BY <1>1, <3>1
  <2>6. Builds
    BY <1>1, <2>1, <2>4, <2>5 DEF Builds
  <2> QED BY <2>6, BuildsSpent
<1>4. CASE buildRevealChain
  <2>1. PICK ch \in Chains : eNext' = [eNext EXCEPT ![ch] = initEChainFromDB(ch)]
    <3>1. ChainOf[plist[idx].msg] \in Chains
      BY <1>4, BuiltItem, ConstantTypes DEF buildRevealChain, Building, Reveals,
         Typed
    <3> QED BY <1>4, <3>1 DEF buildRevealChain
  <2>2. \A d \in Chains : eNext'[d].body \in {eNext[d].body, <<>>}
    BY <1>0, <2>1 DEF initEChainFromDB
  <2>3. Opens
    BY <1>4, <2>2 DEF buildRevealChain, ledger, pools, open, credit, Opens,
       Sealing
  <2> QED BY <2>3, OpenSpent
<1>5. CASE buildEndOfMinute
  <2> DEFINE x == EBEntry(None, None, plist[idx].at)
             y == ECEntry("minute", None, Zero, plist[idx].at)
  <2>1. /\ \A d \in Chains : eNext'[d].body \in {eNext[d].body, Append(eNext[d].body, x)}
        /\ ecNext' = Append(ecNext, y)
    BY <1>0, <1>5 DEF buildEndOfMinute, AddECEntry, OpenEBlocks
  <2>2. /\ idx \in DOMAIN plist /\ idx' = idx + 1 /\ pc' \notin Sealing
        /\ plist[idx].type = "EOM"
        /\ UNCHANGED <<eDB, ecDB, plist, commitEntryMap, commitChainMap, ecLost>>
    BY <1>0, <1>5 DEF buildEndOfMinute, Building, ledger, pools, disk, Sealing
  <2>3. x.by = None /\ y.type \notin CommitKinds
    BY DEF EBEntry, ECEntry, CommitKinds
  <2> HIDE DEF x, y
  <2>4. ASSUME NEW c \in Commits
        PROVE  /\ OpenUses(c)' <= OpenUses(c)
                      + (IF plist[idx].by = c THEN 1 ELSE 0)
               /\ ChargesIn(ecNext, c)' >= ChargesIn(ecNext, c)
                      + (IF IsCharge(plist[idx], c) THEN 1 ELSE 0)
    <3>1. UsesIn(Append(eNext[HomeOf(c)].body, x), c)
              = UsesIn(eNext[HomeOf(c)].body, c) + (IF x.by = c THEN 1 ELSE 0)
      BY <1>0, <1>1, UsesAppend
    <3>2. ChargesIn(Append(ecNext, y), c)
              = ChargesIn(ecNext, c) + (IF IsCharge(y, c) THEN 1 ELSE 0)
      BY <1>0, ChargesAppend
    <3>3. ~IsCharge(y, c) /\ ~IsCharge(plist[idx], c)
      BY <2>2, <2>3 DEF IsCharge, CommitKinds
    <3>4. OpenUses(c)' = OpenUses(c)
      <4>1. UsesIn(eNext[HomeOf(c)].body, c) \in Nat
        BY <1>1 DEF OpenUses
      <4>2. UsesIn(Append(eNext[HomeOf(c)].body, x), c)
                = UsesIn(eNext[HomeOf(c)].body, c)
        BY <1>1, <2>3, <3>1, <4>1
      <4> QED BY <1>1, <2>1, <4>2 DEF OpenUses
    <3> QED BY <1>1, <2>1, <3>2, <3>3, <3>4
  <2>5. Builds
    BY <1>1, <2>2, <2>4 DEF Builds
  <2> QED BY <2>5, BuildsSpent
<1> QED BY <1>2, <1>3, <1>4, <1>5 DEF BuildItem

\* Sealing: the charges are stored first, when nothing is pending, and then
\* the uses, block by block.
LEMMA ChargesSealed ==
    ASSUME Typed, Spent, newEntryCreditBlock PROVE Spent'
<1> DEFINE block == [height |-> nextHeight.ec, entries |-> ecNext]
<1>1. /\ ecDB' = ecDB \cup {block} /\ ecNext' = <<ServerIndex>>
      /\ ecLost' = (ecLost \/ block \in ecDB) /\ idx > Len(plist)
      /\ UNCHANGED <<eDB, eNext, plist, idx, commitEntryMap, commitChainMap>>
  BY DEF newEntryCreditBlock, pools, chains, ledger
<1>2. /\ block \in ECBlocks /\ block.entries = ecNext
      /\ ecDB \in SUBSET ECBlocks /\ IsFiniteSet(ecDB)
  BY DEF Typed, TypeInv, TypeOK, Heights, ECBlocks
<1> HIDE DEF block
<1>3. \A c \in Commits : ChargesIn(ecNext', c) = 0
  <2>1. \A c : {i \in DOMAIN <<ServerIndex>> :
                   /\ <<ServerIndex>>[i].type \in CommitKinds
                   /\ <<ServerIndex>>[i].msg = c} = {}
    BY DEF ServerIndex, ECEntry, CommitKinds
  <2> QED BY <1>1, <2>1, FS_EmptySet DEF ChargesIn
<1>4. ASSUME ~ecLost', NEW c \in Commits PROVE Covered(c)'
  <2>1. ~ecLost /\ block \notin ecDB
    BY <1>1, <1>4
  <2>2. ChargesOf(ecDB', c) = ChargesOf(ecDB, c) + ChargesIn(ecNext, c)
    BY <1>1, <1>2, <2>1, ChargesStore
  <2>3. /\ UsesOf(eDB, c)' = UsesOf(eDB, c) /\ OpenUses(c)' = OpenUses(c)
        /\ PendingUses(plist, idx, c)' = PendingUses(plist, idx, c)
        /\ PendingCharges(plist, idx, c)' = PendingCharges(plist, idx, c)
        /\ Waiting(c)' = Waiting(c)
    BY <1>1 DEF OpenUses, Waiting
  <2>4. /\ UsesOf(eDB, c) \in Int /\ ChargesOf(ecDB, c) \in Int
        /\ OpenUses(c) \in Nat /\ PendingUses(plist, idx, c) \in Nat
        /\ Waiting(c) \in Nat /\ ChargesIn(ecNext, c) \in Nat
        /\ PendingCharges(plist, idx, c) \in Nat
    BY CoveredTypes
  <2>5. Covered(c)
    BY <2>1 DEF Spent
  <2>6. ChargesIn(ecNext', c) = 0
    BY <1>3
  <2> QED BY <2>2, <2>3, <2>4, <2>5, <2>6 DEF Covered
<1> QED BY <1>1, <1>3, <1>4 DEF Spent

LEMMA UsesSealed ==
    ASSUME Typed, Typed', Bought, Spent, NEW d \in Chains, newEntryBlock(d)
    PROVE  Spent'
<1>0. /\ eNext \in [Chains -> OpenEBlocks] /\ plist \in Seq(Items)
      /\ idx \in Nat
  BY DEF Typed, TypeInv, TypeOK
<1>1. /\ pc = "entry" /\ pc' = "entry"
      /\ UNCHANGED <<ecDB, ecNext, plist, idx, commitEntryMap, commitChainMap,
                     ecLost>>
  BY DEF newEntryBlock, VisitChain, pools, ledger, credit
<1>2. idx > Len(plist) /\ \A c \in Commits : ChargesIn(ecNext, c) = 0
  BY <1>1 DEF Spent, Sealing
<1>3. CASE eNext[d].body = <<>>
  <2>1. UNCHANGED <<eDB, eNext>>
    BY <1>3 DEF newEntryBlock
  <2> QED BY <1>1, <1>2, <2>1 DEF Spent, Covered, OpenUses, Waiting
<1>4. CASE eNext[d].body # <<>>
  <2>1. PICK block : /\ block.body = eNext[d].body /\ eDB' = eDB \cup {block}
                     /\ \A x \in Chains : eNext'[x].body =
                           IF x = d THEN <<>> ELSE eNext[x].body
    BY <1>0, <1>4 DEF newEntryBlock, StoreEntryBlock
  <2>2. /\ eDB \in SUBSET EBlocks /\ IsFiniteSet(eDB) /\ block \in EBlocks
        /\ PaidBody(block.body, d)
    BY <2>1 DEF Typed, TypeInv, TypeOK, FiniteDB, Bought
  <2>3. ASSUME ~ecLost, NEW c \in Commits PROVE Covered(c)'
    <3>1. /\ UsesOf(eDB, c) \in Int /\ ChargesOf(ecDB, c) \in Int
          /\ OpenUses(c) \in Nat /\ Waiting(c) \in Nat /\ HomeOf(c) \in Chains
          /\ UsesIn(block.body, c) \in Nat
      BY <2>2, CoveredTypes, CountTypes DEF EBlocks
    <3>2. UsesOf(eDB', c) <= UsesOf(eDB, c) + UsesIn(block.body, c)
      BY <2>1, <2>2, UsesStore
    <3>3. UsesIn(block.body, c) + OpenUses(c)' <= OpenUses(c) /\ OpenUses(c)' \in Nat
      <4>1. CASE HomeOf(c) = d
        BY <2>1, <3>1, <4>1, EmptyCounts DEF OpenUses
      <4>2. CASE HomeOf(c) # d
        <5>1. UsesIn(block.body, c) = 0
          BY <2>2, <4>2, UsedAtHome
        <5> QED BY <2>1, <3>1, <4>2, <5>1 DEF OpenUses
      <4> QED BY <4>1, <4>2
    <3>4. /\ PendingUses(plist, idx, c) = 0 /\ PendingCharges(plist, idx, c) = 0
          /\ PendingUses(plist, idx, c)' = 0
          /\ PendingCharges(plist, idx, c)' = 0
      BY <1>0, <1>1, <1>2, NothingPending
    <3>5. /\ ChargesIn(ecNext, c) = 0 /\ ChargesIn(ecNext, c)' = 0
          /\ ChargesOf(ecDB, c)' = ChargesOf(ecDB, c)
          /\ Waiting(c)' = Waiting(c)
      BY <1>1, <1>2 DEF Waiting
    <3>6. Covered(c)
      BY <2>3 DEF Spent
    <3>7. UsesOf(eDB', c) \in Int
      <4>1. eDB' \in SUBSET EBlocks /\ IsFiniteSet(eDB')
        BY DEF Typed, TypeInv, TypeOK, FiniteDB
      <4> QED BY <2>2, <4>1, UsesStore
    <3> QED BY <3>1, <3>2, <3>3, <3>4, <3>5, <3>6, <3>7 DEF Covered
  <2> QED BY <1>1, <1>2, <2>3 DEF Spent
<1> QED BY <1>3, <1>4

LEMMA SealSpent ==
    ASSUME Typed, Typed', Bought, Spent, SealBlock PROVE Spent'
<1>0. plist \in Seq(Items) /\ idx \in Nat
  BY DEF Typed, TypeInv, TypeOK
<1>1. CASE newAdminBlock \/ newFactoidBlock
  <2>1. /\ pc \in Sealing
        /\ UNCHANGED <<eDB, ecDB, eNext, ecNext, plist, idx, commitEntryMap,
                       commitChainMap, ecLost>>
    BY <1>1 DEF newAdminBlock, newFactoidBlock, pools, chains, ledger, credit,
       Sealing
  <2> QED BY <2>1 DEF Spent, Covered, OpenUses, Waiting
<1>2. CASE newDirectoryBlock
  <2>1. /\ pc = "entry" /\ pc' = "serve" /\ plist' = <<>> /\ idx' = 1
        /\ UNCHANGED <<eDB, ecDB, eNext, ecNext, commitEntryMap, commitChainMap,
                       ecLost>>
    BY <1>2 DEF newDirectoryBlock, pools, chains, credit
  <2>2. ASSUME ~ecLost, NEW c \in Commits PROVE Covered(c)'
    <3>1. idx > Len(plist)
      BY <2>1 DEF Spent, Sealing
    <3>2. PendingUses(plist, idx, c) = 0 /\ PendingCharges(plist, idx, c) = 0
      BY <1>0, <3>1, NothingPending
    <3>3. PendingUses(<<>>, 1, c) = 0 /\ PendingCharges(<<>>, 1, c) = 0
      <4>1. <<>> \in Seq(Items) /\ 1 > Len(<<>>)
        OBVIOUS
      <4> QED BY <4>1, NothingPending
    <3>4. Covered(c)
      BY <2>2 DEF Spent
    <3> QED BY <2>1, <3>2, <3>3, <3>4 DEF Covered, OpenUses, Waiting
  <2> QED BY <2>1, <2>2 DEF Spent, Sealing
<1> QED BY <1>1, <1>2, ChargesSealed, UsesSealed DEF SealBlock

\* A start forgets the list, the open blocks and the waiting commits: what is
\* stored balances by itself.
LEMMA RestartSpent ==
    ASSUME Typed, Spent, initProcessor PROVE Spent'
<1>1. /\ pc' \in {"serve", "panic"} /\ plist' = <<>> /\ idx' = 1 /\ ecNext' = <<>>
      /\ commitEntryMap' = [e \in Entries |-> None]
      /\ commitChainMap' = [e \in Entries |-> None]
      /\ \A d \in Chains : eNext'[d].body = <<>>
      /\ UNCHANGED <<eDB, ecDB, ecLost>>
  BY DEF initProcessor, disk, initEChainFromDB, NewEBlock
<1>2. ASSUME ~ecLost, NEW c \in Commits PROVE Covered(c)'
  <2>1. /\ UsesOf(eDB, c) \in Int /\ ChargesOf(ecDB, c) \in Int
        /\ CommitMsg[c].entry \in Entries /\ HomeOf(c) \in Chains /\ c # None
    BY CoveredTypes, ConstantTypes
  <2>2. OpenUses(c)' = 0 /\ Waiting(c)' = 0 /\ ChargesIn(ecNext, c)' = 0
    BY <1>1, <2>1, EmptyCounts DEF OpenUses, Waiting
  <2>3. PendingUses(plist, idx, c)' = 0 /\ PendingCharges(plist, idx, c)' = 0
    <3>1. <<>> \in Seq(Items) /\ 1 > Len(<<>>)
      OBVIOUS
    <3> QED BY <1>1, <3>1, NothingPending
  <2>4. UsesOf(eDB, c) <= ChargesOf(ecDB, c)
    BY <1>2 DEF Spent, Covered
  <2>5. UsesOf(eDB, c)' = UsesOf(eDB, c) /\ ChargesOf(ecDB, c)' = ChargesOf(ecDB, c)
    BY <1>1
  <2> QED BY <2>1, <2>2, <2>3, <2>4, <2>5 DEF Covered
<1> QED BY <1>1, <1>2 DEF Spent, Sealing

LEMMA SpentStep ==
    ASSUME Typed, Typed', Control, Ledger, Bought, Spent, [Next]_vars
    PROVE  Spent'
<1>1. CASE Serve
  BY <1>1, ServeSpent
<1>2. CASE EndOfMinute \/ EndOfMinute10 \/ EndProcessList
  BY <1>2, ClockSpent
<1>3. ASSUME NEW e \in Entries, processFromOrphanPool(e) PROVE Spent'
  <2>1. /\ pc = "orphans" /\ pc' = pc
        /\ UNCHANGED <<eDB, ecDB, ecNext, idx, ecLost>>
        /\ \/ AcceptEntry(e) \/ AcceptChain(e) \/ RegisterOnly(e)
           \/ UNCHANGED <<plist, commitEntryMap, commitChainMap, chains>>
    BY <1>3 DEF processFromOrphanPool, disk, open, credit
  <2> QED BY <2>1, RevealSpent DEF Collecting
<1>4. CASE BuildItem
  BY <1>4, BuildSpent
<1>5. CASE SealBlock
  BY <1>5, SealSpent
<1>6. CASE initProcessor
  BY <1>6, RestartSpent
<1>7. CASE UNCHANGED vars
  BY <1>7 DEF vars, pools, chains, ledger, open, disk, credit, Spent, Covered,
     OpenUses, Waiting
<1> QED BY <1>1, <1>2, <1>3, <1>4, <1>5, <1>6, <1>7, NextGroups

Accounts == IInv /\ Replayed /\ Bought /\ Spent

LEMMA AccountsInductive == Spec => []Accounts
<1>1. Init => Accounts
  BY InitType, InitControl, InitLedger, InitReplayed, InitBought, InitSpent
     DEF IInv, Accounts
<1>2. Accounts /\ [Next]_vars => Accounts'
  <2> SUFFICES ASSUME Accounts, [Next]_vars PROVE Accounts'
    OBVIOUS
  <2>1. IInv'
    BY TypeStep, ControlStep, LedgerStep DEF IInv, Accounts
  <2>2. Replayed' /\ Bought'
    BY <2>1, ReplayedStep, BoughtStep DEF IInv, Accounts
  <2>3. Typed /\ Typed'
    BY <2>1, <2>2 DEF Typed, IInv, Accounts, Replayed
  <2>4. Spent'
    BY <2>3, SpentStep DEF IInv, Accounts
  <2> QED BY <2>1, <2>2, <2>4 DEF Accounts
<1> QED BY <1>1, <1>2, PTL DEF Spec

\* Every stored entry was paid for, by a commit for that entry that is large
\* enough, and no commit pays twice: neither the orphan pool, nor a
\* resubmission, nor a crash between the entry credit block and the entry
\* blocks lets an entry in that the stored entry credit blocks do not charge.
THEOREM NothingIsFree == Spec => []EntriesArePaidFor
<1>1. ASSUME Accounts PROVE EntriesArePaidFor
  <2>1. ASSUME NEW b \in eDB, NEW x \in EntriesOf(b)
        PROVE  /\ CommitMsg[x.by].entry = x.entry
               /\ CommitMsg[x.by].credits >= Cost[x.entry]
    <3>1. PICK d \in Chains : PaidBody(b.body, d)
      BY <1>1 DEF Accounts, Bought
    <3>2. PICK i \in DOMAIN b.body : x = b.body[i] /\ b.body[i].entry # None
      BY DEF EntriesOf
    <3> QED BY <3>1, <3>2 DEF PaidBody, PaidBy
  <2>2. ASSUME ~ecLost, NEW c \in Commits PROVE Uses(c) <= Charges(c)
    BY <1>1, <2>2 DEF Accounts, Spent, Covered, Uses, Charges, UsesOf, ChargesOf
  <2> QED BY <2>1, <2>2 DEF EntriesArePaidFor
<1> QED BY <1>1, AccountsInductive, PTL

\* If the process dies only between two block buildings, no entry credit block
\* is ever stored over an identical one: each has a height of its own.
THEOREM NoBlockIsLost == ASSUME CleanCrashes PROVE Spec => []~ecLost
<1>1. Init => BlocksInv /\ ~ecLost
  BY InitType, InitControl, InitLedger, InitDirectory, InitClean
     DEF IInv, BlocksInv, Init
<1>2. ASSUME BlocksInv, ~ecLost, [Next]_vars PROVE (BlocksInv /\ ~ecLost)'
  <2>1. BlocksInv'
    BY <1>2, CleanCrashes, TypeStep, ControlStep, LedgerStep, DirectoryStep,
       CleanStep DEF IInv, BlocksInv
  <2>2. CASE newEntryCreditBlock
    <3>1. \A b \in ecDB : b.height # nextHeight.ec
      <4>1. /\ pc \notin Sealing /\ nextHeight.ec = nextHeight.d
            /\ nextHeight.d = Len(dDB) /\ Len(dDB) \in Nat
            /\ DOMAIN dDB = 1 .. Len(dDB)
        BY <1>2, <2>2 DEF newEntryCreditBlock, BlocksInv, Clean, InStep, Ahead,
           Sealing, Directory, Listing, IInv, TypeInv, TypeOK
      <4>2. \A b \in ecDB : ListedEC(dDB, b)
        BY <1>2, <4>1 DEF BlocksInv, Clean, StoredOnce
      <4> QED BY <4>1, <4>2 DEF ListedEC
    <3>2. [height |-> nextHeight.ec, entries |-> ecNext] \notin ecDB
      BY <3>1
    <3> QED BY <1>2, <2>1, <2>2, <3>2 DEF newEntryCreditBlock
  <2>3. CASE ~newEntryCreditBlock
    <3>1. UNCHANGED ecLost
      BY <1>2, <2>3, NextGroups DEF Serve, processCommitEntry,
         processCommitChain, RefuseCommit, processBuyEntryCredit,
         RefuseFactoidTX, processRevealEntry, EndOfMinute, EndOfMinute10,
         EndProcessList, processFromOrphanPool, BuildItem, buildCommit,
         buildIncreaseBalance, buildRevealEntry, buildRevealChain,
         buildFirstEntry, buildEndOfMinute, SealBlock, newAdminBlock,
         newFactoidBlock, newDirectoryBlock, newEntryBlock, VisitChain,
         initProcessor, credit, vars
    <3> QED BY <1>2, <2>1, <3>1
  <2> QED BY <2>2, <2>3
<1>3. (BlocksInv /\ ~ecLost) /\ [Next]_vars => (BlocksInv /\ ~ecLost)'
  BY <1>2
<1> QED BY <1>1, <1>3, PTL DEF Spec

=============================================================================
