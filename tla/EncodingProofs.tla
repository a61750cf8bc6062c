--------------------------- MODULE EncodingProofs ---------------------------
(***************************************************************************)
(* Proofs about Encoding, for the entries and blocks that WebAPI makes:    *)
(* merkle roots commit to their leaves, and what was written is read back. *)
(***************************************************************************)
EXTENDS WebAPI, WellFoundedInduction, FiniteSetTheorems, FunctionTheorems,
        SequenceTheorems, TLAPS

----------------------------------------------------------------------------
\* Induction over a set of numbers, and functions that are defined by recursion.

\* A nonempty set of numbers has a smallest one: of the initial segments that
\* belong to its members there is a minimal one.
LEMMA Smallest ==
    ASSUME NEW S, S \subseteq Nat, S # {} PROVE \E n \in S : \A m \in S : n <= m
<1>1. PICK k \in S : TRUE
  OBVIOUS
<1> DEFINE B == {0 .. m : m \in {m \in S : m <= k}}
<1>2. IsFiniteSet(0 .. k)
  BY FS_Interval
<1>3. IsWellFoundedOn(StrictSubsetOrdering(0 .. k), SUBSET (0 .. k))
  BY <1>2, FS_StrictSubsetOrderingWellFounded, FS_FiniteSubsetsOfFinite
<1>4. B \subseteq SUBSET (0 .. k) /\ B # {}
  OBVIOUS
<1> HIDE DEF B
<1>5. PICK s \in B : \A t \in B : <<t, s>> \notin StrictSubsetOrdering(0 .. k)
  BY <1>3, <1>4, WFMin
<1>6. PICK n \in S : n <= k /\ s = 0 .. n
  BY DEF B
<1>7. ASSUME NEW m \in S, m < n PROVE FALSE
  <2>1. 0 .. m \in B
    BY <1>6, <1>7 DEF B
  <2>2. 0 .. m \subseteq 0 .. n /\ 0 .. m # 0 .. n
    BY <1>7
  <2>3. 0 .. m \in SUBSET (0 .. k) /\ s \in SUBSET (0 .. k)
    BY <1>4, <2>1
  <2>4. <<0 .. m, s>> \in StrictSubsetOrdering(0 .. k)
    BY <1>6, <2>2, <2>3 DEF StrictSubsetOrdering
  <2> QED BY <1>5, <2>1, <2>4
<1> QED BY <1>7

LEMMA SetInduction ==
    ASSUME NEW S, 0 \in S, \A n \in Nat : n \in S => n + 1 \in S
    PROVE  Nat \subseteq S
<1> SUFFICES ASSUME Nat \ S # {} PROVE FALSE
  OBVIOUS
<1>1. PICK n \in Nat \ S : \A m \in Nat \ S : n <= m
  BY Smallest
<1> QED BY <1>1, n - 1 \in Nat, n - 1 \in S

\* g[0], ..., g[n] is s and what the steps F[1], ..., F[n] make of it.
Iterates(g, n, S, s, F) ==
    /\ g \in [0 .. n -> S] /\ g[0] = s
    /\ \A i \in 1 .. n : g[i] = F[i][g[i - 1]]

\* A recursion that goes up from 0 has a solution.
LEMMA RecursionExists ==
    ASSUME NEW n \in Nat, NEW S, NEW s \in S, NEW F \in [1 .. n -> [S -> S]]
    PROVE  \E g : Iterates(g, n, S, s, F)
<1> DEFINE R(k, g) == \A i \in 0 .. k : g[i] = IF i = 0 THEN s ELSE F[i][g[i - 1]]
           T == {k \in Nat : k <= n => \E g \in [0 .. k -> S] : R(k, g)}
<1>1. 0 \in T
  <2>1. R(0, [i \in 0 .. 0 |-> s])
    OBVIOUS
  <2>2. [i \in 0 .. 0 |-> s] \in [0 .. 0 -> S]
    OBVIOUS
  <2> QED BY <2>1, <2>2
<1>2. ASSUME NEW k \in Nat, k \in T PROVE k + 1 \in T
  <2> SUFFICES ASSUME k + 1 <= n PROVE \E g \in [0 .. (k + 1) -> S] : R(k + 1, g)
    OBVIOUS
  <2>1. PICK h \in [0 .. k -> S] : R(k, h)
    BY <1>2
  <2> DEFINE g == [i \in 0 .. (k + 1) |-> IF i <= k THEN h[i] ELSE F[k + 1][h[k]]]
  <2>2. g \in [0 .. (k + 1) -> S]
    OBVIOUS
  <2>3. ASSUME NEW i \in 0 .. (k + 1)
        PROVE  g[i] = IF i = 0 THEN s ELSE F[i][g[i - 1]]
    <3>1. CASE i <= k
      <4>1. h[i] = IF i = 0 THEN s ELSE F[i][h[i - 1]]
        BY <2>1, <3>1
      <4>2. g[i] = h[i] /\ (i # 0 => g[i - 1] = h[i - 1])
        BY <3>1
      <4> HIDE DEF g
      <4> QED BY <4>1, <4>2
    <3>2. CASE i = k + 1
      <4>1. g[i] = F[k + 1][h[k]] /\ g[i - 1] = h[k] /\ i # 0
        BY <3>2
      <4> HIDE DEF g
      <4> QED BY <3>2, <4>1
    <3> QED BY <3>1, <3>2
  <2>4. R(k + 1, g)
    BY <2>3
  <2> QED BY <2>2, <2>4
<1> HIDE DEF T
<1>3. Nat \subseteq T
  BY <1>1, <1>2, SetInduction
<1>4. PICK g \in [0 .. n -> S] : R(n, g)
  BY <1>3 DEF T
<1>5. g[0] = s
  BY <1>4
<1>6. ASSUME NEW i \in 1 .. n PROVE g[i] = F[i][g[i - 1]]
  BY <1>4, i \in 0 .. n, i # 0
<1> QED BY <1>5, <1>6 DEF Iterates

----------------------------------------------------------------------------
\* Merkle trees.

\* pow[0], ..., pow[m] are the powers of two up to p.
LEMMA Doubling ==
    ASSUME NEW n \in Nat
    PROVE  \E g \in [0 .. n -> Nat] : g = [k \in 0 .. n |-> IF k = 0 THEN 1 ELSE 2 * g[k - 1]]
<1> DEFINE R(g) == g = [k \in 0 .. n |-> IF k = 0 THEN 1 ELSE 2 * g[k - 1]]
           F == [i \in 1 .. n |-> [v \in Nat |-> 2 * v]]
<1>1. \E g \in [0 .. n -> Nat] : R(g)
  <2>1. F \in [1 .. n -> [Nat -> Nat]]
    OBVIOUS
  <2>2. \A v \in Nat, i \in 1 .. n : F[i][v] = 2 * v
    OBVIOUS
  <2> HIDE DEF F
  <2>3. PICK g : Iterates(g, n, Nat, 1, F)
    BY <2>1, RecursionExists
  <2>4. g \in [0 .. n -> Nat] /\ g[0] = 1
    BY <2>3 DEF Iterates
  <2>5. ASSUME NEW i \in 1 .. n PROVE g[i] = 2 * g[i - 1]
    <3>1. g[i] = F[i][g[i - 1]]
      BY <2>3 DEF Iterates
    <3>2. g[i - 1] \in Nat
      BY <2>4
    <3> QED BY <2>2, <3>1, <3>2
  <2>6. \A i \in 0 .. n : g[i] = IF i = 0 THEN 1 ELSE 2 * g[i - 1]
    BY <2>4, <2>5
  <2>7. R(g)
    BY <2>4, <2>6
  <2> QED BY <2>4, <2>7, Zenon
<1> QED BY <1>1

Powers(pow, m, p) ==
    /\ m \in Nat /\ pow \in [0 .. m -> Nat] /\ pow[0] = 1 /\ pow[m] = p
    /\ \A k \in 1 .. m : pow[k] = 2 * pow[k - 1]
    /\ \A k \in 0 .. m : pow[k] >= 1 /\ pow[k] <= p

\* The size of the tree's lowest level is a power of two.
LEMMA NextPower ==
    ASSUME NEW n \in Nat \ {0}
    PROVE  /\ nextPowerOfTwo(n) >= n
           /\ \E m, pow : Powers(pow, m, nextPowerOfTwo(n))
<1> DEFINE R(g) == g = [k \in 0 .. n |-> IF k = 0 THEN 1 ELSE 2 * g[k - 1]]
           pow == CHOOSE g : R(g)
<1>1. \E g \in [0 .. n -> Nat] : R(g)
  BY Doubling
<1>2. R(pow)
  BY <1>1
<1> HIDE DEF pow
<1>3. /\ pow[0] = 1
      /\ \A k \in 1 .. n : pow[k] = 2 * pow[k - 1]
  BY <1>2
<1>4. \A k \in 0 .. n : pow[k] \in Nat /\ pow[k] > k
  <2> DEFINE T == {k \in Nat : k <= n => pow[k] \in Nat /\ pow[k] > k}
  <2>1. 0 \in T
    BY <1>3
  <2>2. \A k \in Nat : k \in T => k + 1 \in T
    BY <1>3
  <2> HIDE DEF T
  <2>3. Nat \subseteq T
    BY <2>1, <2>2, SetInduction
  <2> QED BY <2>3 DEF T
<1> DEFINE Q == {k \in 0 .. n : pow[k] >= n}
<1>5. PICK m \in Q : \A k \in Q : m <= k
  <2>1. n \in Q /\ Q \subseteq Nat
    BY <1>4
  <2> HIDE DEF Q
  <2> QED BY <2>1, Smallest
<1>6. pow[m] >= n /\ pow[m] < 2 * n
  <2>1. CASE m = 0
    BY <1>3, <2>1
  <2>2. CASE m # 0
    <3>1. pow[m] = 2 * pow[m - 1] /\ m - 1 \in 0 .. n
      BY <1>3, <2>2
    <3>2. pow[m - 1] < n
      BY <1>4, <1>5, <3>1
    <3> QED BY <1>4, <3>1, <3>2
  <2> QED BY <2>1, <2>2
<1> DEFINE p == nextPowerOfTwo(n)
<1>7. p \in {pow[k] : k \in 0 .. n} /\ p >= n /\ p < 2 * n
  <2>1. p = CHOOSE q \in {pow[k] : k \in 0 .. n} : q >= n /\ q < 2 * n
    BY DEF nextPowerOfTwo, pow
  <2>2. pow[m] \in {pow[k] : k \in 0 .. n}
    OBVIOUS
  <2> HIDE DEF p
  <2> QED BY <1>6, <2>1, <2>2
<1> HIDE DEF p
<1>8. PICK l \in 0 .. n : p = pow[l]
  BY <1>7
<1>9. \A k \in 0 .. l : pow[k] <= pow[l]
  <2> DEFINE T == {k \in Nat : k <= l => pow[l - k] <= pow[l]}
  <2>1. 0 \in T
    BY <1>4
  <2>2. ASSUME NEW k \in Nat, k \in T PROVE k + 1 \in T
    <3> SUFFICES ASSUME k + 1 <= l PROVE pow[l - (k + 1)] <= pow[l]
      OBVIOUS
    <3>1. l - k \in 1 .. n /\ l - (k + 1) \in 0 .. n /\ l - k - 1 = l - (k + 1)
      OBVIOUS
    <3>2. pow[l - k] = 2 * pow[l - (k + 1)]
      BY <1>3, <3>1
    <3>3. pow[l - k] <= pow[l]
      BY <2>2
    <3> QED BY <1>4, <3>1, <3>2, <3>3
  <2> HIDE DEF T
  <2>3. Nat \subseteq T
    BY <2>1, <2>2, SetInduction
  <2>4. ASSUME NEW k \in 0 .. l PROVE pow[k] <= pow[l]
    <3>1. l - k \in T /\ l - (l - k) = k
      BY <2>3
    <3> QED BY <3>1 DEF T
  <2> QED BY <2>4
<1> DEFINE upTo == [k \in 0 .. l |-> pow[k]]
<1>10. Powers(upTo, l, p)
  <2>1. upTo \in [0 .. l -> Nat] /\ upTo[0] = 1 /\ upTo[l] = p
    BY <1>3, <1>4, <1>8
  <2>2. \A k \in 1 .. l : upTo[k] = 2 * upTo[k - 1]
    BY <1>3
  <2>3. \A k \in 0 .. l : upTo[k] >= 1 /\ upTo[k] <= p
    BY <1>4, <1>8, <1>9
  <2> HIDE DEF upTo
  <2> QED BY <2>1, <2>2, <2>3, l \in Nat DEF Powers
<1> HIDE DEF upTo
<1> QED BY <1>7, <1>10, Zenon DEF p

Node(t, hashes, p, i) ==
    IF i <= p THEN (IF i <= Len(hashes) THEN hashes[i] ELSE Nil)
    ELSE IF t[2 * (i - p) - 1] = Nil THEN Nil
    ELSE hashMerkleBranches(t[2 * (i - p) - 1],
            IF t[2 * (i - p)] = Nil THEN t[2 * (i - p) - 1] ELSE t[2 * (i - p)])

IsTree(t, hashes, p, k) ==
    /\ t = [i \in 1 .. k |-> t[i]]
    /\ \A i \in 1 .. k : t[i] = Node(t, hashes, p, i)

\* The array is well defined: children come before their parents.
LEMMA TreeExists ==
    ASSUME NEW hashes, NEW p \in Nat \ {0}
    PROVE  \E t : IsTree(t, hashes, p, 2 * p - 1)
<1> DEFINE T == {k \in Nat : k <= 2 * p - 1 => \E t : IsTree(t, hashes, p, k)}
<1>1. 0 \in T
  <2>1. IsTree(<<>>, hashes, p, 0)
    BY DEF IsTree
  <2> QED BY <2>1
<1>2. ASSUME NEW k \in Nat, k \in T PROVE k + 1 \in T
  <2> SUFFICES ASSUME k + 1 <= 2 * p - 1 PROVE \E t : IsTree(t, hashes, p, k + 1)
    OBVIOUS
  <2>1. PICK u : IsTree(u, hashes, p, k)
    BY <1>2
  <2> DEFINE t == [i \in 1 .. (k + 1) |-> IF i <= k THEN u[i] ELSE Node(u, hashes, p, i)]
  <2>2. \A i \in 1 .. k : t[i] = u[i]
    OBVIOUS
  <2>3. t[k + 1] = Node(u, hashes, p, k + 1)
    OBVIOUS
  <2>4. t = [i \in 1 .. (k + 1) |-> t[i]]
    OBVIOUS
  <2> HIDE DEF t
  <2>5. ASSUME NEW i \in 1 .. (k + 1) PROVE Node(t, hashes, p, i) = Node(u, hashes, p, i)
    <3>1. CASE i <= p
      BY <3>1 DEF Node
    <3>2. CASE i > p
      <4>1. 2 * (i - p) \in 1 .. k /\ 2 * (i - p) - 1 \in 1 .. k
        BY <3>2
      <4>2. t[2 * (i - p)] = u[2 * (i - p)] /\ t[2 * (i - p) - 1] = u[2 * (i - p) - 1]
        BY <2>2, <4>1
      <4> QED BY <3>2, <4>2 DEF Node
    <3> QED BY <3>1, <3>2
  <2>6. ASSUME NEW i \in 1 .. (k + 1) PROVE t[i] = Node(t, hashes, p, i)
    <3>1. CASE i <= k
      <4>1. u[i] = Node(u, hashes, p, i)
        BY <2>1, <3>1 DEF IsTree
      <4> QED BY <2>2, <2>5, <3>1, <4>1
    <3>2. CASE i = k + 1
      BY <2>3, <2>5, <3>2
    <3> QED BY <3>1, <3>2
  <2>7. IsTree(t, hashes, p, k + 1)
    BY <2>4, <2>6 DEF IsTree
  <2> QED BY <2>7
<1> HIDE DEF T
<1>3. Nat \subseteq T
  BY <1>1, <1>2, SetInduction
<1> QED BY <1>3 DEF T

LEMMA TreeIsTree ==
    ASSUME NEW S, NEW hashes \in Seq(S), hashes # <<>>
    PROVE  IsTree(MerkleTree(hashes), hashes, nextPowerOfTwo(Len(hashes)),
                  2 * nextPowerOfTwo(Len(hashes)) - 1)
<1> DEFINE p == nextPowerOfTwo(Len(hashes))
           R(t) == t = [i \in 1 .. (2 * p - 1) |->
            IF i <= p THEN (IF i <= Len(hashes) THEN hashes[i] ELSE Nil)
            ELSE IF t[2 * (i - p) - 1] = Nil THEN Nil
            ELSE hashMerkleBranches(t[2 * (i - p) - 1],
                    IF t[2 * (i - p)] = Nil THEN t[2 * (i - p) - 1] ELSE t[2 * (i - p)])]
<1>1. p \in Nat \ {0}
  <2>1. Len(hashes) \in Nat \ {0}
    OBVIOUS
  <2>2. PICK m, pow : Powers(pow, m, p)
    BY <2>1, NextPower
  <2> HIDE DEF p
  <2> QED BY <2>2 DEF Powers
<1>2. MerkleTree(hashes) = CHOOSE t : R(t)
  BY DEF MerkleTree
<1> HIDE DEF p
<1>3. PICK t : IsTree(t, hashes, p, 2 * p - 1)
  BY <1>1, TreeExists
<1>4. R(t)
  BY <1>3 DEF IsTree, Node
<1>5. R(MerkleTree(hashes))
  BY <1>2, <1>4
<1> QED BY <1>5 DEF IsTree, Node, p

LEMMA RootIsLast ==
    ASSUME NEW S, NEW hashes \in Seq(S), hashes # <<>>, NEW p, p = nextPowerOfTwo(Len(hashes))
    PROVE  /\ p \in Nat /\ p >= Len(hashes) /\ p >= 1
           /\ IsTree(MerkleTree(hashes), hashes, p, 2 * p - 1)
           /\ MerkleRoot(hashes) = MerkleTree(hashes)[2 * p - 1]
<1>1. Len(hashes) \in Nat \ {0}
  OBVIOUS
<1>2. p >= Len(hashes) /\ \E m, pow : Powers(pow, m, p)
  BY <1>1, NextPower
<1>3. p \in Nat /\ p >= 1
  BY <1>1, <1>2 DEF Powers
<1>4. IsTree(MerkleTree(hashes), hashes, p, 2 * p - 1)
  BY TreeIsTree
<1>5. Len(MerkleTree(hashes)) = 2 * p - 1
  BY <1>3, <1>4 DEF IsTree
<1> QED BY <1>2, <1>3, <1>4, <1>5 DEF MerkleRoot, Last

\* The first nodes of the levels are never nil, and the root is one of them.
LEMMA RootIsHash ==
    ASSUME NEW S, NEW hashes \in Seq(S), hashes # <<>>, Nil \notin S
    PROVE  MerkleRoot(hashes) # Nil
<1> DEFINE p == nextPowerOfTwo(Len(hashes))
           t == MerkleTree(hashes)
<1>1. /\ p \in Nat /\ p >= 1 /\ p >= Len(hashes)
      /\ IsTree(t, hashes, p, 2 * p - 1)
      /\ MerkleRoot(hashes) = t[2 * p - 1]
  BY RootIsLast
<1>2. Len(hashes) \in Nat \ {0}
  OBVIOUS
<1>3. PICK m, pow : Powers(pow, m, p)
  BY <1>2, NextPower
<1> HIDE DEF p, t
<1> DEFINE T == {j \in Nat : j <= m => t[2 * p + 1 - 2 * pow[m - j]] # Nil}
<1>4. 0 \in T
  <2>1. pow[m - 0] = p
    BY <1>3 DEF Powers
  <2>2. t[1] = Node(t, hashes, p, 1)
    BY <1>1 DEF IsTree
  <2>3. t[1] = hashes[1]
    BY <1>1, <1>2, <2>2 DEF Node
  <2> QED BY <1>1, <1>2, <2>1, <2>3
<1>5. ASSUME NEW j \in Nat, j \in T PROVE j + 1 \in T
  <2> SUFFICES ASSUME j + 1 <= m PROVE t[2 * p + 1 - 2 * pow[m - (j + 1)]] # Nil
    OBVIOUS
  <2> DEFINE q == pow[m - (j + 1)]
             i == 2 * p + 1 - 2 * q
  <2>1. m \in Nat /\ m - j \in 1 .. m /\ m - (j + 1) \in 0 .. m /\ m - j - 1 = m - (j + 1)
    BY <1>3 DEF Powers
  <2>2. q \in Nat /\ q >= 1 /\ pow[m - j] = 2 * q /\ pow[m - j] <= p
    BY <1>3, <2>1 DEF Powers
  <2>3. t[2 * p + 1 - 2 * pow[m - j]] # Nil
    BY <1>5, <2>1
  <2> HIDE DEF q
  <2>4. i \in 1 .. (2 * p - 1) /\ i > p /\ 2 * (i - p) - 1 = 2 * p + 1 - 2 * pow[m - j]
    BY <1>1, <2>2
  <2>5. t[i] = Node(t, hashes, p, i)
    BY <1>1, <2>4 DEF IsTree
  <2>6. t[2 * (i - p) - 1] # Nil
    BY <2>3, <2>4
  <2> HIDE DEF i
  <2>7. t[i] # Nil
    BY <1>1, <2>4, <2>5, <2>6 DEF Node, hashMerkleBranches, Sha, Nil
  <2> QED BY <2>7 DEF i, q
<1> HIDE DEF T
<1>6. Nat \subseteq T
  BY <1>4, <1>5, SetInduction
<1>7. m \in Nat /\ pow[m - m] = 1
  BY <1>3 DEF Powers
<1>8. t[2 * p + 1 - 2 * pow[m - m]] # Nil
  BY <1>6, <1>7 DEF T
<1> QED BY <1>1, <1>7, <1>8

LEMMA Halves ==
    \A i, p, q \in Nat : 2 * (i - p) - 1 + 2 = 2 * p + 1 - 2 * q => i + 1 = 2 * p + 1 - q
OBVIOUS

\* Within a level only hashes come before a hash.
LEMMA NilIsASuffix ==
    ASSUME NEW hashes, Len(hashes) \in Nat, NEW t, NEW pow, NEW m, NEW p \in Nat \ {0},
           Powers(pow, m, p), p >= Len(hashes),
           \A i \in 1 .. Len(hashes) : hashes[i] # Nil,
           IsTree(t, hashes, p, 2 * p - 1)
    PROVE  \A k \in 1 .. (p - 1) : t[2 * k - 1] = Nil => t[2 * k] = Nil
<1> DEFINE Starts == {2 * p + 1 - 2 * pow[j] : j \in 0 .. m}
           D(i) == (i + 1 <= 2 * p - 1 /\ i + 1 \notin Starts /\ t[i] = Nil) => t[i + 1] = Nil
           B == {i \in Nat \ {0} : ~D(i)}
<1>1. B = {}
  <2> SUFFICES ASSUME B # {} PROVE FALSE
    OBVIOUS
  <2>1. PICK i \in B : \A j \in B : i <= j
    <3>1. B \subseteq Nat
      OBVIOUS
    <3> HIDE DEF B
    <3> QED BY <3>1, Smallest
  <2> i \in Nat
    OBVIOUS
  <2>2. /\ i \in Nat \ {0} /\ i + 1 <= 2 * p - 1 /\ i + 1 \notin Starts
        /\ t[i] = Nil /\ t[i + 1] # Nil
        /\ \A j \in Nat \ {0} : j < i => D(j)
    BY <2>1
  <2>3. t[i] = Node(t, hashes, p, i) /\ t[i + 1] = Node(t, hashes, p, i + 1)
    BY <2>2 DEF IsTree
  <2>4. CASE i + 1 <= p
    BY <2>2, <2>3, <2>4 DEF Node
  <2>5. CASE i = p
    <3>1. m # 0
      BY <2>2, <2>5 DEF Powers
    <3>2. m - 1 \in 0 .. m /\ 2 * pow[m - 1] = p
      BY <3>1 DEF Powers
    <3>3. 2 * p + 1 - 2 * pow[m - 1] \in Starts
      BY <3>2
    <3> QED BY <2>2, <2>5, <3>2, <3>3
  <2>6. CASE i > p
    <3> DEFINE a == 2 * (i - p) - 1
    <3>1. t[a] = Nil
      BY <2>2, <2>3, <2>6 DEF Node, hashMerkleBranches, Sha, Nil
    <3>2. t[a + 2] # Nil
      <4>1. 2 * (i + 1 - p) - 1 = a + 2 /\ ~(i + 1 <= p)
        BY i \in Nat, <2>6
      <4>2. ASSUME t[2 * (i + 1 - p) - 1] = Nil PROVE Node(t, hashes, p, i + 1) = Nil
        BY <4>1, <4>2 DEF Node
      <4> QED BY <2>2, <2>3, <4>1, <4>2
    <3>3. a \in Nat \ {0} /\ a + 1 < i /\ a + 2 <= 2 * p - 1
      BY <2>2, <2>6
    <3>4. a + 1 \notin Starts
      <4> SUFFICES ASSUME NEW j \in 0 .. m, a + 1 = 2 * p + 1 - 2 * pow[j] PROVE FALSE
        OBVIOUS
      <4>1. pow[j] \in Nat
        BY DEF Powers
      <4> QED BY <4>1, i \in Nat
    <3>5. a + 2 \notin Starts
      <4> SUFFICES ASSUME NEW j \in 0 .. m, a + 2 = 2 * p + 1 - 2 * pow[j] PROVE FALSE
        OBVIOUS
      <4>1. pow[j] \in Nat
        BY DEF Powers
      <4>2. i + 1 = 2 * p + 1 - pow[j]
        <5>1. 2 * (i - p) - 1 + 2 = 2 * p + 1 - 2 * pow[j]
          OBVIOUS
        <5> QED BY <4>1, <5>1, Halves
      <4>3. CASE j = 0
        BY <2>2, <4>2, <4>3 DEF Powers
      <4>4. CASE j # 0
        <5>1. pow[j] = 2 * pow[j - 1] /\ j - 1 \in 0 .. m
          BY <4>4 DEF Powers
        <5>2. 2 * p + 1 - 2 * pow[j - 1] \in Starts
          BY <5>1
        <5> QED BY <2>2, <4>2, <5>1, <5>2
      <4> QED BY <4>3, <4>4
    <3> HIDE DEF a, Starts
    <3>6. t[a + 1] = Nil
      <4>1. D(a)
        BY <2>2, <3>3
      <4> QED BY <3>1, <3>3, <3>4, <4>1
    <3>7. t[a + 2] = Nil
      <4>1. D(a + 1) /\ (a + 1) + 1 = a + 2
        BY <2>2, <3>3
      <4> QED BY <3>3, <3>5, <3>6, <4>1
    <3> QED BY <3>2, <3>7
  <2> QED BY <2>2, <2>4, <2>5, <2>6
<1>2. ASSUME NEW k \in 1 .. (p - 1), t[2 * k - 1] = Nil PROVE t[2 * k] = Nil
  <2>1. 2 * k \notin Starts
    <3> SUFFICES ASSUME NEW j \in 0 .. m, 2 * k = 2 * p + 1 - 2 * pow[j] PROVE FALSE
      OBVIOUS
    <3>1. pow[j] \in Nat
      BY DEF Powers
    <3> QED BY <3>1
  <2> HIDE DEF Starts
  <2>2. 2 * k - 1 \in Nat \ {0} /\ (2 * k - 1) + 1 = 2 * k /\ 2 * k <= 2 * p - 1
    OBVIOUS
  <2>3. D(2 * k - 1)
    BY <1>1, <2>2
  <2> QED BY <1>2, <2>1, <2>2, <2>3
<1> QED BY <1>2

LEMMA BranchesCommit ==
    \A v, w, x, y : hashMerkleBranches(v, w) = hashMerkleBranches(x, y) => v = x /\ w = y
BY DEF hashMerkleBranches, Sha

\* Lists of the same length that have the same root are the same, although the last
\* hash of an odd level is used twice (BuildMerkleTreeStore of merkle.go).
THEOREM RootCommits ==
    ASSUME NEW S, Nil \notin S, NEW a \in Seq(S), NEW b \in Seq(S), a # <<>>,
           Len(a) = Len(b), MerkleRoot(a) = MerkleRoot(b)
    PROVE  a = b
<1> DEFINE p == nextPowerOfTwo(Len(a))
           t == MerkleTree(a)
           u == MerkleTree(b)
<1>1. b # <<>> /\ Len(a) \in Nat \ {0}
  OBVIOUS
<1>2. /\ p \in Nat \ {0} /\ p >= Len(a)
      /\ IsTree(t, a, p, 2 * p - 1) /\ MerkleRoot(a) = t[2 * p - 1]
  <2>1. /\ p \in Nat /\ p >= 1 /\ p >= Len(a)
        /\ IsTree(t, a, p, 2 * p - 1) /\ MerkleRoot(a) = t[2 * p - 1]
    BY RootIsLast
  <2> HIDE DEF p, t
  <2> QED BY <2>1
<1>3. IsTree(u, b, p, 2 * p - 1) /\ MerkleRoot(b) = u[2 * p - 1]
  BY <1>1, RootIsLast
<1>4. PICK m, pow : Powers(pow, m, p)
  BY <1>1, NextPower
<1> HIDE DEF p, t, u
<1>5. \A i \in 1 .. Len(a) : a[i] # Nil /\ b[i] # Nil
  OBVIOUS
<1>6. \A k \in 1 .. (p - 1) : t[2 * k - 1] = Nil => t[2 * k] = Nil
  BY <1>1, <1>2, <1>4, <1>5, NilIsASuffix
<1>7. \A k \in 1 .. (p - 1) : u[2 * k - 1] = Nil => u[2 * k] = Nil
  BY <1>1, <1>2, <1>3, <1>4, <1>5, NilIsASuffix
<1>8. \A i \in 1 .. (2 * p - 1) : t[i] = Nil <=> u[i] = Nil
  <2> DEFINE B == {i \in 1 .. (2 * p - 1) : ~(t[i] = Nil <=> u[i] = Nil)}
  <2> SUFFICES ASSUME B # {} PROVE FALSE
    OBVIOUS
  <2>1. PICK i \in B : \A j \in B : i <= j
    <3>1. B \subseteq Nat
      OBVIOUS
    <3> HIDE DEF B
    <3> QED BY <3>1, Smallest
  <2>2. /\ i \in 1 .. (2 * p - 1) /\ ~(t[i] = Nil <=> u[i] = Nil)
        /\ \A j \in 1 .. (2 * p - 1) : j < i => (t[j] = Nil <=> u[j] = Nil)
    BY <2>1
  <2>3. t[i] = Node(t, a, p, i) /\ u[i] = Node(u, b, p, i)
    BY <1>2, <1>3, <2>2 DEF IsTree
  <2>4. CASE i <= p
    BY <1>5, <2>2, <2>3, <2>4 DEF Node
  <2>5. CASE i > p
    <3>1. 2 * (i - p) - 1 \in 1 .. (2 * p - 1) /\ 2 * (i - p) - 1 < i
      BY <1>2, <2>2, <2>5
    <3>2. t[2 * (i - p) - 1] = Nil <=> u[2 * (i - p) - 1] = Nil
      BY <2>2, <3>1
    <3> QED BY <2>2, <2>3, <2>5, <3>2 DEF Node, hashMerkleBranches, Sha, Nil
  <2> QED BY <1>2, <2>2, <2>4, <2>5
<1>9. \A i \in 1 .. (2 * p - 1) : t[i] = u[i]
  <2> DEFINE B == {j \in Nat : j < 2 * p - 1 /\ t[2 * p - 1 - j] # u[2 * p - 1 - j]}
  <2>1. B = {}
    <3> SUFFICES ASSUME B # {} PROVE FALSE
      OBVIOUS
    <3>1. PICK j \in B : \A l \in B : j <= l
      <4>1. B \subseteq Nat
        OBVIOUS
      <4> HIDE DEF B
      <4> QED BY <4>1, Smallest
    <3> DEFINE i == 2 * p - 1 - j
               k == (i + 1) \div 2
               q == p + k
               r == 2 * p - 1 - q
    <3>2. j \in Nat /\ j < 2 * p - 1 /\ t[i] # u[i]
      OBVIOUS
    <3>3. j # 0
      <4>1. t[2 * p - 1] = u[2 * p - 1]
        BY <1>2, <1>3, Zenon
      <4>2. 2 * p - 1 - 0 = 2 * p - 1
        BY <1>2
      <4> QED BY <3>2, <4>1, <4>2
    <3>4. i \in 1 .. (2 * p - 2)
      BY <1>2, <3>2, <3>3
    <3> HIDE DEF i
    <3>5. k \in 1 .. (p - 1) /\ (i = 2 * k - 1 \/ i = 2 * k)
      BY <1>2, <3>4
    <3> HIDE DEF k
    <3>6. q \in (p + 1) .. (2 * p - 1) /\ q - p = k /\ q > i
      BY <1>2, <3>5
    <3> HIDE DEF q
    <3>7. r \in Nat /\ r < j /\ r < 2 * p - 1 /\ 2 * p - 1 - r = q
      BY <1>2, <3>2, <3>6 DEF i
    <3>8. t[q] = u[q]
      <4>1. r \notin B
        BY <3>1, <3>7
      <4> HIDE DEF r
      <4> QED BY <3>7, <4>1
    <3>9. t[q] = Node(t, a, p, q) /\ u[q] = Node(u, b, p, q)
      BY <1>2, <1>3, <3>6 DEF IsTree
    <3>10. /\ t[2 * k - 1] = Nil <=> u[2 * k - 1] = Nil
           /\ t[2 * k] = Nil <=> u[2 * k] = Nil
           /\ t[2 * k - 1] = Nil => t[2 * k] = Nil
           /\ u[2 * k - 1] = Nil => u[2 * k] = Nil
      <4>1. 2 * k - 1 \in 1 .. (2 * p - 1) /\ 2 * k \in 1 .. (2 * p - 1)
        BY <1>2, <3>5
      <4> QED BY <1>6, <1>7, <1>8, <3>5, <4>1
    <3>11. t[2 * k - 1] = u[2 * k - 1] /\ t[2 * k] = u[2 * k]
      <4>1. ~(q <= p) /\ 2 * (q - p) = 2 * k /\ 2 * (q - p) - 1 = 2 * k - 1
        BY <1>2, <3>6
      <4>2. CASE t[2 * k - 1] = Nil
        BY <3>10, <4>2
      <4>3. CASE t[2 * k - 1] # Nil
        <5> DEFINE v == IF t[2 * k] = Nil THEN t[2 * k - 1] ELSE t[2 * k]
                   w == IF u[2 * k] = Nil THEN u[2 * k - 1] ELSE u[2 * k]
        <5>1. t[q] = hashMerkleBranches(t[2 * k - 1], v)
          BY <3>9, <4>1, <4>3 DEF Node
        <5>2. u[q] = hashMerkleBranches(u[2 * k - 1], w)
          BY <3>9, <3>10, <4>1, <4>3 DEF Node
        <5>3. t[2 * k - 1] = u[2 * k - 1] /\ v = w
          <6> HIDE DEF v, w
          <6>1. hashMerkleBranches(t[2 * k - 1], v) = hashMerkleBranches(u[2 * k - 1], w)
            BY <3>8, <5>1, <5>2, Zenon
          <6> QED BY ONLY <6>1, BranchesCommit
        <5> QED BY <3>10, <5>3
      <4> QED BY <4>2, <4>3
    <3> QED BY <3>2, <3>5, <3>11
  <2>2. ASSUME NEW i \in 1 .. (2 * p - 1) PROVE t[i] = u[i]
    <3>1. 2 * p - 1 - i \in Nat /\ 2 * p - 1 - i < 2 * p - 1 /\ 2 * p - 1 - (2 * p - 1 - i) = i
      BY <1>2
    <3> QED BY <2>1, <3>1
  <2> QED BY <2>2
<1>10. ASSUME NEW i \in 1 .. Len(a) PROVE a[i] = b[i]
  <2>1. i \in 1 .. (2 * p - 1) /\ i <= p /\ i <= Len(b)
    BY <1>1, <1>2
  <2>2. t[i] = Node(t, a, p, i) /\ u[i] = Node(u, b, p, i)
    BY <1>2, <1>3, <2>1 DEF IsTree
  <2> QED BY <1>9, <2>1, <2>2 DEF Node
<1> QED BY <1>10

----------------------------------------------------------------------------
\* The binary forms.  What was encoded is decoded to the same, and a hash
\* belongs to one encoding only.

\* The hashes an entry block is made of.
EntryHashes == {EntryHash(Entry(c, x)) : c \in Chains, x \in Contents}
Markings    == {MinuteMarker(m) : m \in 1 .. LastMinute}
EBHashes    == EntryHashes \cup Markings

\* A record with these fields; records agree when their fields do.
IsRecord(r, fields) == DOMAIN r = fields /\ r = [f \in fields |-> r[f]]

LEMMA RecordsAgree ==
    ASSUME NEW fields, NEW u, NEW v, IsRecord(u, fields), IsRecord(v, fields),
           \A f \in fields : u[f] = v[f]
    PROVE  u = v
BY DEF IsRecord

EBFields == {"chain", "bodyMR", "prevKeyMR", "prevLedgerKeyMR", "seq", "height",
             "count", "entries"}

IsEBlock(b) ==
    /\ IsRecord(b, EBFields)
    /\ b.chain \in Chains /\ b.seq \in Nat /\ b.height \in Nat
    /\ b.entries \in Seq(EBHashes)

LEMMA BuiltFields ==
    ASSUME NEW b, IsEBlock(b), NEW u, u = BuildEBlockHeader(b)
    PROVE  /\ IsRecord(u, EBFields)
           /\ u.chain = b.chain /\ u.bodyMR = MerkleRoot(b.entries) /\ u.prevKeyMR = b.prevKeyMR
           /\ u.prevLedgerKeyMR = b.prevLedgerKeyMR /\ u.seq = b.seq /\ u.height = b.height
           /\ u.count = Len(b.entries) /\ u.entries = b.entries
BY DEF BuildEBlockHeader, IsEBlock, IsRecord, EBFields

LEMMA BuiltEBlock ==
    ASSUME NEW b, IsEBlock(b), NEW u, u = BuildEBlockHeader(b)
    PROVE  /\ IsEBlock(u) /\ BuildEBlockHeader(u) = u
           /\ MarshalEBlock(u) = MarshalEBlock(b)
           /\ EBlockHash(u) = EBlockHash(b) /\ EBlockKeyMR(u) = EBlockKeyMR(b)
<1>1. IsEBlock(u)
  BY BuiltFields DEF IsEBlock
<1>2. BuildEBlockHeader(u) = u
  <2>1. \A f \in EBFields : BuildEBlockHeader(u)[f] = u[f]
    BY <1>1, BuiltFields DEF EBFields
  <2>2. IsRecord(BuildEBlockHeader(u), EBFields) /\ IsRecord(u, EBFields)
    BY <1>1, BuiltFields
  <2> QED BY <2>1, <2>2, RecordsAgree
<1>3. u.entries = b.entries
  BY BuiltFields
<1>4. MarshalEBlock(u) = MarshalEBlock(b)
  BY <1>2, <1>3 DEF MarshalEBlock
<1>5. EBlockKeyMR(u) = EBlockKeyMR(b)
  BY <1>2 DEF EBlockKeyMR
<1> QED BY <1>1, <1>2, <1>4, <1>5 DEF EBlockHash

\* An entry block is read back as it was stored, with its header built (eblock.go).
THEOREM EBlockReadsBack ==
    ASSUME NEW b, IsEBlock(b)
    PROVE  UnmarshalEBlock(MarshalEBlock(b)) = BuildEBlockHeader(b)
<1> DEFINE u == BuildEBlockHeader(b)
           data == MarshalEBlock(b)
           w == UnmarshalEBlock(data)
<1>1. /\ IsRecord(u, EBFields) /\ u.count = Len(b.entries) /\ u.entries = b.entries
      /\ b.entries \in Seq(EBHashes) /\ Len(b.entries) \in Nat
  BY BuiltFields DEF IsEBlock
<1>2. data = <<Chain(u.chain), u.bodyMR, u.prevKeyMR, u.prevLedgerKeyMR,
               Num(u.seq), Num(u.height), Num(u.count)>> \o b.entries
  BY DEF MarshalEBlock, EBlockHeader
<1> HIDE DEF u, data
<1>3. /\ data[1] = Chain(u.chain) /\ data[2] = u.bodyMR /\ data[3] = u.prevKeyMR
      /\ data[4] = u.prevLedgerKeyMR /\ data[5] = Num(u.seq) /\ data[6] = Num(u.height)
      /\ data[7] = Num(u.count)
  BY <1>1, <1>2
<1>4. SubSeq(data, 8, 7 + Len(b.entries)) = b.entries
  BY <1>1, <1>2
<1>5. /\ IsRecord(w, EBFields)
      /\ w.chain = u.chain /\ w.bodyMR = u.bodyMR /\ w.prevKeyMR = u.prevKeyMR
      /\ w.prevLedgerKeyMR = u.prevLedgerKeyMR /\ w.seq = u.seq /\ w.height = u.height
      /\ w.count = u.count /\ w.entries = u.entries
  BY <1>1, <1>3, <1>4 DEF UnmarshalEBlock, Chain, Num, IsRecord, EBFields
<1> HIDE DEF w
<1>6. \A f \in EBFields : w[f] = u[f]
  BY <1>5 DEF EBFields
<1>7. w = u
  BY <1>1, <1>5, <1>6, RecordsAgree
<1> QED BY <1>7 DEF w, u, data

LEMMA EBHashIsNoNil == Nil \notin EBHashes
BY DEF EBHashes, EntryHashes, Markings, EntryHash, Sha, MinuteMarker, Nil

\* The KeyMR and the hash of an entry block belong to its encoding alone.
LEMMA EBKeyMRCommits ==
    ASSUME NEW b, NEW c, IsEBlock(b), IsEBlock(c), b.entries # <<>>, c.entries # <<>>,
           EBlockKeyMR(b) = EBlockKeyMR(c)
    PROVE  MarshalEBlock(b) = MarshalEBlock(c) /\ b.entries = c.entries
<1> DEFINE u == BuildEBlockHeader(b)
           v == BuildEBlockHeader(c)
<1>1. EBlockHeader(u) = EBlockHeader(v) /\ u.bodyMR = v.bodyMR
  BY DEF EBlockKeyMR, Sha
<1>2. u.count = v.count
  <2> HIDE DEF u, v
  <2> QED BY <1>1 DEF EBlockHeader, Num
<1>3. /\ u.count = Len(b.entries) /\ v.count = Len(c.entries)
      /\ u.bodyMR = MerkleRoot(b.entries) /\ v.bodyMR = MerkleRoot(c.entries)
  BY BuiltFields
<1>4. b.entries = c.entries
  <2>1. b.entries \in Seq(EBHashes) /\ c.entries \in Seq(EBHashes)
    BY DEF IsEBlock
  <2>2. Len(b.entries) = Len(c.entries) /\ MerkleRoot(b.entries) = MerkleRoot(c.entries)
    BY <1>1, <1>2, <1>3
  <2> QED BY <2>1, <2>2, EBHashIsNoNil, RootCommits
<1> QED BY <1>1, <1>4 DEF MarshalEBlock

----------------------------------------------------------------------------
LEMMA SeqOfItself == ASSUME NEW S, NEW s \in Seq(S) PROVE s \in Seq(ToSet(s))
BY DEF ToSet

LEMMA PairsInARow ==
    ASSUME NEW n \in Nat, NEW s, Len(s) = n
    PROVE  /\ Pairs(s) \in Seq(ToSet(Pairs(s))) /\ Len(Pairs(s)) = 2 * n
           /\ \A i \in 1 .. n : Pairs(s)[2 * i - 1] = s[i][1] /\ Pairs(s)[2 * i] = s[i][2]
<1> DEFINE t == Pairs(s)
<1>1. t = [j \in 1 .. (2 * n) |-> s[(j + 1) \div 2][2 - (j % 2)]]
  BY DEF Pairs
<1>2. ASSUME NEW i \in 1 .. n PROVE t[2 * i - 1] = s[i][1] /\ t[2 * i] = s[i][2]
  <2>1. /\ 2 * i - 1 \in 1 .. (2 * n) /\ 2 * i \in 1 .. (2 * n)
        /\ (2 * i - 1 + 1) \div 2 = i /\ (2 * i + 1) \div 2 = i
        /\ 2 - ((2 * i - 1) % 2) = 1 /\ 2 - ((2 * i) % 2) = 2
    OBVIOUS
  <2> HIDE DEF t
  <2> QED BY <1>1, <2>1
<1> HIDE DEF t
<1>3. Len(t) = 2 * n
  BY <1>1
<1>4. t \in Seq(ToSet(t))
  <2>1. \A j \in 1 .. (2 * n) : t[j] \in ToSet(t)
    BY <1>1 DEF ToSet
  <2>2. t \in [1 .. (2 * n) -> ToSet(t)]
    BY <1>1, <2>1
  <2> QED BY <2>2
<1> QED BY <1>2, <1>3, <1>4 DEF t

ABFields == {"prevLedgerKeyMR", "height", "count", "size", "entries", "partial", "full"}

IsABlock(b) ==
    /\ IsRecord(b, ABFields) /\ b.height \in Nat
    /\ b.entries \in Seq(ToSet(b.entries))
    /\ \A i \in 1 .. Len(b.entries) :
        /\ IsRecord(b.entries[i], {"type", "value"})
        /\ b.entries[i].type \in {"minute", "sig"}

ABEntryAt(data, i) ==
    LET type == data[3 + 2 * i][2]
        v    == data[4 + 2 * i]
    IN  ABEntry(type, IF type = "minute" THEN v[2] ELSE v)

LEMMA ABEntriesRead ==
    ASSUME NEW data
    PROVE  UnmarshalABlock(data).entries = [i \in 1 .. data[3][2] |-> ABEntryAt(data, i)]
BY DEF UnmarshalABlock, ABEntryAt

LEMMA ABFieldsRead ==
    ASSUME NEW data
    PROVE  LET w == UnmarshalABlock(data)
           IN  /\ IsRecord(w, ABFields)
               /\ w.prevLedgerKeyMR = data[1] /\ w.height = data[2][2]
               /\ w.count = data[3][2] /\ w.size = data[4][2] /\ w.partial = Nil /\ w.full = Nil
BY DEF UnmarshalABlock, IsRecord, ABFields

LEMMA ABlockReadsBack ==
    ASSUME NEW b, IsABlock(b), b.count = Len(b.entries),
           NEW w, w = UnmarshalABlock(MarshalABlock(b))
    PROVE  /\ IsABlock(w) /\ MarshalABlock(w) = MarshalABlock(b)
           /\ w.prevLedgerKeyMR = b.prevLedgerKeyMR /\ w.height = b.height
           /\ w.count = b.count /\ w.entries = b.entries /\ w.partial = Nil /\ w.full = Nil
<1> DEFINE data == MarshalABlock(b)
           n == Len(b.entries)
           s == [i \in 1 .. b.count |-> MarshalABEntry(b.entries[i])]
<1>1. n \in Nat /\ b.count = n
  BY DEF IsABlock
<1>2. Len(s) = n
  BY <1>1
<1>3. data = <<b.prevLedgerKeyMR, Num(b.height), Num(b.count), Num(b.size)>> \o Pairs(s)
  BY DEF MarshalABlock
<1>4. \A i \in 1 .. n : s[i] = MarshalABEntry(b.entries[i])
  <2> HIDE DEF n
  <2> QED BY <1>1
<1> HIDE DEF data, s
<1>5. /\ Pairs(s) \in Seq(ToSet(Pairs(s))) /\ Len(Pairs(s)) = 2 * n
      /\ \A i \in 1 .. n : Pairs(s)[2 * i - 1] = s[i][1] /\ Pairs(s)[2 * i] = s[i][2]
  BY <1>1, <1>2, PairsInARow
<1>6. /\ data[1] = b.prevLedgerKeyMR /\ data[2] = Num(b.height)
      /\ data[3] = Num(b.count) /\ data[4] = Num(b.size)
  BY <1>3, <1>5
<1>7. ASSUME NEW i \in 1 .. n
      PROVE  data[3 + 2 * i] = s[i][1] /\ data[4 + 2 * i] = s[i][2]
  <2>1. /\ 2 * i - 1 \in 1 .. (2 * n) /\ 2 * i \in 1 .. (2 * n)
        /\ 3 + 2 * i = 4 + (2 * i - 1)
    BY <1>1
  <2>2. \A j \in 1 .. (2 * n) : data[4 + j] = Pairs(s)[j]
    BY <1>1, <1>3, <1>5
  <2>3. data[3 + 2 * i] = Pairs(s)[2 * i - 1] /\ data[4 + 2 * i] = Pairs(s)[2 * i]
    BY <2>1, <2>2
  <2> QED BY <1>5, <2>3
<1> DEFINE e(i) == ABEntryAt(data, i)
<1>8. /\ IsRecord(w, ABFields)
      /\ w.prevLedgerKeyMR = b.prevLedgerKeyMR /\ w.height = b.height
      /\ w.count = b.count /\ w.size = b.size /\ w.partial = Nil /\ w.full = Nil
      /\ w.entries = [i \in 1 .. n |-> e(i)]
  <2>1. data[3][2] = n /\ w = UnmarshalABlock(data)
    BY <1>1, <1>6 DEF Num, data
  <2>2. /\ IsRecord(w, ABFields)
        /\ w.prevLedgerKeyMR = data[1] /\ w.height = data[2][2]
        /\ w.count = data[3][2] /\ w.size = data[4][2] /\ w.partial = Nil /\ w.full = Nil
    BY <2>1, ABFieldsRead
  <2>3. UnmarshalABlock(data).entries = [i \in 1 .. data[3][2] |-> e(i)]
    BY ABEntriesRead
  <2> HIDE DEF e
  <2> QED BY <1>1, <1>6, <2>1, <2>2, <2>3 DEF Num
<1>9. ASSUME NEW i \in 1 .. n PROVE e(i) = b.entries[i]
  <2> DEFINE x == b.entries[i]
  <2>1. IsRecord(x, {"type", "value"}) /\ x.type \in {"minute", "sig"}
    BY DEF IsABlock
  <2>2. /\ data[3 + 2 * i] = <<"type", x.type>>
        /\ data[4 + 2 * i] = IF x.type = "minute" THEN Num(x.value) ELSE x.value
    BY <1>4, <1>7 DEF MarshalABEntry
  <2>3. e(i) = ABEntry(x.type, x.value)
    BY <2>1, <2>2 DEF Num, ABEntryAt
  <2>4. IsRecord(ABEntry(x.type, x.value), {"type", "value"})
    BY DEF IsRecord, ABEntry
  <2>5. \A f \in {"type", "value"} : ABEntry(x.type, x.value)[f] = x[f]
    BY DEF ABEntry
  <2> HIDE DEF x
  <2>6. ABEntry(x.type, x.value) = x
    BY <2>1, <2>4, <2>5, RecordsAgree
  <2> QED BY <2>3, <2>6 DEF x
<1> HIDE DEF e
<1>10. w.entries = b.entries
  <2>1. b.entries = [i \in 1 .. n |-> b.entries[i]]
    BY DEF IsABlock
  <2> QED BY <1>8, <1>9, <2>1
<1>11. IsABlock(w)
  BY <1>8, <1>10 DEF IsABlock
<1>12. MarshalABlock(w) = MarshalABlock(b)
  BY <1>8, <1>10 DEF MarshalABlock
<1> QED BY <1>8, <1>10, <1>11, <1>12

----------------------------------------------------------------------------
DBFields == {"bodyMR", "prevKeyMR", "prevLedgerKeyMR", "timestamp", "height", "count",
             "entries"}

IsDBlock(b) ==
    /\ IsRecord(b, DBFields) /\ b.height \in Nat
    /\ b.entries \in Seq(ToSet(b.entries)) /\ Len(b.entries) >= 3
    /\ \A i \in 1 .. Len(b.entries) : IsRecord(b.entries[i], {"chain", "keyMR"})

\* A directory block as it is stored: its header says what its body is.
IsSealed(b) == IsDBlock(b) /\ b.count = Len(b.entries) /\ b.bodyMR = BuildBodyMR(b)

LEMMA BodyMRIsHash ==
    ASSUME NEW b, IsDBlock(b) PROVE BuildBodyMR(b) # Nil
<1> DEFINE n == Len(b.entries)
           e(i) == Sha("dbentry", MarshalDBEntry(b.entries[i]))
           s == [i \in DOMAIN b.entries |-> e(i)]
           S == {e(i) : i \in 1 .. n}
<1>1. n \in Nat /\ n >= 3 /\ DOMAIN b.entries = 1 .. n
  BY DEF IsDBlock
<1>2. Nil \notin S
  BY DEF Sha, Nil
<1>3. BuildBodyMR(b) = MerkleRoot(s)
  BY DEF BuildBodyMR
<1> HIDE DEF e, n
<1>4. s \in [1 .. n -> S]
  BY <1>1
<1> HIDE DEF s, S
<1>5. s \in Seq(S) /\ s # <<>>
  BY <1>1, <1>4
<1> QED BY <1>2, <1>3, <1>5, RootIsHash

LEMMA DBFieldsRead ==
    ASSUME NEW data
    PROVE  LET w == UnmarshalDBlock(data)
           IN  /\ IsRecord(w, DBFields)
               /\ w.bodyMR = data[1] /\ w.prevKeyMR = data[2] /\ w.prevLedgerKeyMR = data[3]
               /\ w.timestamp = data[4][2] /\ w.height = data[5][2] /\ w.count = data[6][2]
               /\ w.entries = [i \in 1 .. data[6][2] |->
                                  [chain |-> data[5 + 2 * i], keyMR |-> data[6 + 2 * i]]]
BY DEF UnmarshalDBlock, IsRecord, DBFields

\* A sealed directory block is read back as it was stored (directoryBlock.go).
THEOREM DBlockReadsBack ==
    ASSUME NEW b, IsSealed(b) PROVE UnmarshalDBlock(MarshalDBlock(b)) = b
<1> DEFINE data == MarshalDBlock(b)
           w == UnmarshalDBlock(data)
           n == Len(b.entries)
           s == [i \in DOMAIN b.entries |-> MarshalDBEntry(b.entries[i])]
<1>1. n \in Nat /\ b.count = n /\ DOMAIN b.entries = 1 .. n /\ b.bodyMR # Nil
  BY BodyMRIsHash DEF IsDBlock, IsSealed
<1>2. data = <<b.bodyMR, b.prevKeyMR, b.prevLedgerKeyMR, Num(b.timestamp), Num(b.height),
               Num(b.count)>> \o Pairs(s)
  BY <1>1 DEF MarshalDBlock, DBlockHeader
<1> HIDE DEF n
<1>3. Len(s) = n
  BY <1>1
<1>4. \A i \in 1 .. n : s[i] = MarshalDBEntry(b.entries[i])
  BY <1>1
<1> HIDE DEF data, s
<1>5. /\ Pairs(s) \in Seq(ToSet(Pairs(s))) /\ Len(Pairs(s)) = 2 * n
      /\ \A i \in 1 .. n : Pairs(s)[2 * i - 1] = s[i][1] /\ Pairs(s)[2 * i] = s[i][2]
  BY <1>1, <1>3, PairsInARow
<1>6. /\ data[1] = b.bodyMR /\ data[2] = b.prevKeyMR /\ data[3] = b.prevLedgerKeyMR
      /\ data[4] = Num(b.timestamp) /\ data[5] = Num(b.height) /\ data[6] = Num(b.count)
  BY <1>2, <1>5
<1>7. ASSUME NEW i \in 1 .. n
      PROVE  data[5 + 2 * i] = b.entries[i].chain /\ data[6 + 2 * i] = b.entries[i].keyMR
  <2>1. /\ 2 * i - 1 \in 1 .. (2 * n) /\ 2 * i \in 1 .. (2 * n)
        /\ 5 + 2 * i = 6 + (2 * i - 1)
    BY <1>1
  <2>2. \A j \in 1 .. (2 * n) : data[6 + j] = Pairs(s)[j]
    BY <1>1, <1>2, <1>5
  <2>3. data[5 + 2 * i] = Pairs(s)[2 * i - 1] /\ data[6 + 2 * i] = Pairs(s)[2 * i]
    BY <2>1, <2>2
  <2>4. s[i] = <<b.entries[i].chain, b.entries[i].keyMR>>
    BY <1>4 DEF MarshalDBEntry
  <2>5. data[5 + 2 * i] = s[i][1] /\ data[6 + 2 * i] = s[i][2]
    BY <1>5, <2>3
  <2> QED BY <2>4, <2>5
<1>8. ASSUME NEW i \in 1 .. n
      PROVE  [chain |-> data[5 + 2 * i], keyMR |-> data[6 + 2 * i]] = b.entries[i]
  <2> DEFINE x == b.entries[i]
             y == [chain |-> data[5 + 2 * i], keyMR |-> data[6 + 2 * i]]
  <2>1. IsRecord(x, {"chain", "keyMR"})
    BY DEF IsDBlock, IsSealed, n
  <2>2. IsRecord(y, {"chain", "keyMR"})
    BY DEF IsRecord
  <2>3. \A f \in {"chain", "keyMR"} : x[f] = y[f]
    BY <1>7
  <2> HIDE DEF x, y
  <2>4. x = y
    BY <2>1, <2>2, <2>3, RecordsAgree
  <2> QED BY <2>4 DEF x, y
<1>9. w.entries = b.entries
  <2>1. b.entries = [i \in 1 .. n |-> b.entries[i]]
    BY <1>1 DEF IsDBlock, IsSealed
  <2>2. w.entries = [i \in 1 .. n |->
                        [chain |-> data[5 + 2 * i], keyMR |-> data[6 + 2 * i]]]
    BY <1>1, <1>6, DBFieldsRead DEF Num
  <2> HIDE DEF w
  <2> QED BY <1>8, <2>1, <2>2
<1>10. /\ IsRecord(w, DBFields) /\ w.bodyMR = b.bodyMR /\ w.prevKeyMR = b.prevKeyMR
       /\ w.prevLedgerKeyMR = b.prevLedgerKeyMR /\ w.timestamp = b.timestamp
       /\ w.height = b.height /\ w.count = b.count
  <2>1. /\ IsRecord(w, DBFields)
        /\ w.bodyMR = data[1] /\ w.prevKeyMR = data[2] /\ w.prevLedgerKeyMR = data[3]
        /\ w.timestamp = data[4][2] /\ w.height = data[5][2] /\ w.count = data[6][2]
    BY DBFieldsRead
  <2> HIDE DEF w
  <2> QED BY <1>6, <2>1 DEF Num
<1> HIDE DEF w
<1>11. \A f \in DBFields : w[f] = b[f]
  BY <1>9, <1>10 DEF DBFields
<1>12. w = b
  BY <1>10, <1>11, RecordsAgree DEF IsDBlock, IsSealed
<1> QED BY <1>12 DEF w, data

----------------------------------------------------------------------------
\* Sequences that are joined.

\* Sequences agree when their members do.
LEMMA SeqsAgree ==
    ASSUME NEW S, NEW T, NEW s \in Seq(S), NEW t \in Seq(T), Len(s) = Len(t),
           \A i \in 1 .. Len(s) : s[i] = t[i]
    PROVE  s = t
OBVIOUS

LEMMA Joined ==
    ASSUME NEW S, NEW a \in Seq(S), NEW b \in Seq(S), NEW r, r = a \o b
    PROVE  /\ r \in Seq(S) /\ Len(r) = Len(a) + Len(b)
           /\ \A i \in 1 .. Len(a) : r[i] = a[i]
           /\ \A i \in 1 .. Len(b) : r[Len(a) + i] = b[i]
OBVIOUS

IsJoin(S, a, b, r) == a \in Seq(S) /\ b \in Seq(S) /\ r = a \o b

LEMMA JoinIs ==
    ASSUME NEW S, NEW a, NEW b, NEW r, IsJoin(S, a, b, r)
    PROVE  /\ r \in Seq(S) /\ Len(r) = Len(a) + Len(b)
           /\ \A i \in 1 .. Len(a) : r[i] = a[i]
           /\ \A i \in 1 .. Len(b) : r[Len(a) + i] = b[i]
BY Joined DEF IsJoin

LEMMA MembersOf ==
    ASSUME NEW S, NEW s \in Seq(S) PROVE \A i \in 1 .. Len(s) : s[i] \in S
OBVIOUS

LEMMA FirstOf ==
    ASSUME NEW S, NEW s \in Seq(S), Len(s) > 0 PROVE s # <<>> /\ Head(s) = s[1]
OBVIOUS

\* Division with remainder.
LEMMA DivisionIsUnique ==
    ASSUME NEW a \in Nat, NEW b \in Nat \ {0}, NEW q \in Nat, NEW r \in 0 .. (b - 1), a = q * b + r
    PROVE  a \div b = q /\ a % b = r
<1> DEFINE p == a \div b
           s == a % b
<1>1. a = p * b + s /\ s \in 0 .. (b - 1) /\ p \in Nat
  OBVIOUS
<1> HIDE DEF p, s
<1>2. ~ p > q
  <2> SUFFICES ASSUME p > q PROVE FALSE
    OBVIOUS
  <2>1. PICK d \in Nat : p = q + 1 + d
    <3>1. p - q - 1 \in Nat /\ p = q + 1 + (p - q - 1)
      BY <1>1
    <3> QED BY <3>1
  <2>2. p * b = q * b + b + d * b
    BY <1>1, <2>1
  <2>3. d * b >= 0
    OBVIOUS
  <2> QED BY <1>1, <2>2, <2>3
<1>3. ~ q > p
  <2> SUFFICES ASSUME q > p PROVE FALSE
    OBVIOUS
  <2>1. PICK d \in Nat : q = p + 1 + d
    <3>1. q - p - 1 \in Nat /\ q = p + 1 + (q - p - 1)
      BY <1>1
    <3> QED BY <3>1
  <2>2. q * b = p * b + b + d * b
    BY <1>1, <2>1
  <2>3. d * b >= 0
    OBVIOUS
  <2> QED BY <1>1, <2>2, <2>3
<1>4. p = q
  BY <1>1, <1>2, <1>3
<1>5. s = r
  BY <1>1, <1>4
<1> QED BY <1>4, <1>5 DEF p, s

IsPower(g, n) == g = [k \in 0 .. n |-> IF k = 0 THEN 1 ELSE 2 * g[k - 1]]

LEMMA PowerIs ==
    ASSUME NEW n \in Nat, NEW g, IsPower(g, n)
    PROVE  g[0] = 1 /\ \A k \in 1 .. n : g[k] = 2 * g[k - 1]
BY DEF IsPower

LEMMA PowersAgree ==
    ASSUME NEW n \in Nat, NEW m \in Nat, n <= m, NEW g, NEW h, IsPower(g, n), IsPower(h, m)
    PROVE  \A k \in 0 .. n : g[k] = h[k]
<1> DEFINE T == {k \in Nat : k <= n => g[k] = h[k]}
<1>1. 0 \in T
  BY PowerIs
<1>2. ASSUME NEW k \in Nat, k \in T PROVE k + 1 \in T
  <2> SUFFICES ASSUME k + 1 <= n PROVE g[k + 1] = h[k + 1]
    OBVIOUS
  <2>1. g[k] = h[k]
    BY <1>2
  <2>2. k + 1 \in 1 .. n /\ k + 1 \in 1 .. m /\ k + 1 - 1 = k
    OBVIOUS
  <2>3. g[k + 1] = 2 * g[k] /\ h[k + 1] = 2 * h[k]
    BY <2>2, PowerIs
  <2> QED BY <2>1, <2>3
<1> HIDE DEF T
<1>3. Nat \subseteq T
  BY <1>1, <1>2, SetInduction
<1> QED BY <1>3 DEF T

LEMMA TwoToIsPower ==
    ASSUME NEW n \in Nat
    PROVE  \E g : IsPower(g, n) /\ g \in [0 .. n -> Nat] /\ TwoTo(n) = g[n]
<1> DEFINE h == CHOOSE g : IsPower(g, n)
<1>1. PICK g \in [0 .. n -> Nat] : IsPower(g, n)
  BY Doubling DEF IsPower
<1>2. IsPower(h, n)
  BY <1>1
<1>3. TwoTo(n) = h[n]
  BY DEF TwoTo, IsPower
<1> HIDE DEF h
<1>4. \A k \in 0 .. n : h[k] = g[k]
  BY <1>1, <1>2, PowersAgree
<1>5. h[n] = g[n]
  BY <1>4
<1> QED BY <1>1, <1>3, <1>5

\* The powers of two.
LEMMA TwoToIs ==
    /\ TwoTo(0) = 1
    /\ \A n \in Nat : TwoTo(n) \in Nat \ {0} /\ TwoTo(n + 1) = 2 * TwoTo(n)
<1>1. TwoTo(0) = 1
  BY TwoToIsPower, PowerIs
<1>2. ASSUME NEW n \in Nat PROVE TwoTo(n) \in Nat /\ TwoTo(n + 1) = 2 * TwoTo(n)
  <2>1. PICK g : IsPower(g, n) /\ g \in [0 .. n -> Nat] /\ TwoTo(n) = g[n]
    BY TwoToIsPower
  <2>2. PICK h : IsPower(h, n + 1) /\ TwoTo(n + 1) = h[n + 1]
    <3>1. n + 1 \in Nat
      OBVIOUS
    <3> QED BY <3>1, TwoToIsPower, Zenon
  <2>3. g[n] = h[n]
    <3> DEFINE m == n + 1
    <3>1. m \in Nat /\ n <= m /\ n \in 0 .. n /\ IsPower(h, m)
      BY <2>2
    <3> HIDE DEF m
    <3>2. \A k \in 0 .. n : g[k] = h[k]
      BY <2>1, <3>1, PowersAgree
    <3> QED BY <3>1, <3>2
  <2>4. h[n + 1] = 2 * h[n]
    <3>1. n + 1 \in 1 .. (n + 1) /\ n + 1 - 1 = n
      OBVIOUS
    <3> QED BY <2>2, <3>1, PowerIs
  <2> QED BY <2>1, <2>2, <2>3, <2>4
<1> DEFINE T == {n \in Nat : TwoTo(n) # 0}
<1>3. 0 \in T /\ \A n \in Nat : n \in T => n + 1 \in T
  BY <1>1, <1>2
<1> HIDE DEF T
<1>4. Nat \subseteq T
  BY <1>3, SetInduction
<1> QED BY <1>1, <1>2, <1>4 DEF T

LEMMA TwoToPlus ==
    ASSUME NEW a \in Nat, NEW b \in Nat PROVE TwoTo(a + b) = TwoTo(a) * TwoTo(b)
<1> DEFINE T == {k \in Nat : TwoTo(a + k) = TwoTo(a) * TwoTo(k)}
<1>1. 0 \in T
  BY TwoToIs
<1>2. ASSUME NEW k \in Nat, k \in T PROVE k + 1 \in T
  <2>1. TwoTo(a + k + 1) = 2 * TwoTo(a + k) /\ TwoTo(k + 1) = 2 * TwoTo(k)
    BY TwoToIs
  <2> DEFINE x == TwoTo(a)
             y == TwoTo(k)
  <2>2. x \in Nat /\ y \in Nat
    BY TwoToIs
  <2>3. TwoTo(a + k) = x * y
    BY <1>2
  <2> HIDE DEF x, y
  <2>4. 2 * (x * y) = x * (2 * y)
    BY <2>2
  <2>5. TwoTo(a + k + 1) = x * TwoTo(k + 1)
    BY <2>1, <2>3, <2>4 DEF y
  <2>6. a + k + 1 = a + (k + 1)
    OBVIOUS
  <2> QED BY <2>5, <2>6 DEF x
<1> HIDE DEF T
<1>3. Nat \subseteq T
  BY <1>1, <1>2, SetInduction
<1> QED BY <1>3 DEF T

LEMMA Products ==
    \A x, y, z \in Nat : /\ x * y \in Nat /\ (x * y) * z = x * (y * z) /\ x * y = y * x
                         /\ (x + y) * z = x * z + y * z
OBVIOUS

LEMMA ProductNotZero == \A x, y \in Nat \ {0} : x * y \in Nat \ {0}
OBVIOUS

LEMMA Smaller ==
    ASSUME NEW a \in Nat, NEW b \in Nat \ {0}, NEW t \in 0 .. (a - 1), NEW r \in 0 .. (b - 1)
    PROVE  t * b + r \in 0 .. (a * b - 1)
<1>1. PICK d \in Nat : a = t + 1 + d
  <2>1. a - t - 1 \in Nat /\ a = t + 1 + (a - t - 1)
    OBVIOUS
  <2> QED BY <2>1
<1>2. a * b = t * b + b + d * b
  BY <1>1
<1>3. d * b >= 0 /\ t * b >= 0
  OBVIOUS
<1> QED BY <1>2, <1>3

\* The quotient by a product is the quotient of the quotient.
LEMMA DivideTwice ==
    ASSUME NEW v \in Nat, NEW b \in Nat \ {0}, NEW z \in Nat \ {0}
    PROVE  v \div (b * z) = (v \div z) \div b
<1> DEFINE x == v \div z
           r == v % z
           q == x \div b
           t == x % b
<1>1. v = x * z + r /\ r \in 0 .. (z - 1) /\ x \in Nat
  OBVIOUS
<1> HIDE DEF x, r
<1>2. x = q * b + t /\ t \in 0 .. (b - 1) /\ q \in Nat
  BY <1>1
<1> HIDE DEF q, t
<1>3. t * z + r \in 0 .. (b * z - 1)
  BY <1>1, <1>2, Smaller
<1>4. v = q * (b * z) + (t * z + r)
  <2>1. x * z = (q * b) * z + t * z
    BY <1>1, <1>2
  <2>2. (q * b) * z = q * (b * z)
    BY <1>2
  <2> QED BY <1>1, <1>2, <2>1, <2>2
<1>5. b * z \in Nat \ {0}
  BY ProductNotZero
<1> DEFINE m == b * z
           s == t * z + r
<1>6. v \div m = q
  <2>1. m \in Nat \ {0} /\ s \in 0 .. (m - 1) /\ v = q * m + s
    BY <1>3, <1>4, <1>5
  <2> HIDE DEF m, s
  <2> QED BY <1>2, <2>1, DivisionIsUnique
<1> QED BY <1>6 DEF q, x

\* The bits of v above z, but for those above m.
LEMMA MiddleBits ==
    ASSUME NEW v \in Nat, NEW m \in Nat \ {0}, NEW y \in Nat \ {0}, NEW z \in Nat \ {0}
    PROVE  ((v * y) % (m * (y * z))) \div (y * z) = (v \div z) % m
<1> DEFINE x == v \div z
           r == v % z
           a == x \div m
           t == x % m
           n == y * z
           s == r * y
<1>1. v = x * z + r /\ r \in 0 .. (z - 1) /\ x \in Nat
  OBVIOUS
<1> HIDE DEF x, r
<1>2. x = a * m + t /\ t \in 0 .. (m - 1) /\ a \in Nat
  BY <1>1
<1> HIDE DEF a, t
<1>3. n \in Nat \ {0} /\ m * n \in Nat \ {0}
  BY ProductNotZero
<1>4. s \in 0 .. (n - 1)
  <2>1. r * y + 0 \in 0 .. (z * y - 1)
    BY <1>1, Smaller
  <2>2. z * y = y * z
    OBVIOUS
  <2> QED BY <1>1, <2>1, <2>2
<1>5. v * y = a * (m * n) + (t * n + s)
  <2>1. v * y = (x * z) * y + r * y
    BY <1>1
  <2>2. (x * z) * y = x * (y * z)
    BY <1>1
  <2>3. x * n = (a * m) * n + t * n
    BY <1>2, <1>3
  <2>4. (a * m) * n = a * (m * n)
    BY <1>2, <1>3
  <2> QED BY <2>1, <2>2, <2>3, <2>4, <1>1, <1>2, <1>3
<1> HIDE DEF n, s
<1>6. t * n + s \in 0 .. (m * n - 1)
  BY <1>2, <1>3, <1>4, Smaller
<1> DEFINE u == t * n + s
           w == m * n
           k == v * y
<1>7. k % w = u
  <2>1. k \in Nat /\ w \in Nat \ {0} /\ u \in 0 .. (w - 1) /\ k = a * w + u
    BY <1>3, <1>5, <1>6
  <2> HIDE DEF k, w, u
  <2> QED BY <1>2, <2>1, DivisionIsUnique
<1>8. u \div n = t
  <2>1. u \in Nat /\ u = t * n + s
    BY <1>6
  <2> HIDE DEF u
  <2> QED BY <1>2, <1>3, <1>4, <2>1, DivisionIsUnique
<1>9. (k % w) \div n = t
  BY <1>7, <1>8
<1> QED BY <1>9 DEF k, w, n, t, x

LEMMA RemainderTwice ==
    ASSUME NEW x \in Nat, NEW b \in Nat \ {0} PROVE (x % (2 * b)) % b = x % b
<1> DEFINE m == 2 * b
           a == x \div m
           t == x % m
           c == t \div b
           d == t % b
<1>1. x = a * m + t /\ t \in Nat /\ a \in Nat
  <2>1. m \in Nat \ {0}
    OBVIOUS
  <2> HIDE DEF m
  <2> QED BY <2>1
<1> HIDE DEF a, t
<1>2. t = c * b + d /\ d \in 0 .. (b - 1) /\ c \in Nat
  BY <1>1
<1> HIDE DEF c, d
<1>3. x = (2 * a + c) * b + d
  BY <1>1, <1>2
<1> DEFINE q == 2 * a + c
<1>4. q \in Nat /\ x = q * b + d
  BY <1>1, <1>2, <1>3
<1> HIDE DEF q
<1>5. x % b = d
  BY <1>2, <1>4, DivisionIsUnique
<1> QED BY <1>5 DEF d, t

\* The value of i bytes of a variable integer, and what is above the last i.
Unit(i) == TwoTo(ChunkBits * i)
Top(v, i) == v \div Unit(Chunks - i)

LEMMA Units ==
    /\ Unit(0) = 1 /\ Unit(1) = More
    /\ \A i \in Nat : Unit(i) \in Nat \ {0}
    /\ \A i, j \in Nat : Unit(i + j) = Unit(i) * Unit(j)
<1>1. ChunkBits \in Nat /\ \A i \in Nat : ChunkBits * i \in Nat
  BY EncodingAssumption
<1>2. ChunkBits * 0 = 0 /\ ChunkBits * 1 = ChunkBits
  BY <1>1
<1>3. \A i \in Nat : Unit(i) \in Nat \ {0}
  BY <1>1, TwoToIs DEF Unit
<1>4. ASSUME NEW i \in Nat, NEW j \in Nat PROVE Unit(i + j) = Unit(i) * Unit(j)
  <2>1. ChunkBits * (i + j) = ChunkBits * i + ChunkBits * j
    BY <1>1
  <2> DEFINE a == ChunkBits * i
             b == ChunkBits * j
  <2>2. a \in Nat /\ b \in Nat
    BY <1>1
  <2> HIDE DEF a, b
  <2>3. TwoTo(a + b) = TwoTo(a) * TwoTo(b)
    BY <2>2, TwoToPlus
  <2> QED BY <2>1, <2>3 DEF Unit, a, b
<1> QED BY <1>2, <1>3, <1>4, TwoToIs DEF Unit, More

LEMMA WordIs ==
    /\ Chunks \in Nat \ {0} /\ More \in Nat \ {0} /\ More >= 2
    /\ TwoTo(WordBits) = 2 * Unit(Chunks)
    /\ TwoTo(WordBits - 1) = Unit(Chunks)
    /\ TwoTo(WordBits - ChunkBits - 1) = Unit(Chunks - 1)
    /\ Words = 0 .. (2 * Unit(Chunks) - 1)
<1>1. Chunks \in Nat \ {0} /\ ChunkBits \in Nat \ {0}
  BY EncodingAssumption
<1>2. More \in Nat \ {0} /\ More >= 2
  <2>1. ChunkBits - 1 \in Nat /\ ChunkBits - 1 + 1 = ChunkBits
    BY <1>1
  <2>2. TwoTo(ChunkBits - 1 + 1) = 2 * TwoTo(ChunkBits - 1) /\ TwoTo(ChunkBits - 1) \in Nat \ {0}
    BY <2>1, TwoToIs
  <2> QED BY <2>1, <2>2 DEF More
<1> DEFINE n == ChunkBits * Chunks
<1>3. n \in Nat /\ WordBits = n + 1 /\ ChunkBits * (Chunks - 1) = n - ChunkBits
  BY <1>1 DEF WordBits
<1> HIDE DEF n
<1>4. TwoTo(n + 1) = 2 * TwoTo(n) /\ n + 1 - 1 = n /\ n + 1 - ChunkBits - 1 = n - ChunkBits
  BY <1>1, <1>3, TwoToIs
<1>5. Unit(Chunks) = TwoTo(n) /\ Unit(Chunks - 1) = TwoTo(n - ChunkBits)
  BY <1>3 DEF Unit, n
<1> QED BY <1>1, <1>2, <1>3, <1>4, <1>5 DEF Words

\* Byte i of the encoding holds the bits that Top gains with it.
LEMMA TopBitsAre ==
    ASSUME NEW v \in Nat, NEW i \in 0 .. (Chunks - 1)
    PROVE  TopBits(v, i) = Top(v, i + 1) % (2 * More) /\ TopBits(v, i) % More = Top(v, i + 1) % More
<1> DEFINE j == Chunks - (i + 1)
           y == Unit(i)
           z == Unit(j)
           m == 2 * More
<1>1. i \in Nat /\ j \in Nat /\ i + j = Chunks - 1 /\ i + j + 1 = Chunks
  BY WordIs
<1>2. y \in Nat \ {0} /\ z \in Nat \ {0} /\ m \in Nat \ {0}
  <2>1. y \in Nat \ {0}
    BY <1>1, Units
  <2>2. z \in Nat \ {0}
    <3> HIDE DEF j
    <3> QED BY <1>1, Units
  <2>3. m \in Nat \ {0}
    BY WordIs
  <2> QED BY <2>1, <2>2, <2>3
<1>3. Unit(Chunks - 1) = y * z
  BY <1>1, Units
<1>4. TwoTo(WordBits) = m * (y * z)
  <2>1. Unit(i + j + 1) = Unit(i + j) * More
    <3>1. i + j \in Nat /\ 1 \in Nat
      BY <1>1
    <3> QED BY <3>1, Units
  <2>2. Unit(Chunks) = (y * z) * More
    BY <1>1, <1>3, <2>1
  <2>3. 2 * ((y * z) * More) = (2 * More) * (y * z)
    <3>1. y * z \in Nat
      BY <1>2
    <3> QED BY <3>1, WordIs
  <2> QED BY <2>2, <2>3, WordIs
<1>5. TopBits(v, i) = ((v * y) % (m * (y * z))) \div (y * z)
  BY <1>3, <1>4, WordIs DEF TopBits, Unit
<1>6. ((v * y) % (m * (y * z))) \div (y * z) = (v \div z) % m
  <2> HIDE DEF y, z, m
  <2> QED BY <1>2, MiddleBits
<1>7. v \div z \in Nat
  <2> HIDE DEF z
  <2> QED BY <1>2
<1>8. Top(v, i + 1) = v \div z
  BY DEF Top
<1>9. TopBits(v, i) = Top(v, i + 1) % m
  BY <1>5, <1>6, <1>8
<1>10. (Top(v, i + 1) % m) % More = Top(v, i + 1) % More
  BY <1>7, <1>8, WordIs, RemainderTwice
<1> QED BY <1>9, <1>10

LEMMA TopsAre ==
    ASSUME NEW v \in Words
    PROVE  /\ \A i \in 0 .. Chunks : Top(v, i) \in Nat /\ Top(v, i) < TwoTo(WordBits)
           /\ Top(v, 0) \in {0, 1} /\ Top(v, Chunks) = v
           /\ Top(v, 0) = 1 <=> v >= TwoTo(WordBits - 1)
           /\ \A i \in 0 .. (Chunks - 1) :
                Top(v, i + 1) = Top(v, i) * More + (Top(v, i + 1) % More)
<1>0. Chunks \in Nat \ {0} /\ Unit(Chunks) \in Nat \ {0} /\ TwoTo(WordBits) = 2 * Unit(Chunks)
  <2>1. Chunks \in Nat \ {0} /\ TwoTo(WordBits) = 2 * Unit(Chunks)
    BY WordIs
  <2> QED BY <2>1, Units
<1>1. v \in Nat /\ v < TwoTo(WordBits)
  BY <1>0, WordIs
<1>2. ASSUME NEW i \in 0 .. Chunks PROVE Chunks - i \in Nat /\ Unit(Chunks - i) \in Nat \ {0}
  <2> DEFINE j == Chunks - i
  <2>1. j \in Nat
    BY <1>0
  <2> HIDE DEF j
  <2>2. Unit(j) \in Nat \ {0}
    BY <2>1, Units
  <2> QED BY <2>1, <2>2 DEF j
<1>3. ASSUME NEW i \in 0 .. Chunks PROVE Top(v, i) \in Nat /\ Top(v, i) <= v
  <2> DEFINE z == Unit(Chunks - i)
  <2>1. z \in Nat \ {0}
    BY <1>2
  <2> HIDE DEF z
  <2>2. v \div z \in Nat /\ v = (v \div z) * z + (v % z) /\ v % z \in 0 .. (z - 1)
    BY <1>1, <2>1
  <2> DEFINE q == v \div z
             r == v % z
  <2> HIDE DEF q, r
  <2>3. q \in Nat /\ v = q * z + r /\ r \in Nat
    BY <2>1, <2>2 DEF q, r
  <2>4. PICK d \in Nat : z = 1 + d
    <3>1. z - 1 \in Nat /\ z = 1 + (z - 1)
      BY <2>1
    <3> QED BY <3>1
  <2>5. q * z = q + d * q /\ d * q >= 0
    BY <2>3, <2>4
  <2>6. q <= v
    BY <2>3, <2>5, <2>4
  <2> QED BY <2>3, <2>6 DEF Top, q, z
<1>4. Top(v, 0) \in {0, 1} /\ (Top(v, 0) = 1 <=> v >= TwoTo(WordBits - 1))
  <2> DEFINE z == Unit(Chunks)
  <2>1. z \in Nat \ {0} /\ v < 2 * z /\ TwoTo(WordBits - 1) = z /\ Chunks - 0 = Chunks
    BY <1>1, <1>2, WordIs
  <2>2. Top(v, 0) = v \div z
    BY <2>1 DEF Top
  <2> HIDE DEF z
  <2>3. CASE v < z
    <3>1. v = 0 * z + v /\ v \in 0 .. (z - 1)
      BY <1>1, <2>1, <2>3
    <3>2. v \div z = 0
      BY <1>1, <2>1, <3>1, DivisionIsUnique
    <3> QED BY <1>1, <2>1, <2>2, <2>3, <3>2
  <2>4. CASE v >= z
    <3>1. v = 1 * z + (v - z) /\ v - z \in 0 .. (z - 1)
      BY <1>1, <2>1, <2>4
    <3>2. v \div z = 1
      BY <1>1, <2>1, <3>1, DivisionIsUnique
    <3> QED BY <2>1, <2>2, <2>4, <3>2
  <2> QED BY <1>1, <2>1, <2>3, <2>4
<1>5. Top(v, Chunks) = v
  <2>1. Chunks - Chunks = 0 /\ Unit(0) = 1
    BY WordIs, Units
  <2>2. v \div 1 = v
    BY <1>1
  <2> QED BY <2>1, <2>2 DEF Top
<1>6. ASSUME NEW i \in 0 .. (Chunks - 1)
      PROVE  Top(v, i + 1) = Top(v, i) * More + (Top(v, i + 1) % More)
  <2> DEFINE j == Chunks - (i + 1)
             z == Unit(j)
             x == v \div z
  <2>1. j \in Nat /\ Chunks - i = 1 + j /\ z \in Nat \ {0} /\ Unit(1 + j) = More * z
    <3>1. j \in Nat /\ Chunks - i = 1 + j /\ 1 \in Nat
      BY <1>0
    <3> HIDE DEF j
    <3> QED BY <3>1, Units
  <2>2. Top(v, i) = v \div (More * z) /\ Top(v, i + 1) = x
    BY <2>1 DEF Top
  <2> HIDE DEF z
  <2>3. v \div (More * z) = x \div More
    BY <1>1, <2>1, DivideTwice, WordIs
  <2>4. x \in Nat
    BY <1>1, <2>1
  <2> HIDE DEF x
  <2>5. x = (x \div More) * More + (x % More)
    BY <2>4, WordIs
  <2> QED BY <2>2, <2>3, <2>5
<1>7. \A i \in 0 .. Chunks : Top(v, i) \in Nat /\ Top(v, i) < TwoTo(WordBits)
  <2>1. TwoTo(WordBits) \in Nat
    BY <1>0
  <2> QED BY <1>1, <1>3, <2>1
<1> QED BY <1>4, <1>5, <1>6, <1>7

\* These bytes are a variable integer of the value v: w holds the values of their
\* first bytes, and the last byte alone has no continuation bit.
LEMMA SuffixIs ==
    ASSUME NEW S, NEW s \in Seq(S), NEW m \in Nat, NEW k \in Nat, Len(s) = m + k,
           NEW u, u = SubSeq(s, m + 1, m + k)
    PROVE  u \in Seq(S) /\ Len(u) = k /\ \A i \in 1 .. k : u[i] = s[m + i]
<1>1. PICK p, q : p = m + 1 /\ q = m + k
  OBVIOUS
<1>2. p \in Int /\ q \in Int /\ u = SubSeq(s, p, q) /\ q - p + 1 = k /\ (p <= q <=> k # 0)
  BY <1>1
<1>3. \A i \in p .. q : s[i] \in S
  <2>1. \A i \in 1 .. (m + k) : s[i] \in S
    BY MembersOf
  <2> QED BY <1>1, <2>1
<1>4. /\ u \in Seq(S) /\ Len(u) = (IF p <= q THEN q - p + 1 ELSE 0)
      /\ \A i \in 1 .. q - p + 1 : u[i] = s[p + i - 1]
  BY ONLY <1>2, <1>3, SubSeqProperties
<1>5. ASSUME NEW i \in 1 .. k PROVE u[i] = s[m + i]
  <2>1. p + i - 1 = m + i
    BY <1>1
  <2> QED BY <1>2, <1>4, <2>1
<1> QED BY <1>2, <1>4, <1>5

VarValues(w, e, v) ==
    /\ w \in [0 .. Len(e) -> Nat] /\ w[0] = 0 /\ w[Len(e)] = v
    /\ \A k \in 1 .. Len(e) : w[k] < TwoTo(WordBits) /\ w[k] = w[k - 1] * More + (e[k][2] % More)

IsVarInt(e, v) ==
    /\ e \in Seq({Num(n) : n \in Nat}) /\ Len(e) >= 1
    /\ \A k \in 1 .. Len(e) : e[k][2] \in Nat /\ (e[k][2] >= More <=> k < Len(e))
    /\ \E w : VarValues(w, e, v)

LEMMA VarIntRead ==
    ASSUME NEW e, NEW v, IsVarInt(e, v), NEW S, NEW rest \in Seq(S),
           NEW d, d = DecodeVarInt(e \o rest)
    PROVE  d.v = v /\ d.rest = rest
<1> DEFINE data == e \o rest
           n == Len(e)
           T == S \cup {Num(m) : m \in Nat}
<1>1. e \in Seq(T) /\ rest \in Seq(T) /\ n \in Nat /\ n >= 1
  BY DEF IsVarInt
<1>2. /\ data \in Seq(T) /\ Len(data) = n + Len(rest)
      /\ \A k \in 1 .. n : data[k] = e[k]
      /\ \A k \in 1 .. Len(rest) : data[n + k] = rest[k]
  BY <1>1
<1>3. \A k \in 1 .. n : e[k][2] \in Nat /\ (e[k][2] >= More <=> k < n)
  BY DEF IsVarInt
<1> DEFINE Ends(m) == /\ data[m][2] < More \/ m = Len(data)
                      /\ \A k \in 1 .. (m - 1) : data[k][2] >= More
           last == CHOOSE m \in DOMAIN data : Ends(m)
           R(g) == g = [k \in 0 .. last |-> IF k = 0 THEN 0
                        ELSE (g[k - 1] * More + (data[k][2] % More)) % TwoTo(WordBits)]
           h == CHOOSE g : R(g)
<1>4. d = [v |-> h[last], rest |-> SubSeq(data, last + 1, Len(data))]
  BY DEF DecodeVarInt
<1> HIDE DEF data
<1>5. last = n
  <2>1. DOMAIN data = 1 .. (n + Len(rest)) /\ n \in DOMAIN data
    BY <1>1, <1>2
  <2>2. Ends(n)
    <3>1. More \in Nat
      BY WordIs
    <3>2. \A k \in 1 .. (n - 1) : data[k][2] >= More
      <4> SUFFICES ASSUME NEW k \in 1 .. (n - 1) PROVE data[k][2] >= More
        OBVIOUS
      <4>1. k \in 1 .. n /\ k < n
        BY <1>1
      <4> QED BY <1>2, <1>3, <4>1
    <3>3. data[n][2] < More \/ n = Len(data)
      <4>1. n \in 1 .. n /\ ~(n < n)
        BY <1>1
      <4>2. data[n] = e[n] /\ e[n][2] \in Nat /\ ~(e[n][2] >= More)
        BY <1>2, <1>3, <4>1
      <4> QED BY <3>1, <4>2
    <3> QED BY <3>2, <3>3
  <2>3. ASSUME NEW m \in DOMAIN data, Ends(m) PROVE m = n
    <3>1. ~ m < n
      <4> SUFFICES ASSUME m < n PROVE FALSE
        OBVIOUS
      <4>1. m \in 1 .. n /\ m # Len(data) /\ m \in Nat
        BY <1>1, <1>2, <2>1
      <4>2. data[m][2] \in Nat /\ data[m][2] >= More
        BY <1>2, <1>3, <4>1
      <4> QED BY <2>3, <4>1, <4>2, WordIs
    <3>2. ~ m > n
      <4> SUFFICES ASSUME m > n PROVE FALSE
        OBVIOUS
      <4>1. n \in 1 .. (m - 1)
        BY <1>1, <2>1
      <4>2. data[n][2] >= More
        BY <2>3, <4>1
      <4>3. n \in 1 .. n /\ ~(n < n)
        BY <1>1
      <4>4. data[n] = e[n] /\ ~(e[n][2] >= More)
        BY <1>2, <1>3, <4>3
      <4> QED BY <4>2, <4>4
    <3> QED BY <1>1, <2>1, <3>1, <3>2
  <2> HIDE DEF Ends
  <2> QED BY <2>1, <2>2, <2>3
<1> HIDE DEF last
<1>6. PICK w : VarValues(w, e, v)
  BY DEF IsVarInt
<1>7. ASSUME NEW k \in 1 .. n
      PROVE  w[k] = (w[k - 1] * More + (data[k][2] % More)) % TwoTo(WordBits)
  <2> DEFINE m == TwoTo(WordBits)
             x == w[k - 1] * More + (data[k][2] % More)
  <2>1. w[k] = x /\ w[k] < m /\ w[k] \in Nat
    <3>1. k \in 0 .. n /\ data[k] = e[k]
      BY <1>1, <1>2
    <3>2. w \in [0 .. n -> Nat] /\ w[k] < m /\ w[k] = w[k - 1] * More + (e[k][2] % More)
      BY <1>6 DEF VarValues
    <3> QED BY <3>1, <3>2
  <2>2. m \in Nat \ {0}
    <3>1. Chunks \in Nat /\ m = 2 * Unit(Chunks)
      BY WordIs
    <3>2. \A i \in Nat : Unit(i) \in Nat \ {0}
      BY Units
    <3>3. Unit(Chunks) \in Nat \ {0}
      BY <3>1, <3>2
    <3> HIDE DEF m
    <3> QED BY <3>1, <3>3
  <2> HIDE DEF m, x
  <2>3. x % m = x
    BY <2>1, <2>2
  <2> QED BY <2>1, <2>3 DEF m, x
<1>8. R(w)
  <2>1. w = [k \in 0 .. n |-> w[k]] /\ w[0] = 0
    <3>1. w \in [0 .. n -> Nat] /\ w[0] = 0
      BY <1>6 DEF VarValues
    <3> HIDE DEF n
    <3> QED BY <3>1
  <2>2. \A k \in 0 .. n : w[k] = IF k = 0 THEN 0
                        ELSE (w[k - 1] * More + (data[k][2] % More)) % TwoTo(WordBits)
    <3>1. ASSUME NEW k \in 0 .. n, k # 0
          PROVE  w[k] = (w[k - 1] * More + (data[k][2] % More)) % TwoTo(WordBits)
      <4>1. k \in 1 .. n
        BY <1>1, <3>1
      <4> QED BY <1>7, <4>1
    <3> QED BY <2>1, <3>1
  <2> DEFINE val(k) == IF k = 0 THEN 0
                       ELSE (w[k - 1] * More + (data[k][2] % More)) % TwoTo(WordBits)
  <2>3. \A k \in 0 .. n : w[k] = val(k)
    BY <2>2
  <2>4. R(w) <=> w = [k \in 0 .. n |-> val(k)]
    BY <1>5
  <2> HIDE DEF val, R
  <2> QED BY <2>1, <2>3, <2>4
<1>9. R(h)
  BY <1>8
<1> HIDE DEF h
<1>10. h[n] = w[n]
  <2> DEFINE U == {k \in Nat : k <= n => h[k] = w[k]}
  <2>1. 0 \in U
    BY <1>1, <1>5, <1>8, <1>9
  <2>2. ASSUME NEW k \in Nat, k \in U PROVE k + 1 \in U
    <3> SUFFICES ASSUME k + 1 <= n PROVE h[k + 1] = w[k + 1]
      OBVIOUS
    <3>1. k + 1 \in 1 .. n /\ k + 1 - 1 = k /\ h[k] = w[k] /\ k + 1 # 0 /\ k + 1 \in 0 .. last
      BY <1>1, <1>5, <2>2
    <3>2. w[k + 1] = (w[k] * More + (data[k + 1][2] % More)) % TwoTo(WordBits)
      BY <1>7, <3>1
    <3>3. h[k + 1] = (h[k] * More + (data[k + 1][2] % More)) % TwoTo(WordBits)
      <4> DEFINE j == k + 1
                 val(i) == (h[i - 1] * More + (data[i][2] % More)) % TwoTo(WordBits)
      <4>1. h = [i \in 0 .. last |-> IF i = 0 THEN 0 ELSE val(i)]
        BY <1>9
      <4>2. j \in 0 .. last /\ j # 0 /\ j - 1 = k
        BY <3>1
      <4> HIDE DEF val, j
      <4>3. h[j] = val(j)
        BY <4>1, <4>2
      <4> QED BY <4>2, <4>3 DEF val, j
    <3> QED BY <3>1, <3>2, <3>3
  <2> HIDE DEF U
  <2>3. Nat \subseteq U
    BY <2>1, <2>2, SetInduction
  <2> QED BY <1>1, <2>3 DEF U
<1>11. SubSeq(data, n + 1, Len(data)) = rest
  <2> DEFINE r == SubSeq(data, n + 1, Len(data))
             m == Len(rest)
  <2>1. m \in Nat /\ Len(data) = n + m
    BY <1>2
  <2>2. /\ r \in Seq(T) /\ Len(r) = m
        /\ \A i \in 1 .. m : r[i] = data[n + i]
    <3>1. n \in Nat /\ data \in Seq(T) /\ Len(data) = n + m /\ r = SubSeq(data, n + 1, n + m)
          /\ m \in Nat
      BY <1>1, <1>2, <2>1
    <3> HIDE DEF n, m, r, T
    <3> QED BY ONLY <3>1, SuffixIs
  <2> HIDE DEF r
  <2>3. \A i \in 1 .. m : r[i] = rest[i]
    BY <1>2, <2>2
  <2>4. r \in Seq(T) /\ rest \in Seq(T) /\ Len(r) = Len(rest)
        /\ \A i \in 1 .. Len(r) : r[i] = rest[i]
    BY <1>1, <2>2, <2>3
  <2>5. r = rest
    BY ONLY <2>4, SeqsAgree
  <2> QED BY <2>5 DEF r
<1> QED BY <1>4, <1>5, <1>6, <1>10, <1>11 DEF VarValues

\* EncodeVarInt in the terms of Top.
VarByte(v, i) == (TopBits(v, i) % More) + IF i = Chunks - 1 THEN 0 ELSE More
Starts(v, i)  == v >= TwoTo(WordBits - 1) \/ \E j \in 0 .. i : TopBits(v, j) # 0
Skipped(v)    == Cardinality({i \in 0 .. (Chunks - 1) : ~Starts(v, i)})
Groups(v, s)  == [k \in 1 .. (Chunks - s) |-> Num(VarByte(v, s + k - 1))]

LEMMA EncodedIs ==
    ASSUME NEW v
    PROVE  EncodeVarInt(v) = (IF v = 0 THEN <<Num(0)>> ELSE <<>>)
                \o (IF v >= TwoTo(WordBits - 1) THEN <<Num(More + 1)>> ELSE <<>>)
                \o Groups(v, Skipped(v))
BY DEF EncodeVarInt, Groups, Skipped, Starts, VarByte

LEMMA TopRises ==
    ASSUME NEW v \in Words, NEW i \in 0 .. (Chunks - 1)
    PROVE  /\ Top(v, i) \in Nat /\ Top(v, i + 1) \in Nat /\ Top(v, i) <= Top(v, i + 1)
           /\ TopBits(v, i) = 0 /\ Top(v, i) = 0 => Top(v, i + 1) = 0
           /\ Top(v, i + 1) = 0 => TopBits(v, i) = 0
<1> DEFINE x == Top(v, i)
           y == Top(v, i + 1)
           r == y % More
<1>1. Chunks \in Nat \ {0} /\ More \in Nat \ {0} /\ 2 * More \in Nat \ {0} /\ v \in Nat
  BY WordIs DEF Words
<1>2. i \in 0 .. Chunks /\ i + 1 \in 0 .. Chunks
  BY <1>1
<1>3. x \in Nat /\ y \in Nat
  BY <1>2, TopsAre
<1>4. y = x * More + r
  BY TopsAre
<1>5. TopBits(v, i) = y % (2 * More) /\ TopBits(v, i) % More = r
  BY <1>1, TopBitsAre
<1> HIDE DEF x, y
<1>6. r \in Nat
  BY <1>1, <1>3
<1> HIDE DEF r
<1>7. x <= y
  <2>1. PICK m \in Nat : More = 1 + m
    <3>1. More - 1 \in Nat /\ More = 1 + (More - 1)
      BY <1>1
    <3> QED BY <3>1
  <2>2. x * More = x + m * x /\ m * x >= 0
    BY <1>3, <2>1
  <2>3. m * x \in Nat
    BY <1>3, <2>1
  <2> QED BY <1>3, <1>4, <1>6, <2>2, <2>3
<1>8. TopBits(v, i) = 0 /\ x = 0 => y = 0
  <2> SUFFICES ASSUME TopBits(v, i) = 0, x = 0 PROVE y = 0
    OBVIOUS
  <2>1. r = 0
    BY <1>1, <1>5
  <2>2. 0 * More = 0
    BY <1>1
  <2> QED BY <1>4, <2>1, <2>2
<1>9. y = 0 => TopBits(v, i) = 0
  <2>1. \A m \in Nat \ {0} : 0 % m = 0
    OBVIOUS
  <2> QED BY <1>1, <1>5, <2>1
<1> QED BY <1>3, <1>7, <1>8, <1>9 DEF x, y

\* A number starts with the first byte from which Top is not zero.
LEMMA StartsIs ==
    ASSUME NEW v \in Words, v < TwoTo(WordBits - 1)
    PROVE  \A i \in 0 .. (Chunks - 1) : ~Starts(v, i) <=> Top(v, i + 1) = 0
<1>1. Chunks \in Nat \ {0} /\ Top(v, 0) = 0
  <2>1. v \in Nat /\ TwoTo(WordBits - 1) \in Nat
    <3>1. Chunks \in Nat /\ TwoTo(WordBits - 1) = Unit(Chunks) /\ v \in Nat
      BY WordIs DEF Words
    <3>2. \A i \in Nat : Unit(i) \in Nat \ {0}
      BY Units
    <3> QED BY <3>1, <3>2
  <2> QED BY <2>1, TopsAre, WordIs
<1> DEFINE Zeros(i) == \A j \in 0 .. i : TopBits(v, j) = 0
           T == {i \in Nat : i <= Chunks - 1 => (Zeros(i) <=> Top(v, i + 1) = 0)}
<1>2. 0 \in T
  <2>1. 0 \in 0 .. (Chunks - 1)
    BY <1>1
  <2>2. TopBits(v, 0) = 0 <=> Top(v, 0 + 1) = 0
    BY <1>1, <2>1, TopRises
  <2>3. Zeros(0) <=> TopBits(v, 0) = 0
    OBVIOUS
  <2> QED BY <2>2, <2>3
<1>3. ASSUME NEW i \in Nat, i \in T PROVE i + 1 \in T
  <2> SUFFICES ASSUME i + 1 <= Chunks - 1 PROVE Zeros(i + 1) <=> Top(v, i + 1 + 1) = 0
    OBVIOUS
  <2> DEFINE k == i + 1
  <2>1. k \in 0 .. (Chunks - 1) /\ k \in Nat
    BY <1>1
  <2>2. Zeros(i) <=> Top(v, k) = 0
    BY <1>1, <1>3
  <2>3. Zeros(k) <=> Zeros(i) /\ TopBits(v, k) = 0
    <3>1. 0 .. k = 0 .. i \cup {k}
      OBVIOUS
    <3> QED BY <3>1
  <2> HIDE DEF k, Zeros
  <2>4. /\ TopBits(v, k) = 0 /\ Top(v, k) = 0 => Top(v, k + 1) = 0
        /\ Top(v, k + 1) = 0 => TopBits(v, k) = 0
        /\ Top(v, k) <= Top(v, k + 1) /\ Top(v, k) \in Nat
    BY <2>1, TopRises
  <2>5. Zeros(k) <=> Top(v, k + 1) = 0
    BY <2>2, <2>3, <2>4
  <2> QED BY <2>5 DEF k
<1> HIDE DEF T
<1>4. Nat \subseteq T
  BY <1>2, <1>3, SetInduction
<1>5. ASSUME NEW i \in 0 .. (Chunks - 1) PROVE ~Starts(v, i) <=> Top(v, i + 1) = 0
  <2>1. i \in Nat /\ i <= Chunks - 1 /\ i \in T
    BY <1>1, <1>4
  <2>2. Zeros(i) <=> Top(v, i + 1) = 0
    BY <2>1 DEF T
  <2>3. ~(v >= TwoTo(WordBits - 1))
    <3>1. v \in Nat /\ TwoTo(WordBits - 1) \in Nat
      <4>1. Chunks \in Nat /\ TwoTo(WordBits - 1) = Unit(Chunks) /\ v \in Nat
        BY WordIs DEF Words
      <4>2. \A j \in Nat : Unit(j) \in Nat \ {0}
        BY Units
      <4> QED BY <4>1, <4>2
    <3> QED BY <3>1
  <2> QED BY <2>2, <2>3 DEF Starts
<1> QED BY <1>5

Numbers == {Num(n) : n \in Nat}

LEMMA VarByteIs ==
    ASSUME NEW v \in Words, NEW i \in 0 .. (Chunks - 1)
    PROVE  /\ VarByte(v, i) \in Nat /\ (VarByte(v, i) >= More <=> i # Chunks - 1)
           /\ Top(v, i + 1) = Top(v, i) * More + (VarByte(v, i) % More)
<1> DEFINE y == Top(v, i + 1)
           r == y % More
<1>1. Chunks \in Nat \ {0} /\ More \in Nat \ {0} /\ v \in Nat /\ i + 1 \in 0 .. Chunks
  BY WordIs DEF Words
<1>2. y \in Nat
  BY <1>1, TopsAre
<1>3. y = Top(v, i) * More + r
  BY TopsAre
<1>4. TopBits(v, i) % More = r
  BY <1>1, TopBitsAre
<1> HIDE DEF y
<1>5. r \in 0 .. (More - 1)
  BY <1>1, <1>2
<1> HIDE DEF r
<1>6. r % More = r /\ (r + More) % More = r
  <2>1. r = 0 * More + r /\ r + More = 1 * More + r
    BY <1>1, <1>5
  <2>2. r \in Nat /\ r + More \in Nat
    BY <1>1, <1>5
  <2>3. r % More = r
    BY <1>1, <1>5, <2>1, <2>2, DivisionIsUnique
  <2> DEFINE z == r + More
  <2>4. z \in Nat /\ z = 1 * More + r
    BY <2>1, <2>2
  <2> HIDE DEF z
  <2>5. z % More = r
    BY <1>1, <1>5, <2>4, DivisionIsUnique
  <2> QED BY <2>3, <2>5 DEF z
<1>7. VarByte(v, i) = r + IF i = Chunks - 1 THEN 0 ELSE More
  BY <1>4 DEF VarByte
<1>8. VarByte(v, i) \in Nat /\ (VarByte(v, i) >= More <=> i # Chunks - 1)
  BY <1>1, <1>5, <1>7
<1>9. VarByte(v, i) % More = r
  <2>1. CASE i = Chunks - 1
    <3>1. VarByte(v, i) = r
      BY <1>5, <1>7, <2>1
    <3> QED BY <1>6, <3>1
  <2>2. CASE i # Chunks - 1
    BY <1>6, <1>7, <2>2
  <2> QED BY <2>1, <2>2
<1> QED BY <1>3, <1>8, <1>9 DEF y

LEMMA GroupsAre ==
    ASSUME NEW v \in Words, NEW s \in 0 .. Chunks, NEW g, g = Groups(v, s)
    PROVE  /\ g \in Seq(Numbers) /\ Len(g) = Chunks - s
           /\ \A k \in 1 .. (Chunks - s) :
                /\ g[k][2] \in Nat /\ (g[k][2] >= More <=> k < Chunks - s)
                /\ Top(v, s + k) = Top(v, s + k - 1) * More + (g[k][2] % More)
<1>1. Chunks \in Nat /\ Chunks - s \in Nat /\ s \in Nat
  BY WordIs
<1>2. ASSUME NEW k \in 1 .. (Chunks - s)
      PROVE  LET i == s + k - 1
             IN  /\ i \in 0 .. (Chunks - 1) /\ i + 1 = s + k
                 /\ VarByte(v, i) \in Nat /\ (VarByte(v, i) >= More <=> k < Chunks - s)
                 /\ Top(v, i + 1) = Top(v, i) * More + (VarByte(v, i) % More)
  <2> DEFINE i == s + k - 1
  <2>1. i \in 0 .. (Chunks - 1) /\ i + 1 = s + k /\ (i # Chunks - 1 <=> k < Chunks - s)
    BY <1>1
  <2> HIDE DEF i
  <2>2. /\ VarByte(v, i) \in Nat /\ (VarByte(v, i) >= More <=> i # Chunks - 1)
        /\ Top(v, i + 1) = Top(v, i) * More + (VarByte(v, i) % More)
    BY <2>1, VarByteIs
  <2> QED BY <2>1, <2>2 DEF i
<1>3. \A k \in 1 .. (Chunks - s) : g[k] = Num(VarByte(v, s + k - 1))
  BY DEF Groups
<1>4. g \in Seq(Numbers) /\ Len(g) = Chunks - s
  <2> DEFINE n == Chunks - s
             b(k) == Num(VarByte(v, s + k - 1))
  <2>1. n \in Nat /\ g = [k \in 1 .. n |-> b(k)]
    BY <1>1 DEF Groups
  <2>2. \A k \in 1 .. n : b(k) \in Numbers
    BY <1>2 DEF Numbers
  <2> HIDE DEF n, b
  <2>3. g \in Seq(Numbers) /\ Len(g) = n
    BY ONLY <2>1, <2>2
  <2> QED BY <2>3 DEF n
<1>5. \A k \in 1 .. (Chunks - s) : g[k][2] = VarByte(v, s + k - 1)
  BY <1>3 DEF Num
<1> QED BY <1>2, <1>4, <1>5

LEMMA JoinedToNone ==
    ASSUME NEW S, NEW s \in Seq(S) PROVE s \o <<>> = s /\ <<>> \o s = s
BY ConcatEmptySeq

\* How many groups are skipped, for a word without the high bit.
LEMMA SkippedIs ==
    ASSUME NEW v \in Words, v < TwoTo(WordBits - 1)
    PROVE  Skipped(v) \in 0 .. Chunks /\ Top(v, Skipped(v)) = 0
           /\ (v # 0 => Skipped(v) < Chunks) /\ (v = 0 => Skipped(v) = Chunks)
<1>1. Chunks \in Nat \ {0} /\ v \in Nat
  BY WordIs DEF Words
<1>2. Top(v, 0) = 0 /\ Top(v, Chunks) = v
  <2>1. v \in Nat /\ TwoTo(WordBits - 1) \in Nat
    <3>1. Chunks \in Nat /\ TwoTo(WordBits - 1) = Unit(Chunks)
      BY WordIs
    <3>2. \A i \in Nat : Unit(i) \in Nat \ {0}
      BY Units
    <3> QED BY <1>1, <3>1, <3>2
  <2> QED BY <2>1, TopsAre
<1>3. \A i \in 0 .. (Chunks - 1) : /\ Top(v, i) \in Nat /\ Top(v, i + 1) \in Nat
                                   /\ Top(v, i) <= Top(v, i + 1)
  BY TopRises
<1> DEFINE Z == {i \in 0 .. Chunks : Top(v, i) # 0}
<1>4. \E s \in 0 .. Chunks : /\ Top(v, s) = 0
                             /\ \A i \in 0 .. Chunks : i <= s <=> Top(v, i) = 0
  <2> DEFINE T == {k \in Nat : k <= Chunks => \E s \in 0 .. k : /\ Top(v, s) = 0
                             /\ \A i \in 0 .. k : i <= s <=> Top(v, i) = 0}
  <2>1. 0 \in T
    BY <1>2
  <2>2. ASSUME NEW k \in Nat, k \in T PROVE k + 1 \in T
    <3> SUFFICES ASSUME k + 1 <= Chunks
                 PROVE  \E s \in 0 .. (k + 1) : /\ Top(v, s) = 0
                             /\ \A i \in 0 .. (k + 1) : i <= s <=> Top(v, i) = 0
      OBVIOUS
    <3>1. PICK s \in 0 .. k : /\ Top(v, s) = 0 /\ \A i \in 0 .. k : i <= s <=> Top(v, i) = 0
      BY <1>1, <2>2
    <3>2. k \in 0 .. (Chunks - 1)
      BY <1>1
    <3>3. Top(v, k) \in Nat /\ Top(v, k + 1) \in Nat /\ Top(v, k) <= Top(v, k + 1)
      BY <1>3, <3>2
    <3>4. CASE Top(v, k + 1) = 0
      <4>1. Top(v, k) = 0 /\ k \in 0 .. k
        BY <3>3, <3>4
      <4>2. k <= s /\ s \in Nat /\ s <= k
        BY <3>1, <4>1
      <4>3. \A i \in 0 .. (k + 1) : i <= k + 1 <=> Top(v, i) = 0
        <5>1. \A i \in 0 .. k : Top(v, i) = 0
          BY <3>1, <4>2
        <5>2. \A i \in 0 .. (k + 1) : i \in 0 .. k \/ i = k + 1
          OBVIOUS
        <5>3. \A i \in 0 .. (k + 1) : Top(v, i) = 0
          BY <3>4, <5>1, <5>2
        <5> QED BY <5>3
      <4>4. k + 1 \in 0 .. (k + 1)
        OBVIOUS
      <4> QED BY <3>4, <4>3, <4>4
    <3>5. CASE Top(v, k + 1) # 0
      <4>1. \A i \in 0 .. (k + 1) : i <= s <=> Top(v, i) = 0
        BY <3>1, <3>5
      <4> QED BY <3>1, <4>1
    <3> QED BY <3>4, <3>5
  <2> HIDE DEF T
  <2>3. Nat \subseteq T
    BY <2>1, <2>2, SetInduction
  <2>4. Chunks \in T /\ Chunks <= Chunks
    BY <1>1, <2>3
  <2> QED BY <2>4 DEF T
<1>5. PICK s \in 0 .. Chunks : Top(v, s) = 0 /\ \A i \in 0 .. Chunks : i <= s <=> Top(v, i) = 0
  BY <1>4
<1>6. {i \in 0 .. (Chunks - 1) : ~Starts(v, i)} = 0 .. (s - 1)
  <2>1. ASSUME NEW i \in 0 .. (Chunks - 1) PROVE ~Starts(v, i) <=> i <= s - 1
    <3>1. ~Starts(v, i) <=> Top(v, i + 1) = 0
      BY StartsIs
    <3>2. i + 1 \in 0 .. Chunks
      BY <1>1
    <3>3. Top(v, i + 1) = 0 <=> i + 1 <= s
      BY <1>5, <3>2
    <3> QED BY <1>1, <3>1, <3>3
  <2> QED BY <1>1, <2>1
<1>7. Skipped(v) = s
  <2>1. Cardinality(0 .. (s - 1)) = s
    <3>1. 0 \in Int /\ s - 1 \in Int
      OBVIOUS
    <3>2. Cardinality(0 .. (s - 1)) = IF 0 > s - 1 THEN 0 ELSE (s - 1) - 0 + 1
      BY <3>1, FS_Interval
    <3> QED BY <3>2
  <2> QED BY <1>6, <2>1 DEF Skipped
<1>8. s = Chunks <=> v = 0
  <2>1. Chunks \in 0 .. Chunks
    BY <1>1
  <2>2. Chunks <= s <=> v = 0
    BY <1>2, <1>5, <2>1
  <2> QED BY <1>1, <2>2
<1> QED BY <1>1, <1>5, <1>7, <1>8

\* Every word is written as a variable integer of its value.
LEMMA VarIntWritten ==
    ASSUME NEW v \in Words PROVE IsVarInt(EncodeVarInt(v), v)
<1> DEFINE e == EncodeVarInt(v)
           s == Skipped(v)
           g == Groups(v, s)
           n == Chunks - s
           a == IF v = 0 THEN <<Num(0)>> ELSE <<>>
           b == IF v >= TwoTo(WordBits - 1) THEN <<Num(More + 1)>> ELSE <<>>
<1>1. Chunks \in Nat \ {0} /\ More \in Nat \ {0} /\ More >= 2 /\ v \in Nat
      /\ TwoTo(WordBits - 1) \in Nat \ {0} /\ TwoTo(WordBits) \in Nat \ {0}
  <2>1. /\ Chunks \in Nat \ {0} /\ TwoTo(WordBits - 1) = Unit(Chunks)
        /\ TwoTo(WordBits) = 2 * Unit(Chunks) /\ More \in Nat \ {0} /\ More >= 2 /\ v \in Nat
    BY WordIs DEF Words
  <2>2. \A i \in Nat : Unit(i) \in Nat \ {0}
    BY Units
  <2>3. Unit(Chunks) \in Nat \ {0}
    BY <2>1, <2>2
  <2> QED BY <2>1, <2>3
<1>2. e = a \o b \o g
  BY EncodedIs
<1>3. /\ \A i \in 0 .. Chunks : Top(v, i) \in Nat /\ Top(v, i) < TwoTo(WordBits)
      /\ Top(v, Chunks) = v /\ (Top(v, 0) = 1 <=> v >= TwoTo(WordBits - 1))
  BY TopsAre
<1>4. \A k \in Nat : Num(k) \in Numbers /\ Num(k)[2] = k
  BY DEF Num, Numbers
<1>5. CASE v = 0
  <2>1. s = Chunks /\ v < TwoTo(WordBits - 1)
    BY <1>1, <1>5, SkippedIs
  <2>2. g = <<>>
    <3>1. g \in Seq(Numbers) /\ Len(g) = Chunks - s
      BY <1>1, <2>1, GroupsAre
    <3> HIDE DEF g
    <3> QED BY <1>1, <2>1, <3>1
  <2>3. a = <<Num(0)>> /\ b = <<>>
    BY <1>1, <1>5
  <2> HIDE DEF a, b, g
  <2>4. <<Num(0)>> \in Seq(Numbers)
    BY <1>4
  <2>5. e = <<Num(0)>>
    <3> DEFINE o == <<Num(0)>>
    <3>1. o \in Seq(Numbers) /\ e = (o \o <<>>) \o <<>>
      BY <1>2, <2>2, <2>3, <2>4
    <3> HIDE DEF o
    <3>2. o \o <<>> = o
      BY <3>1, JoinedToNone
    <3> QED BY <3>1, <3>2 DEF o
  <2> HIDE DEF e
  <2>6. Len(e) = 1 /\ e[1] = Num(0)
    BY <2>5
  <2> DEFINE w == [k \in 0 .. 1 |-> 0]
  <2>7. VarValues(w, e, v)
    <3>1. w \in [0 .. 1 -> Nat] /\ w[0] = 0 /\ w[1] = 0
      OBVIOUS
    <3> HIDE DEF w
    <3>2. e[1][2] % More = 0 /\ w[0] * More = 0
      <4>1. 0 % More = 0 /\ 0 * More = 0
        BY <1>1
      <4> QED BY <1>4, <2>6, <3>1, <4>1
    <3>3. \A k \in 1 .. 1 : w[k] < TwoTo(WordBits) /\ w[k] = w[k - 1] * More + (e[k][2] % More)
      BY <1>1, <3>1, <3>2
    <3> QED BY <1>5, <2>6, <3>1, <3>3 DEF VarValues
  <2> HIDE DEF w
  <2>8. \A k \in 1 .. 1 : e[k][2] \in Nat /\ (e[k][2] >= More <=> k < 1)
    BY <1>1, <1>4, <2>6
  <2>9. e \in Seq({Num(m) : m \in Nat})
    BY <2>4, <2>5 DEF Numbers
  <2>10. IsVarInt(e, v)
    BY <2>6, <2>7, <2>8, <2>9 DEF IsVarInt
  <2> QED BY <2>10 DEF e
<1>6. CASE v # 0 /\ v < TwoTo(WordBits - 1)
  <2>1. s \in 0 .. Chunks /\ Top(v, s) = 0 /\ s < Chunks
    BY <1>6, SkippedIs
  <2>2. n \in Nat \ {0}
    BY <1>1, <2>1
  <2>3. /\ g \in Seq(Numbers) /\ Len(g) = n
        /\ \A k \in 1 .. n :
                /\ g[k][2] \in Nat /\ (g[k][2] >= More <=> k < n)
                /\ Top(v, s + k) = Top(v, s + k - 1) * More + (g[k][2] % More)
    BY <2>1, GroupsAre
  <2>4. a = <<>> /\ b = <<>>
    BY <1>1, <1>6
  <2> HIDE DEF a, b, g
  <2>5. e = g
    BY <1>2, <2>3, <2>4, JoinedToNone
  <2> HIDE DEF e
  <2> DEFINE w == [k \in 0 .. n |-> Top(v, s + k)]
  <2>6. VarValues(w, e, v)
    <3>1. \A k \in 0 .. n : s + k \in 0 .. Chunks
      BY <1>1, <2>1
    <3>2. w \in [0 .. n -> Nat]
      BY <1>3, <3>1
    <3>3. w[0] = 0 /\ w[n] = v
      <4>1. s + 0 = s /\ s + n = Chunks /\ 0 \in 0 .. n /\ n \in 0 .. n
        BY <1>1, <2>1, <2>2
      <4> HIDE DEF n
      <4> QED BY <1>3, <2>1, <4>1
    <3>4. ASSUME NEW k \in 1 .. n
          PROVE  w[k] < TwoTo(WordBits) /\ w[k] = w[k - 1] * More + (e[k][2] % More)
      <4>1. k \in 0 .. n /\ k - 1 \in 0 .. n /\ s + (k - 1) = s + k - 1
        BY <2>1, <2>2
      <4>2. w[k] = Top(v, s + k) /\ w[k - 1] = Top(v, s + k - 1)
        BY <4>1
      <4>3. Top(v, s + k) < TwoTo(WordBits)
        BY <1>3, <3>1, <4>1
      <4> HIDE DEF w, n
      <4> QED BY <2>3, <2>5, <4>2, <4>3
    <3> HIDE DEF w
    <3> QED BY <2>3, <2>5, <3>2, <3>3, <3>4 DEF VarValues
  <2> HIDE DEF w, n
  <2>7. e \in Seq({Num(m) : m \in Nat}) /\ Len(e) = n /\ n >= 1
    BY <2>2, <2>3, <2>5 DEF Numbers
  <2>8. IsVarInt(e, v)
    BY <2>3, <2>5, <2>6, <2>7 DEF IsVarInt
  <2> QED BY <2>8 DEF e
<1>7. CASE v >= TwoTo(WordBits - 1)
  <2>1. s = 0
    <3>1. {i \in 0 .. (Chunks - 1) : ~Starts(v, i)} = {}
      BY <1>7 DEF Starts
    <3> QED BY <3>1, FS_EmptySet DEF Skipped
  <2>2. n = Chunks
    BY <1>1, <2>1
  <2>3. /\ g \in Seq(Numbers) /\ Len(g) = Chunks
        /\ \A k \in 1 .. Chunks :
                /\ g[k][2] \in Nat /\ (g[k][2] >= More <=> k < Chunks)
                /\ Top(v, k) = Top(v, k - 1) * More + (g[k][2] % More)
    <3>1. 0 \in 0 .. Chunks /\ Chunks - 0 = Chunks /\ g = Groups(v, 0)
      BY <1>1, <2>1
    <3> HIDE DEF g
    <3>2. /\ g \in Seq(Numbers) /\ Len(g) = Chunks - 0
          /\ \A k \in 1 .. (Chunks - 0) :
                /\ g[k][2] \in Nat /\ (g[k][2] >= More <=> k < Chunks - 0)
                /\ Top(v, 0 + k) = Top(v, 0 + k - 1) * More + (g[k][2] % More)
      BY <3>1, GroupsAre
    <3>3. \A k \in 1 .. Chunks : 0 + k = k /\ 0 + k - 1 = k - 1
      BY <1>1
    <3> QED BY <3>1, <3>2, <3>3
  <2>4. a = <<>> /\ b = <<Num(More + 1)>>
    BY <1>1, <1>7
  <2> HIDE DEF a, b, g
  <2> DEFINE o == <<Num(More + 1)>>
  <2>5. o \in Seq(Numbers) /\ Len(o) = 1 /\ o[1] = Num(More + 1)
    BY <1>1, <1>4
  <2> HIDE DEF o
  <2>6. e = o \o g
    <3>1. <<>> \o o = o
      BY <2>5, JoinedToNone
    <3> QED BY <1>2, <2>4, <3>1 DEF o
  <2> HIDE DEF e
  <2>7. /\ e \in Seq(Numbers) /\ Len(e) = 1 + Chunks /\ e[1] = Num(More + 1)
        /\ \A k \in 1 .. Chunks : e[1 + k] = g[k]
    <3>1. o \in Seq(Numbers) /\ g \in Seq(Numbers) /\ e = o \o g /\ Len(o) = 1 /\ Len(g) = Chunks
      BY <2>3, <2>5, <2>6
    <3>2. /\ e \in Seq(Numbers) /\ Len(e) = 1 + Chunks /\ e[1] = o[1]
          /\ \A k \in 1 .. Chunks : e[1 + k] = g[k]
      <4>1. /\ e \in Seq(Numbers) /\ Len(e) = Len(o) + Len(g)
            /\ \A k \in 1 .. Len(o) : e[k] = o[k]
            /\ \A k \in 1 .. Len(g) : e[Len(o) + k] = g[k]
        <5>1. o \in Seq(Numbers) /\ g \in Seq(Numbers) /\ e = o \o g
          BY <3>1
        <5> QED BY ONLY <5>1
      <4> QED BY <1>1, <3>1, <4>1
    <3> QED BY <2>5, <3>2
  <2>8. e[1][2] \in Nat /\ e[1][2] >= More /\ e[1][2] % More = 1
    <3> DEFINE z == More + 1
    <3>1. z \in Nat /\ z = 1 * More + 1 /\ 1 \in 0 .. (More - 1) /\ z >= More
      BY <1>1
    <3>2. e[1][2] = z
      BY <1>4, <2>7, <3>1
    <3> HIDE DEF z
    <3>3. z % More = 1
      BY <1>1, <3>1, DivisionIsUnique
    <3> QED BY <3>1, <3>2, <3>3
  <2>9. Top(v, 0) = 1
    BY <1>3, <1>7
  <2>10. ASSUME NEW k \in 1 .. (1 + Chunks)
         PROVE  /\ e[k][2] \in Nat /\ (e[k][2] >= More <=> k < 1 + Chunks)
                /\ k # 1 => /\ k - 1 \in 1 .. Chunks
                            /\ Top(v, k - 1) = Top(v, k - 2) * More + (e[k][2] % More)
    <3>1. CASE k = 1
      BY <1>1, <2>8, <3>1
    <3>2. CASE k # 1
      <4> DEFINE j == k - 1
      <4>1. j \in 1 .. Chunks /\ k = 1 + j /\ j - 1 = k - 2 /\ (j < Chunks <=> k < 1 + Chunks)
        BY <1>1, <3>2
      <4> HIDE DEF j
      <4>2. e[k] = g[j]
        BY <2>7, <4>1
      <4>3. /\ g[j][2] \in Nat /\ (g[j][2] >= More <=> j < Chunks)
            /\ Top(v, j) = Top(v, j - 1) * More + (g[j][2] % More)
        BY <2>3, <4>1
      <4> QED BY <4>1, <4>2, <4>3 DEF j
    <3> QED BY <3>1, <3>2
  <2> DEFINE w == [k \in 0 .. (1 + Chunks) |-> IF k = 0 THEN 0 ELSE Top(v, k - 1)]
  <2>11. VarValues(w, e, v)
    <3>1. \A k \in 0 .. (1 + Chunks) : k # 0 => k - 1 \in 0 .. Chunks
      BY <1>1
    <3>2. w \in [0 .. (1 + Chunks) -> Nat]
      BY <1>3, <3>1
    <3>3. w[0] = 0 /\ w[1 + Chunks] = v
      <4>1. 1 + Chunks - 1 = Chunks /\ 0 \in 0 .. (1 + Chunks) /\ 1 + Chunks \in 0 .. (1 + Chunks)
            /\ 1 + Chunks # 0
        BY <1>1
      <4> DEFINE m == 1 + Chunks
      <4>2. m \in 0 .. m /\ m # 0 /\ m - 1 = Chunks /\ w = [k \in 0 .. m |-> IF k = 0 THEN 0 ELSE Top(v, k - 1)]
        <5>1. m \in 0 .. m /\ m # 0 /\ m - 1 = Chunks
          BY <1>1
        <5>2. w = [k \in 0 .. m |-> IF k = 0 THEN 0 ELSE Top(v, k - 1)]
          OBVIOUS
        <5> HIDE DEF m, w
        <5> QED BY <5>1, <5>2
      <4> HIDE DEF m, w
      <4>3. w[m] = Top(v, Chunks) /\ w[0] = 0
        <5>1. 0 \in 0 .. m
          BY <1>1, <4>2
        <5> QED BY <4>2, <5>1
      <4> QED BY <1>3, <4>3 DEF m
    <3>4. ASSUME NEW k \in 1 .. (1 + Chunks)
          PROVE  w[k] < TwoTo(WordBits) /\ w[k] = w[k - 1] * More + (e[k][2] % More)
      <4>1. k \in 0 .. (1 + Chunks) /\ k # 0 /\ k - 1 \in 0 .. (1 + Chunks) /\ k - 1 - 1 = k - 2
            /\ k - 1 \in 0 .. Chunks
        BY <1>1
      <4>2. w[k] = Top(v, k - 1) /\ w[k - 1] = IF k = 1 THEN 0 ELSE Top(v, k - 2)
        BY <4>1
      <4>3. w[k] < TwoTo(WordBits)
        <5>1. Top(v, k - 1) < TwoTo(WordBits)
          BY <1>3, <4>1
        <5> HIDE DEF w
        <5> QED BY <4>2, <5>1
      <4> HIDE DEF w
      <4>4. CASE k = 1
        <5>1. w[k] = 1 /\ w[k - 1] = 0 /\ 0 * More = 0
          BY <1>1, <2>9, <4>2, <4>4
        <5> QED BY <2>8, <4>3, <4>4, <5>1
      <4>5. CASE k # 1
        BY <2>10, <4>2, <4>3, <4>5
      <4> QED BY <4>4, <4>5
    <3> HIDE DEF w
    <3> QED BY <2>7, <3>2, <3>3, <3>4 DEF VarValues
  <2> HIDE DEF w
  <2>12. e \in Seq({Num(m) : m \in Nat}) /\ Len(e) >= 1
    BY <1>1, <2>7 DEF Numbers
  <2>13. IsVarInt(e, v)
    BY <2>7, <2>10, <2>11, <2>12 DEF IsVarInt
  <2> QED BY <2>13 DEF e
<1> QED BY <1>1, <1>5, <1>6, <1>7

\* Joining is associative.
Parts(S, a, b, c, x, y, r) ==
    /\ {a, b, c} \subseteq Seq(S) /\ x = a \o b /\ y = b \o c /\ r = a \o y

LEMMA Rejoined ==
    ASSUME NEW S, NEW a, NEW b, NEW c, NEW x, NEW y, NEW r, Parts(S, a, b, c, x, y, r)
    PROVE  x \o c = r
<1>0. a \in Seq(S) /\ b \in Seq(S) /\ c \in Seq(S)
  BY DEF Parts
<1>1. (a \o b) \o c = a \o (b \o c)
  BY ONLY <1>0, ConcatAssociative
<1>2. x \o c = (a \o b) \o c /\ a \o (b \o c) = r
  BY Zenon DEF Parts
<1> QED BY ONLY <1>1, <1>2, Zenon

\* The pieces that are read one after the other: t[i] is what follows piece i.
Tails(t, s, n, S) ==
    /\ t \in [0 .. n -> Seq(S)] /\ t[n] = <<>>
    /\ \A i \in 1 .. n : t[i - 1] = s[i] \o t[i]

Heads(g, s, n, S) ==
    /\ g \in [0 .. n -> Seq(S)] /\ g[0] = <<>>
    /\ \A i \in 1 .. n : g[i] = g[i - 1] \o s[i]

LEMMA HeadsExist ==
    ASSUME NEW n \in Nat, NEW S, NEW s, \A i \in 1 .. n : s[i] \in Seq(S)
    PROVE  \E g : Heads(g, s, n, S)
<1> DEFINE F == [i \in 1 .. n |-> [q \in Seq(S) |-> q \o s[i]]]
           Q == Seq(S)
<1>1. F \in [1 .. n -> [Q -> Q]]
  OBVIOUS
<1>2. \A i \in 1 .. n, q \in Q : F[i][q] = q \o s[i]
  OBVIOUS
<1>3. <<>> \in Q
  OBVIOUS
<1> HIDE DEF F, Q
<1>4. PICK g : Iterates(g, n, Q, <<>>, F)
  BY <1>1, <1>3, RecursionExists
<1>5. g \in [0 .. n -> Q] /\ g[0] = <<>> /\ \A i \in 1 .. n : g[i] = F[i][g[i - 1]]
  BY <1>4 DEF Iterates
<1>6. ASSUME NEW i \in 1 .. n PROVE g[i] = g[i - 1] \o s[i]
  <2>1. g[i - 1] \in Q
    BY <1>5
  <2> QED BY <1>2, <1>5, <2>1
<1> QED BY <1>5, <1>6 DEF Heads, Q

LEMMA TailsExist ==
    ASSUME NEW n \in Nat, NEW S, NEW s, \A i \in 1 .. n : s[i] \in Seq(S)
    PROVE  \E t : Tails(t, s, n, S)
<1> DEFINE F == [i \in 1 .. n |-> [q \in Seq(S) |-> s[n - i + 1] \o q]]
           Q == Seq(S)
<1>0. \A i \in 1 .. n : n - i + 1 \in 1 .. n
  OBVIOUS
<1>1. F \in [1 .. n -> [Q -> Q]]
  BY <1>0
<1>2. \A i \in 1 .. n, q \in Q : F[i][q] = s[n - i + 1] \o q
  OBVIOUS
<1>3. <<>> \in Q
  OBVIOUS
<1> HIDE DEF F, Q
<1>4. PICK g : Iterates(g, n, Q, <<>>, F)
  BY <1>1, <1>3, RecursionExists
<1>5. g \in [0 .. n -> Q] /\ g[0] = <<>> /\ \A i \in 1 .. n : g[i] = F[i][g[i - 1]]
  BY <1>4 DEF Iterates
<1> DEFINE t == [i \in 0 .. n |-> g[n - i]]
<1>6. t \in [0 .. n -> Q] /\ t[n] = <<>>
  BY <1>5
<1>7. ASSUME NEW i \in 1 .. n PROVE t[i - 1] = s[i] \o t[i]
  <2> DEFINE k == n - i + 1
  <2>1. k \in 1 .. n /\ k - 1 = n - i /\ n - k + 1 = i /\ k = n - (i - 1) /\ n - i \in 0 .. n
    OBVIOUS
  <2>2. t[i - 1] = g[k] /\ t[i] = g[k - 1]
    BY <2>1
  <2> HIDE DEF t, k
  <2>3. g[k - 1] \in Q
    BY <1>5, <2>1
  <2>4. g[k] = s[n - k + 1] \o g[k - 1]
    BY <1>2, <1>5, <2>1, <2>3
  <2> QED BY <2>1, <2>2, <2>4
<1> HIDE DEF t
<1>8. Tails(t, s, n, S)
  BY <1>6, <1>7 DEF Tails, Q
<1> QED BY <1>8

\* A flattened sequence begins with the first piece and goes on with the others.
LEMMA FlattenIs ==
    ASSUME NEW n \in Nat, NEW S, NEW s, Len(s) = n, n = 0 => s = <<>>,
           \A i \in 1 .. n : s[i] \in Seq(S)
    PROVE  \E t : Tails(t, s, n, S) /\ FlattenSeq(s) = t[0]
<1>1. PICK t : Tails(t, s, n, S)
  BY TailsExist
<1>2. PICK g : Heads(g, s, n, S)
  BY HeadsExist
<1>3. /\ t \in [0 .. n -> Seq(S)] /\ t[n] = <<>>
      /\ \A i \in 1 .. n : t[i - 1] = s[i] \o t[i]
  BY <1>1 DEF Tails
<1>4. /\ g \in [0 .. n -> Seq(S)] /\ g[0] = <<>>
      /\ \A i \in 1 .. n : g[i] = g[i - 1] \o s[i]
  BY <1>2 DEF Heads
<1>7. ASSUME NEW i \in 1 .. n, g[i - 1] \o t[i - 1] = t[0] PROVE g[i] \o t[i] = t[0]
  <2>1. g[i] = g[i - 1] \o s[i] /\ t[i - 1] = s[i] \o t[i]
    BY <1>3, <1>4
  <2>2. i - 1 \in 0 .. n /\ i \in 0 .. n
    BY ONLY n \in Nat, i \in 1 .. n
  <2>3. g[i - 1] \in Seq(S) /\ s[i] \in Seq(S) /\ t[i] \in Seq(S)
    BY <1>3, <1>4, <2>2
  <2>4. Parts(S, g[i - 1], s[i], t[i], g[i], t[i - 1], t[0])
    BY <1>7, <2>1, <2>3 DEF Parts
  <2> QED BY ONLY <2>4, Rejoined
<1>5. t[0] = g[n]
  <2> DEFINE P(k) == k <= n => g[k] \o t[k] = t[0]
             T == {k \in Nat : P(k)}
  <2>0. \A k \in Nat : k \in T <=> P(k)
    OBVIOUS
  <2> HIDE DEF T, P
  <2>1. P(0)
    <3>1. t[0] \in Seq(S)
      BY <1>3
    <3>2. <<>> \o t[0] = t[0]
      BY <3>1, JoinedToNone
    <3> QED BY <1>4, <3>2 DEF P
  <2>2. ASSUME NEW k \in Nat, P(k) PROVE P(k + 1)
    <3> SUFFICES ASSUME k + 1 <= n PROVE g[k + 1] \o t[k + 1] = t[0]
      BY DEF P
    <3>0. k <= n
      OBVIOUS
    <3>1. k + 1 \in 1 .. n /\ (k + 1) - 1 = k
      BY ONLY n \in Nat, k \in Nat, k + 1 <= n
    <3>2. g[k] \o t[k] = t[0]
      BY <2>2, <3>0 DEF P
    <3> QED BY ONLY <1>7, <3>1, <3>2, Zenon
  <2>3. ASSUME NEW k \in Nat, k \in T PROVE k + 1 \in T
    <3>1. k + 1 \in Nat
      OBVIOUS
    <3> QED BY <2>0, <2>2, <2>3, <3>1
  <2>6. 0 \in T
    BY <2>0, <2>1
  <2>7. Nat \subseteq T
    BY <2>3, <2>6, SetInduction
  <2>4. g[n] \o <<>> = t[0]
    BY <1>3, <2>0, <2>7, n <= n DEF P
  <2>5. g[n] \in Seq(S)
    BY <1>4
  <2> QED BY <2>4, <2>5, JoinedToNone
<1>6. FlattenSeq(s) = g[n]
  <2>1. CASE n = 0
    BY <1>4, <2>1 DEF FlattenSeq
  <2>2. CASE n # 0
    <3> DEFINE val(f, i) == IF i = 1 THEN s[i] ELSE f[i - 1] \o s[i]
               R(f) == f = [i \in 1 .. Len(s) |-> IF i = 1 THEN s[i] ELSE f[i - 1] \o s[i]]
               h == CHOOSE f : R(f)
               f0 == [i \in 1 .. n |-> g[i]]
    <3>1. FlattenSeq(s) = h[n]
      BY <2>2 DEF FlattenSeq
    <3>2. g[1] = s[1]
      <4>1. g[1] = <<>> \o s[1] /\ s[1] \in Seq(S)
        BY <1>4, <2>2, 1 \in 1 .. n, 1 - 1 = 0
      <4> QED BY <4>1, JoinedToNone
    <3>3. \A i \in 1 .. n : f0[i] = IF i = 1 THEN s[i] ELSE f0[i - 1] \o s[i]
      <4> SUFFICES ASSUME NEW i \in 1 .. n
                   PROVE  f0[i] = IF i = 1 THEN s[i] ELSE f0[i - 1] \o s[i]
        OBVIOUS
      <4>1. f0[i] = g[i] /\ (i # 1 => f0[i - 1] = g[i - 1])
        OBVIOUS
      <4> HIDE DEF f0
      <4>2. CASE i = 1
        BY <3>2, <4>1, <4>2
      <4>3. CASE i # 1
        BY <1>4, <4>1, <4>3
      <4> QED BY <4>2, <4>3
    <3>4. f0 = [i \in 1 .. n |-> f0[i]] /\ f0[n] = g[n]
      BY <2>2
    <3> HIDE DEF f0
    <3>5. R(f0)
      <4> DEFINE e(i) == IF i = 1 THEN s[i] ELSE f0[i - 1] \o s[i]
      <4>1. \A i \in 1 .. n : f0[i] = e(i)
        BY <3>3
      <4>2. R(f0) <=> f0 = [i \in 1 .. n |-> e(i)]
        OBVIOUS
      <4> HIDE DEF e, R
      <4> QED BY <3>4, <4>1, <4>2
    <3>6. R(h)
      BY <3>5
    <3> HIDE DEF h
    <3> DEFINE T == {k \in Nat : 1 <= k /\ k <= n => h[k] = f0[k]}
    <3>7. 0 \in T
      OBVIOUS
    <3>8. ASSUME NEW k \in Nat, k \in T PROVE k + 1 \in T
      <4> SUFFICES ASSUME k + 1 <= n PROVE h[k + 1] = f0[k + 1]
        OBVIOUS
      <4> DEFINE i == k + 1
      <4>1. i \in 1 .. n /\ i - 1 = k /\ (k = 0 \/ h[k] = f0[k]) /\ (i = 1 <=> k = 0)
        BY <3>8
      <4> HIDE DEF i
      <4>2. h[i] = IF i = 1 THEN s[i] ELSE h[i - 1] \o s[i]
        BY <3>6, <4>1
      <4>3. f0[i] = IF i = 1 THEN s[i] ELSE f0[i - 1] \o s[i]
        BY <3>3, <4>1
      <4>4. h[i] = f0[i]
        BY <4>1, <4>2, <4>3
      <4> QED BY <4>4 DEF i
    <3> HIDE DEF T
    <3>9. n \in T
      BY <3>7, <3>8, SetInduction
    <3>10. h[n] = f0[n]
      BY <2>2, <3>9 DEF T
    <3> QED BY <3>1, <3>4, <3>10
  <2> QED BY <2>1, <2>2
<1> QED BY <1>1, <1>5, <1>6

LEMMA Behind ==
    ASSUME NEW S, NEW x \in S, NEW r \in Seq(S), NEW s, s = <<x>> \o r
    PROVE  s \in Seq(S) /\ s[1] = x /\ SubSeq(s, 2, Len(s)) = r
<1> DEFINE a == <<x>>
           u == SubSeq(s, 2, Len(s))
<1>1. a \in Seq(S) /\ Len(a) = 1 /\ a[1] = x
  OBVIOUS
<1>2. s = a \o r
  OBVIOUS
<1> HIDE DEF a, u
<1>3. /\ s \in Seq(S) /\ Len(s) = 1 + Len(r) /\ s[1] = x
      /\ \A i \in 1 .. Len(r) : s[1 + i] = r[i]
  <2>1. /\ s \in Seq(S) /\ Len(s) = Len(a) + Len(r)
        /\ \A i \in 1 .. Len(a) : s[i] = a[i]
        /\ \A i \in 1 .. Len(r) : s[Len(a) + i] = r[i]
    <3>1. a \in Seq(S) /\ r \in Seq(S) /\ s = a \o r
      BY <1>1, <1>2
    <3> QED BY ONLY <3>1, Joined
  <2>2. \A i \in 1 .. Len(r) : s[1 + i] = r[i]
    BY <1>1, <2>1
  <2> QED BY <1>1, <2>1, <2>2
<1>4. Len(r) \in Nat
  OBVIOUS
<1>5. u \in Seq(S) /\ Len(u) = Len(s) - 2 + 1 /\ \A i \in 1 .. Len(s) - 2 + 1 : u[i] = s[2 + i - 1]
  <2>1. \A i \in 2 .. Len(s) : s[i] \in S
    BY <1>3, <1>4
  <2>2. CASE Len(r) = 0
    BY <1>3, <1>4, <2>1, <2>2, SubSeqProperties DEF u
  <2>3. CASE Len(r) # 0
    BY <1>3, <1>4, <2>1, <2>3, SubSeqProperties DEF u
  <2> QED BY <2>2, <2>3
<1>6. Len(u) = Len(r) /\ \A i \in 1 .. Len(r) : u[i] = r[i]
  <2>1. Len(s) - 2 + 1 = Len(r)
    BY <1>3, <1>4
  <2>2. ASSUME NEW i \in 1 .. Len(r) PROVE u[i] = r[i]
    <3>1. 2 + i - 1 = 1 + i
      BY <1>4
    <3> QED BY <1>3, <1>5, <2>1, <3>1
  <2> QED BY <1>5, <2>1, <2>2
<1>7. u = r
  <2>1. u \in Seq(S) /\ r \in Seq(S) /\ Len(u) = Len(r) /\ \A i \in 1 .. Len(u) : u[i] = r[i]
    BY <1>5, <1>6
  <2> QED BY ONLY <2>1, SeqsAgree
<1> QED BY <1>3, <1>7 DEF u

Three(S, a, b, c) == a \in Seq(S) /\ b \in Seq(S) /\ c \in Seq(S)

LEMMA Associative ==
    ASSUME NEW S, NEW a, NEW b, NEW c, Three(S, a, b, c)
    PROVE  (a \o b) \o c = a \o (b \o c)
BY ConcatAssociative DEF Three

LEMMA Regrouped ==
    ASSUME NEW S, NEW a \in Seq(S), NEW b \in Seq(S), NEW r \in Seq(S)
    PROVE  b \o r \in Seq(S) /\ a \o (b \o r) \in Seq(S) /\ (a \o b) \o r = a \o (b \o r)
<1>1. Three(S, a, b, r)
  BY DEF Three
<1>2. (a \o b) \o r = a \o (b \o r)
  BY ONLY <1>1, Associative
<1>3. b \o r \in Seq(S)
  OBVIOUS
<1>4. a \o (b \o r) \in Seq(S)
  BY <1>3
<1> QED BY <1>2, <1>3, <1>4

LEMMA Grouped ==
    ASSUME NEW S, NEW x \in S, NEW y \in S, NEW z \in Seq(S), NEW r \in Seq(S)
    PROVE  /\ <<y>> \o (z \o r) \in Seq(S) /\ z \o r \in Seq(S)
           /\ (<<x>> \o (<<y>> \o z)) \o r = <<x>> \o (<<y>> \o (z \o r))
<1>1. <<x>> \in Seq(S) /\ <<y>> \in Seq(S)
  OBVIOUS
<1> DEFINE a == <<x>>
           b == <<y>>
<1>2. a \in Seq(S) /\ b \in Seq(S)
  BY <1>1
<1> HIDE DEF a, b
<1>3. b \o z \in Seq(S) /\ z \o r \in Seq(S)
  BY <1>2
<1>4. b \o (z \o r) \in Seq(S)
  BY <1>2, <1>3
<1>5. (a \o (b \o z)) \o r = a \o ((b \o z) \o r)
  <2>1. Three(S, a, b \o z, r)
    BY <1>2, <1>3 DEF Three
  <2> QED BY ONLY <2>1, Associative
<1>6. (b \o z) \o r = b \o (z \o r)
  <2>1. Three(S, b, z, r)
    BY <1>2 DEF Three
  <2> QED BY ONLY <2>1, Associative
<1>7. (a \o (b \o z)) \o r = a \o (b \o (z \o r))
  BY ONLY <1>5, <1>6, Zenon
<1> QED BY <1>3, <1>4, <1>7 DEF a, b

CreditFields == {"ecid", "msg", "index", "num"}

\* The objects of an entry credit block as the engine makes them.
IsCredit(e) ==
    /\ IsRecord(e, CreditFields)
    /\ \/ e.ecid \in Markers /\ e.msg = Nil /\ e.index = 0 /\ e.num \in Nat
       \/ e.ecid = "commit" /\ e.index = 0 /\ e.num = 0
       \/ e.ecid = "increase" /\ e.index \in Words /\ e.num \in Words

Piece(e) == <<<<"ecid", e.ecid>>>> \o MarshalECEntry(e)

Second(e) == IF e.ecid \in Markers THEN Num(e.num) ELSE <<"msg", e.msg>>
Remainder(e) ==
    IF e.ecid = "increase" THEN EncodeVarInt(e.index) \o EncodeVarInt(e.num) ELSE <<>>

LEMMA PieceIs ==
    ASSUME NEW e, IsCredit(e)
    PROVE  Piece(e) = <<<<"ecid", e.ecid>>>> \o (<<Second(e)>> \o Remainder(e))
<1>1. \A q : <<q>> \o <<>> = <<q>>
  <2> TAKE q
  <2>1. <<q>> \in Seq({q})
    OBVIOUS
  <2> QED BY <2>1, JoinedToNone
<1>2. CASE e.ecid \in Markers
  <2>1. MarshalECEntry(e) = <<Num(e.num)>>
    BY <1>2 DEF MarshalECEntry, Markers
  <2>2. Second(e) = Num(e.num) /\ Remainder(e) = <<>>
    BY <1>2 DEF Second, Remainder, Markers
  <2> QED BY <1>1, <2>1, <2>2 DEF Piece
<1>3. CASE e.ecid = "commit"
  <2>1. MarshalECEntry(e) = <<<<"msg", e.msg>>>>
    BY <1>3 DEF MarshalECEntry, Markers
  <2>2. Second(e) = <<"msg", e.msg>> /\ Remainder(e) = <<>>
    BY <1>3 DEF Second, Remainder, Markers
  <2> QED BY <1>1, <2>1, <2>2 DEF Piece
<1>4. CASE e.ecid = "increase"
  <2>1. MarshalECEntry(e) = <<<<"msg", e.msg>>>> \o (EncodeVarInt(e.index) \o EncodeVarInt(e.num))
    BY <1>4 DEF MarshalECEntry, Markers
  <2>2. Second(e) = <<"msg", e.msg>> /\ Remainder(e) = EncodeVarInt(e.index) \o EncodeVarInt(e.num)
    BY <1>4 DEF Second, Remainder, Markers
  <2> QED BY <2>1, <2>2 DEF Piece
<1> QED BY <1>2, <1>3, <1>4 DEF IsCredit

LEMMA VarIntBytes ==
    ASSUME NEW v \in Words, NEW S, Numbers \subseteq S
    PROVE  EncodeVarInt(v) \in Seq(S)
<1> DEFINE q == EncodeVarInt(v)
<1>1. q \in Seq(Numbers)
  BY VarIntWritten DEF IsVarInt, Numbers
<1> HIDE DEF q
<1>2. q \in Seq(S)
  BY <1>1
<1> QED BY <1>2 DEF q

LEMMA CreditRead ==
    ASSUME NEW e, IsCredit(e), NEW S, Numbers \subseteq S,
           <<"ecid", e.ecid>> \in S, <<"msg", e.msg>> \in S,
           NEW r \in Seq(S), NEW st, st.rest = Piece(e) \o r
    PROVE  /\ Piece(e) \in Seq(S)
           /\ ReadECEntry(st) = [rest |-> r, entries |-> Append(st.entries, e)]
<1> DEFINE x == <<"ecid", e.ecid>>
           y == Second(e)
           z == Remainder(e)
           s == st.rest
           from == SubSeq(s, 2, Len(s))
           tail == SubSeq(from, 2, Len(from))
           c == DecodeVarInt(tail)
           d == DecodeVarInt(c.rest)
<1>1. x \in S /\ y \in S /\ z \in Seq(S)
  <2>1. y \in S
    BY DEF IsCredit, Second, Numbers, Markers
  <2>2. CASE e.ecid = "increase"
    <3>1. e.index \in Words /\ e.num \in Words
      BY <2>2 DEF IsCredit, Markers
    <3> DEFINE p == EncodeVarInt(e.index)
               q == EncodeVarInt(e.num)
    <3>2. p \in Seq(S) /\ q \in Seq(S)
      BY <3>1, VarIntBytes
    <3>3. z = p \o q
      BY <2>2 DEF Remainder
    <3> HIDE DEF p, q, z
    <3>4. z \in Seq(S)
      BY ONLY <3>2, <3>3
    <3> QED BY <2>1, <3>4
  <2>3. CASE e.ecid # "increase"
    BY <2>1, <2>3 DEF Remainder
  <2> QED BY <2>2, <2>3
<1>2. Piece(e) = <<x>> \o (<<y>> \o z) /\ s = Piece(e) \o r
  BY PieceIs
<1>3. x[2] = e.ecid
  OBVIOUS
<1> HIDE DEF x, y, z, s
<1>4. /\ <<y>> \o (z \o r) \in Seq(S) /\ z \o r \in Seq(S)
      /\ s = <<x>> \o (<<y>> \o (z \o r))
  <2>1. /\ <<y>> \o (z \o r) \in Seq(S) /\ z \o r \in Seq(S)
        /\ (<<x>> \o (<<y>> \o z)) \o r = <<x>> \o (<<y>> \o (z \o r))
    BY ONLY <1>1, r \in Seq(S), Grouped
  <2>2. s = (<<x>> \o (<<y>> \o z)) \o r
    BY ONLY <1>2, Zenon
  <2> QED BY ONLY <2>1, <2>2, Zenon
<1>5. s[1] = x /\ from = <<y>> \o (z \o r)
  BY ONLY <1>1, <1>4, Behind DEF from
<1>6. from[1] = y /\ tail = z \o r
  <2> HIDE DEF from
  <2> QED BY ONLY <1>1, <1>4, <1>5, Behind DEF tail
<1>7. Piece(e) \in Seq(S)
  <2>1. <<x>> \in Seq(S) /\ <<y>> \in Seq(S)
    BY <1>1
  <2>2. <<y>> \o z \in Seq(S)
    BY <1>1, <2>1
  <2>3. <<x>> \o (<<y>> \o z) \in Seq(S)
    BY <2>1, <2>2
  <2> QED BY <1>2, <2>3
<1>8. ReadECEntry(st) =
        CASE x[2] \in Markers ->
               [rest |-> tail, entries |-> Append(st.entries, MarkerOf(x[2], from[1][2]))]
          [] x[2] = "commit" ->
               [rest |-> tail, entries |-> Append(st.entries, CommitOf(from[1][2]))]
          [] OTHER ->
               [rest |-> d.rest,
                entries |-> Append(st.entries, Increase(from[1][2], c.v, d.v))]
  BY <1>5 DEF ReadECEntry, s
<1> HIDE DEF from, tail, c, d
<1>9. \A m, k, n : e.msg = m /\ e.index = k /\ e.num = n => ECEntry(e.ecid, m, k, n) = e
  <2> TAKE m, k, n
  <2> HAVE e.msg = m /\ e.index = k /\ e.num = n
  <2> DEFINE u == ECEntry(e.ecid, m, k, n)
  <2>1. /\ IsRecord(u, CreditFields) /\ u.ecid = e.ecid /\ u.msg = m /\ u.index = k
        /\ u.num = n
    BY DEF ECEntry, IsRecord, CreditFields
  <2> HIDE DEF u
  <2>2. \A f \in CreditFields : u[f] = e[f]
    BY <2>1 DEF CreditFields
  <2>3. u = e
    BY <2>1, <2>2, RecordsAgree DEF IsCredit
  <2> QED BY <2>3 DEF u
<1>10. CASE e.ecid \in Markers
  <2>1. z = <<>> /\ y[2] = e.num /\ e.msg = Nil /\ e.index = 0
    BY <1>10 DEF y, z, Second, Remainder, Markers, IsCredit, Num
  <2>2. z \o r = r
    BY <2>1, JoinedToNone
  <2>3. MarkerOf(e.ecid, y[2]) = e
    BY <1>9, <2>1 DEF MarkerOf
  <2>5. ReadECEntry(st) = [rest |-> tail,
                            entries |-> Append(st.entries, MarkerOf(x[2], from[1][2]))]
    BY <1>3, <1>8, <1>10 DEF Markers
  <2>4. ReadECEntry(st) = [rest |-> r, entries |-> Append(st.entries, e)]
    BY <1>3, <1>6, <2>2, <2>3, <2>5
  <2> QED BY <1>7, <2>4
<1>11. CASE e.ecid = "commit"
  <2>1. z = <<>> /\ y[2] = e.msg /\ e.index = 0 /\ e.num = 0 /\ e.ecid \notin Markers
    BY <1>11 DEF y, z, Second, Remainder, Markers, IsCredit
  <2>2. z \o r = r
    BY <2>1, JoinedToNone
  <2>3. CommitOf(y[2]) = e
    BY <1>9, <1>11, <2>1 DEF CommitOf
  <2> QED BY <1>3, <1>6, <1>7, <1>8, <1>11, <2>1, <2>2, <2>3
<1>12. CASE e.ecid = "increase"
  <2> DEFINE p == EncodeVarInt(e.index)
             q == EncodeVarInt(e.num)
  <2>1. z = p \o q /\ y[2] = e.msg /\ e.index \in Words /\ e.num \in Words /\ e.ecid \notin Markers
    BY <1>12 DEF y, z, Second, Remainder, Markers, IsCredit
  <2>2. IsVarInt(p, e.index) /\ IsVarInt(q, e.num) /\ p \in Seq(S) /\ q \in Seq(S)
    BY <2>1, VarIntWritten, VarIntBytes
  <2> HIDE DEF p, q
  <2>3. tail = p \o (q \o r) /\ q \o r \in Seq(S)
    <3>1. q \o r \in Seq(S) /\ (p \o q) \o r = p \o (q \o r)
      BY ONLY <2>2, r \in Seq(S), Regrouped
    <3>2. tail = (p \o q) \o r
      BY ONLY <1>6, <2>1, Zenon
    <3> QED BY ONLY <3>1, <3>2, Zenon
  <2>4. c.v = e.index /\ c.rest = q \o r
    <3>1. c = DecodeVarInt(p \o (q \o r))
      BY <2>3 DEF c
    <3>2. PICK w : w = q \o r
      OBVIOUS
    <3>3. w \in Seq(S) /\ c = DecodeVarInt(p \o w)
      BY ONLY <2>3, <3>1, <3>2, Zenon
    <3>4. c.v = e.index /\ c.rest = w
      BY ONLY <2>2, <3>3, VarIntRead
    <3> QED BY ONLY <3>2, <3>4, Zenon
  <2>5. d.v = e.num /\ d.rest = r
    <3>1. d = DecodeVarInt(q \o r)
      BY <2>4 DEF d
    <3> QED BY ONLY <2>2, <3>1, r \in Seq(S), VarIntRead
  <2>6. Increase(y[2], c.v, d.v) = e
    BY <1>9, <1>12, <2>1, <2>4, <2>5 DEF Increase
  <2> QED BY <1>3, <1>6, <1>7, <1>8, <1>12, <2>1, <2>5, <2>6
<1> QED BY <1>10, <1>11, <1>12 DEF IsCredit

\* What follows a header of m fields.
LEMMA BehindHeader ==
    ASSUME NEW S, NEW a \in Seq(S), NEW m, Len(a) = m, NEW r \in Seq(S), NEW s, s = a \o r
    PROVE  /\ s \in Seq(S) /\ \A i \in 1 .. m : s[i] = a[i]
           /\ SubSeq(s, m + 1, Len(s)) = r
<1> DEFINE u == SubSeq(s, m + 1, Len(s))
           k == Len(r)
<1>1. m \in Nat /\ k \in Nat
  OBVIOUS
<1>2. /\ s \in Seq(S) /\ Len(s) = m + k
      /\ \A i \in 1 .. m : s[i] = a[i]
      /\ \A i \in 1 .. k : s[m + i] = r[i]
  <2>1. a \in Seq(S) /\ r \in Seq(S) /\ s = a \o r
    OBVIOUS
  <2>2. /\ s \in Seq(S) /\ Len(s) = Len(a) + Len(r)
        /\ \A i \in 1 .. Len(a) : s[i] = a[i]
        /\ \A i \in 1 .. Len(r) : s[Len(a) + i] = r[i]
    <3>1. IsJoin(S, a, r, s)
      BY <2>1 DEF IsJoin
    <3> QED BY ONLY <3>1, JoinIs
  <2> QED BY <2>2
<1>4. u \in Seq(S) /\ Len(u) = k /\ \A i \in 1 .. k : u[i] = s[m + i]
  <2>1. m \in Nat /\ s \in Seq(S) /\ Len(s) = m + k /\ u = SubSeq(s, m + 1, m + k) /\ k \in Nat
    BY <1>1, <1>2
  <2> HIDE DEF u, k
  <2> QED BY ONLY <2>1, SuffixIs
<1> HIDE DEF u, k
<1>5. u = r
  <2>1. u \in Seq(S) /\ r \in Seq(S) /\ Len(u) = Len(r) /\ \A i \in 1 .. Len(u) : u[i] = r[i]
    BY <1>2, <1>4 DEF k
  <2> QED BY ONLY <2>1, SeqsAgree
<1> QED BY <1>2, <1>5 DEF u

ECFields == {"bodyHash", "prevHeaderHash", "prevLedgerKeyMR", "height", "count", "size",
             "entries"}

IsECBlock(b) ==
    /\ IsRecord(b, ECFields) /\ b.height \in Nat
    /\ b.entries \in Seq(ToSet(b.entries))
    /\ \A i \in 1 .. Len(b.entries) : IsCredit(b.entries[i])

\* The objects e of a block, read one after the other: t[i] is left after the ith.
CreditList(e, t, n, S) ==
    /\ n \in Nat /\ Numbers \subseteq S /\ e \in Seq(ToSet(e)) /\ Len(e) = n
    /\ \A i \in 1 .. n : IsCredit(e[i]) /\ <<"ecid", e[i].ecid>> \in S
                                       /\ <<"msg", e[i].msg>> \in S
    /\ t \in [0 .. n -> Seq(S)]
    /\ \A i \in 1 .. n : t[i - 1] = Piece(e[i]) \o t[i]

State(e, t, k) == [rest |-> t[k], entries |-> SubSeq(e, 1, k)]

LEMMA CreditStep ==
    ASSUME NEW e, NEW t, NEW n, NEW S, CreditList(e, t, n, S), NEW i \in 1 .. n
    PROVE  ReadECEntry(State(e, t, i - 1)) = State(e, t, i)
<1> DEFINE k == i - 1
           st == State(e, t, k)
           r == t[i]
           c == e[i]
           E == ToSet(e)
<1>1. n \in Nat /\ e \in Seq(E) /\ Len(e) = n
  BY DEF CreditList
<1>2. k \in Nat /\ k + 1 = i /\ i \in 0 .. n
  BY <1>1
<1>3. st.rest = t[i - 1] /\ st.entries = SubSeq(e, 1, k)
  BY DEF State
<1>4. t[i - 1] = Piece(c) \o r
  BY DEF CreditList
<1>5. IsCredit(c) /\ <<"ecid", c.ecid>> \in S /\ <<"msg", c.msg>> \in S
  BY DEF CreditList
<1>6. r \in Seq(S) /\ Numbers \subseteq S
  BY <1>2 DEF CreditList
<1> HIDE DEF st, r, c, k
<1>7. st.rest = Piece(c) \o r
  BY ONLY <1>3, <1>4, Zenon
<1>8. ReadECEntry(st) = [rest |-> r, entries |-> Append(st.entries, c)]
  BY ONLY <1>5, <1>6, <1>7, CreditRead
<1>9. Append(SubSeq(e, 1, k), c) = SubSeq(e, 1, i)
  <2> DEFINE a == Append(SubSeq(e, 1, k), e[i])
             b == SubSeq(e, 1, i)
  <2>1. e \in Seq(E) /\ i \in 1 .. Len(e) /\ k + 1 = i /\ k \in Nat
    BY <1>1, <1>2
  <2> HIDE DEF E
  <2>2. a \in Seq(E) /\ b \in Seq(E) /\ Len(a) = Len(b) /\ \A j \in 1 .. Len(a) : a[j] = b[j]
    BY ONLY <2>1 DEF a, b
  <2> HIDE DEF a, b
  <2>3. a = b
    BY ONLY <2>2, SeqsAgree
  <2> QED BY <2>3 DEF a, b, c
<1>10. ReadECEntry(st) = [rest |-> r, entries |-> SubSeq(e, 1, i)]
  BY ONLY <1>3, <1>8, <1>9, Zenon
<1> QED BY <1>10 DEF st, k, r, State

Loop(e, t, n, f) ==
    f = [k \in 0 .. n |-> IF k = 0 THEN State(e, t, 0) ELSE ReadECEntry(f[k - 1])]

\* The loop over the objects has a solution, and finds the objects.
LEMMA CreditsRead ==
    ASSUME NEW e, NEW t, NEW n, NEW S, CreditList(e, t, n, S)
    PROVE  /\ \E f : Loop(e, t, n, f)
           /\ \A f : Loop(e, t, n, f) => f[n].entries = e
<1>1. n \in Nat /\ e \in Seq(ToSet(e)) /\ Len(e) = n
  BY DEF CreditList
<1>2. \E f : Loop(e, t, n, f)
  <2> DEFINE g == [k \in 0 .. n |-> State(e, t, k)]
             val(k) == IF k = 0 THEN State(e, t, 0) ELSE ReadECEntry(g[k - 1])
  <2>1. ASSUME NEW k \in 0 .. n PROVE g[k] = val(k)
    <3>1. CASE k = 0
      BY <3>1
    <3>2. CASE k # 0
      <4>1. k \in 1 .. n /\ k - 1 \in 0 .. n
        BY <1>1, <3>2
      <4>2. g[k - 1] = State(e, t, k - 1) /\ g[k] = State(e, t, k)
        BY <4>1
      <4> HIDE DEF g
      <4> QED BY <3>2, <4>1, <4>2, CreditStep
    <3> QED BY <3>1, <3>2
  <2>2. g = [k \in 0 .. n |-> g[k]]
    OBVIOUS
  <2>3. Loop(e, t, n, g) <=> g = [k \in 0 .. n |-> val(k)]
    BY DEF Loop
  <2> HIDE DEF val, g
  <2>4. Loop(e, t, n, g)
    BY <2>1, <2>2, <2>3
  <2> QED BY <2>4
<1>3. ASSUME NEW f, Loop(e, t, n, f) PROVE f[n].entries = e
  <2> DEFINE P(k) == k <= n => f[k] = State(e, t, k)
             T == {k \in Nat : P(k)}
  <2>0. \A k \in Nat : k \in T <=> P(k)
    OBVIOUS
  <2>1. /\ f[0] = State(e, t, 0)
        /\ \A k \in 1 .. n : f[k] = ReadECEntry(f[k - 1])
    BY <1>1, <1>3 DEF Loop
  <2> HIDE DEF T
  <2>2. 0 \in T
    BY <2>0, <2>1
  <2>3. ASSUME NEW k \in Nat, k \in T PROVE k + 1 \in T
    <3>1. k + 1 \in Nat /\ P(k)
      BY <2>0, <2>3
    <3>2. ASSUME k + 1 <= n PROVE f[k + 1] = State(e, t, k + 1)
      <4>1. k + 1 \in 1 .. n /\ (k + 1) - 1 = k /\ k <= n
        BY ONLY <1>1, <3>2, k \in Nat
      <4>2. f[k] = State(e, t, k)
        BY <3>1, <4>1
      <4>3. f[k + 1] = ReadECEntry(f[(k + 1) - 1])
        BY ONLY <2>1, <4>1, Zenon
      <4>4. ReadECEntry(State(e, t, (k + 1) - 1)) = State(e, t, k + 1)
        BY ONLY <4>1, CreditList(e, t, n, S), CreditStep, Zenon
      <4> QED BY ONLY <4>1, <4>2, <4>3, <4>4, Zenon
    <3> QED BY <2>0, <3>1, <3>2
  <2>4. Nat \subseteq T
    BY <2>2, <2>3, SetInduction
  <2>5. n \in T /\ n <= n
    BY <1>1, <2>4
  <2>6. f[n] = State(e, t, n)
    BY <1>1, <2>0, <2>5
  <2>7. SubSeq(e, 1, n) = e
    <3> DEFINE E == ToSet(e)
               b == SubSeq(e, 1, n)
    <3>1. e \in Seq(E) /\ n = Len(e)
      BY <1>1
    <3> HIDE DEF E
    <3>2. b \in Seq(E) /\ Len(b) = Len(e) /\ \A j \in 1 .. Len(b) : b[j] = e[j]
      BY ONLY <3>1 DEF b
    <3> HIDE DEF b
    <3>3. b = e
      BY ONLY <3>1, <3>2, SeqsAgree
    <3> QED BY <3>3 DEF b
  <2> QED BY <2>6, <2>7 DEF State
<1> QED BY <1>2, <1>3

LEMMA ECBuilt ==
    ASSUME NEW b, IsECBlock(b), NEW u, u = BuildECBlockHeader(b)
    PROVE  /\ IsECBlock(u) /\ u.entries = b.entries /\ u.height = b.height
           /\ u.prevHeaderHash = b.prevHeaderHash /\ u.prevLedgerKeyMR = b.prevLedgerKeyMR
           /\ u.count = Len(b.entries) /\ u.size = Len(MarshalECBody(b))
           /\ u.bodyHash = Sha("ecbody", MarshalECBody(b))
           /\ BuildECBlockHeader(u) = u
           /\ MarshalECBody(u) = MarshalECBody(b)
           /\ MarshalECBlock(u) = MarshalECBlock(b)
<1> DEFINE body == MarshalECBody(b)
<1>1. /\ IsRecord(u, ECFields)
      /\ u.entries = b.entries /\ u.height = b.height
      /\ u.prevHeaderHash = b.prevHeaderHash /\ u.prevLedgerKeyMR = b.prevLedgerKeyMR
      /\ u.count = Len(b.entries) /\ u.size = Len(body) /\ u.bodyHash = Sha("ecbody", body)
  <2>1. b = [f \in ECFields |-> b[f]]
    BY DEF IsECBlock, IsRecord
  <2>2. u = [b EXCEPT !.bodyHash = Sha("ecbody", body), !.count = Len(b.entries),
                      !.size = Len(body)]
    BY DEF BuildECBlockHeader
  <2> HIDE DEF body
  <2> QED BY ONLY <2>1, <2>2 DEF ECFields, IsRecord
<1>2. MarshalECBody(u) = body
  BY <1>1 DEF MarshalECBody
<1> HIDE DEF body
<1>3. IsECBlock(u)
  BY <1>1 DEF IsECBlock
<1>4. BuildECBlockHeader(u) = u
  <2> DEFINE w == BuildECBlockHeader(u)
  <2>1. w = [u EXCEPT !.bodyHash = Sha("ecbody", body), !.count = Len(u.entries),
                      !.size = Len(body)]
    BY <1>2 DEF BuildECBlockHeader
  <2>2. u = [f \in ECFields |-> u[f]] /\ DOMAIN u = ECFields
    BY <1>1 DEF IsRecord
  <2> HIDE DEF w
  <2>3. IsRecord(w, ECFields) /\ \A f \in ECFields : w[f] = u[f]
    BY <1>1, <2>1, <2>2 DEF ECFields, IsRecord
  <2>4. IsRecord(u, ECFields)
    BY <1>1
  <2>5. w = u
    BY ONLY <2>3, <2>4, RecordsAgree
  <2> QED BY <2>5 DEF w
<1>5. MarshalECBlock(u) = MarshalECBlock(b)
  BY <1>2, <1>4 DEF MarshalECBlock, body
<1> QED BY <1>1, <1>2, <1>3, <1>4, <1>5 DEF body

ECBytes(b) ==
    Numbers \cup {<<"ecid", b.entries[i].ecid>> : i \in 1 .. Len(b.entries)}
            \cup {<<"msg", b.entries[i].msg>> : i \in 1 .. Len(b.entries)}
            \cup {Sha("ecbody", MarshalECBody(b)), b.prevHeaderHash, b.prevLedgerKeyMR,
                  Num(b.height), Num(Len(b.entries)), Num(Len(MarshalECBody(b)))}

LEMMA ECBodyIs ==
    ASSUME NEW b, IsECBlock(b), NEW n, n = Len(b.entries), NEW S, S = ECBytes(b)
    PROVE  \E t : CreditList(b.entries, t, n, S) /\ MarshalECBody(b) = t[0]
<1> DEFINE e == b.entries
           s == [i \in DOMAIN e |-> Piece(e[i])]
<1>1. n \in Nat /\ e \in Seq(ToSet(e)) /\ Len(e) = n /\ DOMAIN e = 1 .. n
  BY DEF IsECBlock
<1>2. Numbers \subseteq S
  BY DEF ECBytes
<1>3. ASSUME NEW i \in 1 .. n
      PROVE IsCredit(e[i]) /\ <<"ecid", e[i].ecid>> \in S /\ <<"msg", e[i].msg>> \in S
  BY DEF ECBytes, IsECBlock
<1>4. MarshalECBody(b) = FlattenSeq(s)
  BY DEF MarshalECBody, Piece
<1>5. ASSUME NEW i \in 1 .. n PROVE Piece(e[i]) \in Seq(S)
  <2> DEFINE c == e[i]
             r == <<>>
             st == [rest |-> Piece(c) \o r]
  <2>1. /\ IsCredit(c) /\ <<"ecid", c.ecid>> \in S /\ <<"msg", c.msg>> \in S
        /\ r \in Seq(S) /\ st.rest = Piece(c) \o r /\ Numbers \subseteq S
    BY <1>2, <1>3
  <2> HIDE DEF c, r, st
  <2>2. Piece(c) \in Seq(S)
    BY ONLY <2>1, CreditRead
  <2> QED BY <2>2 DEF c
<1>6. /\ Len(s) = n /\ (n = 0 => s = <<>>)
      /\ \A i \in 1 .. n : s[i] \in Seq(S) /\ s[i] = Piece(e[i])
  <2> HIDE DEF e
  <2> QED BY <1>1, <1>5
<1> HIDE DEF e, s
<1>7. PICK t : Tails(t, s, n, S) /\ FlattenSeq(s) = t[0]
  <2>1. n \in Nat /\ Len(s) = n /\ (n = 0 => s = <<>>) /\ \A i \in 1 .. n : s[i] \in Seq(S)
    BY <1>1, <1>6
  <2> QED BY ONLY <2>1, FlattenIs
<1>8. CreditList(e, t, n, S)
  BY <1>1, <1>2, <1>3, <1>6, <1>7 DEF Tails, CreditList
<1> QED BY <1>4, <1>7, <1>8 DEF e

\* An entry credit block is read back as it was stored, markers, commits and
\* purchases of any amount in any order (ecblock.go, varint.go).
THEOREM ECBlockReadsBack ==
    ASSUME NEW b, IsECBlock(b)
    PROVE  UnmarshalECBlock(MarshalECBlock(b)) = BuildECBlockHeader(b)
<1> DEFINE u == BuildECBlockHeader(b)
           e == b.entries
           n == Len(e)
           S == ECBytes(b)
           body == MarshalECBody(b)
           a == ECBlockHeader(u)
           data == MarshalECBlock(b)
<1>1. /\ IsRecord(u, ECFields) /\ u.entries = e /\ u.height = b.height
      /\ u.prevHeaderHash = b.prevHeaderHash /\ u.prevLedgerKeyMR = b.prevLedgerKeyMR
      /\ u.count = n /\ u.size = Len(body) /\ u.bodyHash = Sha("ecbody", body)
  BY ECBuilt DEF IsECBlock
<1>2. data = a \o body
  BY DEF MarshalECBlock
<1> HIDE DEF u
<1>3. /\ a \in Seq(S) /\ Len(a) = 6 /\ a[1] = u.bodyHash /\ a[2] = u.prevHeaderHash
      /\ a[3] = u.prevLedgerKeyMR /\ a[4] = Num(u.height) /\ a[5] = Num(n) /\ a[6] = Num(u.size)
  <2>1. /\ u.bodyHash \in S /\ u.prevHeaderHash \in S /\ u.prevLedgerKeyMR \in S
        /\ Num(u.height) \in S /\ Num(u.count) \in S /\ Num(u.size) \in S
    BY <1>1 DEF ECBytes
  <2> HIDE DEF S
  <2>2. a = <<u.bodyHash, u.prevHeaderHash, u.prevLedgerKeyMR, Num(u.height),
              Num(u.count), Num(u.size)>>
    BY DEF ECBlockHeader
  <2> HIDE DEF a, n
  <2> QED BY ONLY <1>1, <2>1, <2>2
<1>4. PICK t : CreditList(e, t, n, S) /\ body = t[0]
  BY ECBodyIs
<1>5. n \in Nat /\ t \in [0 .. n -> Seq(S)] /\ body = t[0]
  BY <1>4 DEF CreditList
<1>6. body \in Seq(S)
  BY <1>5
<1>7. (\A i \in 1 .. 6 : data[i] = a[i]) /\ SubSeq(data, 7, Len(data)) = body
  <2>0. PICK m : m = 6
    OBVIOUS
  <2>1. a \in Seq(S) /\ Len(a) = m /\ body \in Seq(S) /\ data = a \o body
    BY <1>2, <1>3, <1>6, <2>0
  <2> HIDE DEF a, body, data, S
  <2>2. (\A i \in 1 .. m : data[i] = a[i]) /\ SubSeq(data, m + 1, Len(data)) = body
    BY ONLY <2>1, BehindHeader
  <2>3. m + 1 = 7
    BY <2>0
  <2> QED BY ONLY <2>0, <2>2, <2>3
<1>8. /\ data[1] = u.bodyHash /\ data[2] = u.prevHeaderHash /\ data[3] = u.prevLedgerKeyMR
      /\ data[4][2] = u.height /\ data[5][2] = n /\ data[6][2] = u.size
      /\ SubSeq(data, 7, Len(data)) = t[0]
  <2> HIDE DEF a, body, data, S, n
  <2>1. data[1] = a[1] /\ data[2] = a[2] /\ data[3] = a[3] /\ data[4] = a[4] /\ data[5] = a[5]
        /\ data[6] = a[6]
    BY ONLY <1>7
  <2>2. SubSeq(data, 7, Len(data)) = t[0]
    BY ONLY <1>5, <1>7, Zenon
  <2> QED BY ONLY <1>3, <2>1, <2>2 DEF Num
<1> DEFINE s0 == [rest |-> SubSeq(data, 7, Len(data)), entries |-> <<>>]
           R(f) == f = [k \in 0 .. data[5][2] |-> IF k = 0 THEN s0 ELSE ReadECEntry(f[k - 1])]
           h == CHOOSE f : R(f)
           w == UnmarshalECBlock(data)
<1>9. w = [bodyHash |-> data[1], prevHeaderHash |-> data[2], prevLedgerKeyMR |-> data[3],
           height |-> data[4][2], count |-> data[5][2], size |-> data[6][2],
           entries |-> h[data[5][2]].entries]
  BY DEF UnmarshalECBlock
<1>10. s0 = State(e, t, 0)
  <2>1. SubSeq(e, 1, 0) = <<>>
    BY DEF IsECBlock
  <2> QED BY <1>8, <2>1 DEF State
<1> HIDE DEF data, body, a, S, n, s0
<1>11. \A f : R(f) <=> Loop(e, t, n, f)
  BY <1>8, <1>10 DEF Loop
<1> HIDE DEF R
<1>12. (\E f : Loop(e, t, n, f)) /\ \A f : Loop(e, t, n, f) => f[n].entries = e
  BY ONLY <1>4, CreditsRead
<1>13. R(h)
  BY <1>11, <1>12
<1>14. h[n].entries = e
  BY <1>11, <1>12, <1>13
<1> HIDE DEF h
<1>15. IsRecord(w, ECFields) /\ \A f \in ECFields : w[f] = u[f]
  <2>1. w = [bodyHash |-> u.bodyHash, prevHeaderHash |-> u.prevHeaderHash,
             prevLedgerKeyMR |-> u.prevLedgerKeyMR, height |-> u.height, count |-> u.count,
             size |-> u.size, entries |-> u.entries]
    BY <1>1, <1>8, <1>9, <1>14
  <2> HIDE DEF w
  <2> QED BY ONLY <2>1 DEF IsRecord, ECFields
<1> HIDE DEF w
<1>16. w = u
  <2>1. IsRecord(w, ECFields) /\ IsRecord(u, ECFields) /\ \A f \in ECFields : w[f] = u[f]
    BY <1>1, <1>15
  <2> QED BY ONLY <2>1, RecordsAgree
<1> QED BY <1>16 DEF w, u, data

-----------------------------------------------------------------------------
\* Entries

\* What is in front: the m members of a.
LEMMA InFront ==
    ASSUME NEW S, NEW a \in Seq(S), NEW m, Len(a) = m, NEW r \in Seq(S), NEW s, s = a \o r
    PROVE  SubSeq(s, 1, m) = a /\ Len(s) = m + Len(r)
<1> DEFINE u == SubSeq(s, 1, m)
           k == Len(r)
<1>1. m \in Nat /\ k \in Nat
  OBVIOUS
<1>2. s \in Seq(S) /\ Len(s) = m + k /\ \A i \in 1 .. m : s[i] = a[i]
  <2>1. IsJoin(S, a, r, s)
    BY DEF IsJoin
  <2>2. /\ s \in Seq(S) /\ Len(s) = Len(a) + Len(r)
        /\ \A i \in 1 .. Len(a) : s[i] = a[i]
    BY ONLY <2>1, JoinIs
  <2> QED BY <2>2
<1> HIDE DEF k
<1>3. u \in Seq(S) /\ Len(u) = m /\ \A i \in 1 .. m : u[i] = s[i]
  <2>1. s \in Seq(S) /\ Len(s) = m + k /\ m \in Nat /\ k \in Nat
    BY <1>1, <1>2
  <2> QED BY ONLY <2>1 DEF u
<1> HIDE DEF u
<1>4. u = a
  <2>1. u \in Seq(S) /\ a \in Seq(S) /\ Len(u) = Len(a) /\ \A i \in 1 .. Len(u) : u[i] = a[i]
    BY <1>2, <1>3
  <2> QED BY ONLY <2>1, SeqsAgree
<1> QED BY <1>2, <1>4 DEF u, k

\* The external ids x, read one after the other: t[i] is left of their bytes after
\* the ith.
IDList(x, t, n, S) ==
    /\ n \in Nat /\ Numbers \subseteq S /\ x \in Seq(Seq(S)) /\ Len(x) = n
    /\ t \in [0 .. n -> Seq(S)] /\ t[n] = <<>> /\ Len(t[0]) < SizeBound
    /\ \A i \in 1 .. n : t[i - 1] = MarshalExtID(x[i]) \o t[i]

LEMMA SizesAre ==
    /\ SizeBound \in Nat \ {0}
    /\ \A k \in Nat : k < SizeBound => Uint16(k) = k /\ Int16(k) = k
BY EncodingAssumption DEF Uint16, Int16

\* The bytes of one id and what follows it.
IDAnd(S, x, r, s) ==
    x \in Seq(S) /\ r \in Seq(S) /\ Numbers \subseteq S /\ s = MarshalExtID(x) \o r

LEMMA IDBytes ==
    ASSUME NEW S, NEW x, NEW r, NEW s, IDAnd(S, x, r, s)
    PROVE  Len(s) = 1 + Len(x) + Len(r) /\ MarshalExtID(x) \in Seq(S)
<1>0. x \in Seq(S) /\ r \in Seq(S) /\ Numbers \subseteq S /\ s = MarshalExtID(x) \o r
  BY DEF IDAnd
<1> DEFINE h == <<Num(Uint16(Len(x)))>>
           p == MarshalExtID(x)
<1>1. h \in Seq(S) /\ Len(h) = 1
  <2>1. Len(x) \in Nat
    BY <1>0
  <2>2. Uint16(Len(x)) \in Nat
    BY <2>1, EncodingAssumption DEF Uint16
  <2>3. Num(Uint16(Len(x))) \in S
    BY <1>0, <2>2 DEF Numbers
  <2> DEFINE o == Num(Uint16(Len(x)))
  <2> HIDE DEF o
  <2>4. <<o>> \in Seq(S) /\ Len(<<o>>) = 1
    BY <2>3 DEF o
  <2> QED BY <2>4 DEF o
<1>2. p = h \o x
  BY DEF MarshalExtID
<1> HIDE DEF h, p
<1>3. p \in Seq(S) /\ Len(p) = 1 + Len(x)
  <2>1. IsJoin(S, h, x, p)
    BY <1>0, <1>1, <1>2 DEF IsJoin
  <2>2. p \in Seq(S) /\ Len(p) = Len(h) + Len(x)
    BY ONLY <2>1, JoinIs
  <2> QED BY <1>1, <2>2
<1>4. IsJoin(S, p, r, s)
  BY <1>0, <1>3 DEF IsJoin, p
<1>5. Len(s) = Len(p) + Len(r)
  BY ONLY <1>4, JoinIs
<1> QED BY <1>3, <1>5 DEF p

LEMMA IDsFit ==
    ASSUME NEW x, NEW t, NEW n, NEW S, IDList(x, t, n, S)
    PROVE  /\ \A i \in 0 .. n : Len(t[i]) \in Nat /\ Len(t[i]) + i <= Len(t[0])
           /\ \A i \in 1 .. n : x[i] \in Seq(S) /\ Len(t[i - 1]) = 1 + Len(x[i]) + Len(t[i])
           /\ n < SizeBound /\ \A i \in 0 .. n : Len(t[i]) < SizeBound
<1>1. /\ n \in Nat /\ Numbers \subseteq S /\ x \in Seq(Seq(S)) /\ Len(x) = n
      /\ t \in [0 .. n -> Seq(S)] /\ Len(t[0]) < SizeBound
  BY DEF IDList
<1>2. \A i \in 0 .. n : t[i] \in Seq(S) /\ Len(t[i]) \in Nat
  BY <1>1
<1>3. ASSUME NEW i \in 1 .. n
      PROVE  x[i] \in Seq(S) /\ Len(x[i]) \in Nat /\ Len(t[i - 1]) = 1 + Len(x[i]) + Len(t[i])
  <2>1. x[i] \in Seq(S) /\ Len(x[i]) \in Nat
    BY <1>1
  <2>2. i \in 0 .. n /\ t[i] \in Seq(S)
    BY <1>1, <1>2
  <2>3. t[i - 1] = MarshalExtID(x[i]) \o t[i]
    BY DEF IDList
  <2>4. PICK y, r, s : y = x[i] /\ r = t[i] /\ s = t[i - 1]
    OBVIOUS
  <2>5. y \in Seq(S) /\ r \in Seq(S) /\ Numbers \subseteq S /\ s = MarshalExtID(y) \o r
    BY ONLY <1>1, <2>1, <2>2, <2>3, <2>4, Zenon
  <2>7. IDAnd(S, y, r, s)
    BY <2>5 DEF IDAnd
  <2>6. Len(s) = 1 + Len(y) + Len(r)
    BY ONLY <2>7, IDBytes
  <2> QED BY ONLY <2>1, <2>4, <2>6, Zenon
<1> DEFINE P(k) == k <= n => Len(t[k]) + k <= Len(t[0])
           T == {k \in Nat : P(k)}
<1>4. \A k \in Nat : k \in T <=> P(k)
  OBVIOUS
<1> HIDE DEF T
<1>5. 0 \in T
  BY <1>1, <1>2, <1>4
<1>6. ASSUME NEW k \in Nat, k \in T PROVE k + 1 \in T
  <2>1. k + 1 \in Nat /\ P(k)
    BY <1>4, <1>6
  <2>2. ASSUME k + 1 <= n PROVE Len(t[k + 1]) + (k + 1) <= Len(t[0])
    <3>1. k + 1 \in 1 .. n /\ k \in 0 .. n /\ k + 1 \in 0 .. n /\ 0 \in 0 .. n /\ (k + 1) - 1 = k
      BY <1>1, <2>2
    <3>2. Len(t[k]) + k <= Len(t[0])
      BY <2>1, <3>1
    <3>3. Len(t[k]) = 1 + Len(x[k + 1]) + Len(t[k + 1]) /\ Len(x[k + 1]) \in Nat
      BY <1>3, <3>1
    <3>4. Len(t[k]) \in Nat /\ Len(t[k + 1]) \in Nat /\ Len(t[0]) \in Nat
      BY <1>2, <3>1
    <3>5. PICK a, b, c, d : a = Len(t[k]) /\ b = Len(t[k + 1]) /\ c = Len(x[k + 1]) /\ d = Len(t[0])
      OBVIOUS
    <3>6. a \in Nat /\ b \in Nat /\ c \in Nat /\ d \in Nat /\ a + k <= d /\ a = 1 + c + b
      BY ONLY <3>2, <3>3, <3>4, <3>5
    <3>7. b + (k + 1) <= d
      BY ONLY <3>6, k \in Nat
    <3> QED BY ONLY <3>5, <3>7, Zenon
  <2> QED BY <1>4, <2>1, <2>2
<1>7. Nat \subseteq T
  BY <1>5, <1>6, SetInduction
<1>8. ASSUME NEW i \in 0 .. n PROVE Len(t[i]) + i <= Len(t[0])
  BY <1>1, <1>4, <1>7
<1>9. n < SizeBound /\ \A i \in 0 .. n : Len(t[i]) < SizeBound
  <2>1. 0 \in 0 .. n /\ n \in 0 .. n /\ SizeBound \in Nat
    BY <1>1, SizesAre
  <2>2. Len(t[0]) \in Nat /\ Len(t[0]) < SizeBound
    BY <1>1, <1>2, <2>1
  <2>3. ASSUME NEW i \in 0 .. n PROVE Len(t[i]) < SizeBound /\ i < SizeBound
    <3>1. Len(t[i]) \in Nat /\ Len(t[i]) + i <= Len(t[0]) /\ i \in Nat
      BY <1>1, <1>2, <1>8
    <3> QED BY ONLY <2>1, <2>2, <3>1
  <2> QED BY <2>1, <2>3
<1> QED BY <1>2, <1>3, <1>8, <1>9

\* What has been read after k rounds, when q is the content.
Reading(x, t, q, k) ==
    [ok |-> TRUE, left |-> Len(t[k]), ids |-> SubSeq(x, 1, k), rest |-> t[k] \o q]

IDRead(st, num, x, r, S) ==
    /\ Numbers \subseteq S /\ x \in Seq(S) /\ r \in Seq(S) /\ Len(x) < SizeBound
    /\ num = Num(Uint16(Len(x))) /\ st.ok = TRUE /\ st.rest = <<num>> \o (x \o r)
    /\ st.left \in Nat /\ st.left > Len(x)

\* One round takes one id off.
LEMMA RoundReads ==
    ASSUME NEW st, NEW num, NEW x, NEW r, NEW S, IDRead(st, num, x, r, S)
    PROVE  ReadExtID(st) = [ok |-> TRUE, left |-> st.left - 1 - Len(x),
                            ids |-> Append(st.ids, x), rest |-> r]
<1>0. /\ Numbers \subseteq S /\ x \in Seq(S) /\ r \in Seq(S) /\ Len(x) < SizeBound
      /\ num = Num(Uint16(Len(x))) /\ st.ok = TRUE /\ st.rest = <<num>> \o (x \o r)
      /\ st.left \in Nat /\ st.left > Len(x)
  BY DEF IDRead
<1> DEFINE s == st.rest
           m == Len(x)
           size == IF s = <<>> THEN 0 ELSE Int16(Head(s)[2])
           from == SubSeq(s, 2, Len(s))
           left == st.left - 1 - size
           w == ReadExtID(st)
<1>1. w = IF ~st.ok \/ st.left <= 0 THEN st
          ELSE IF size < 0 \/ size > Len(from) \/ left < 0 THEN [st EXCEPT !.ok = FALSE]
          ELSE [ok |-> TRUE, left |-> left, ids |-> Append(st.ids, SubSeq(from, 1, size)),
                rest |-> SubSeq(from, size + 1, Len(from))]
  BY DEF ReadExtID
<1>2. m \in Nat /\ m < SizeBound /\ SizeBound \in Nat
  BY <1>0, SizesAre
<1>3. num[2] = m /\ num \in S /\ Int16(m) = m
  BY <1>0, <1>2, SizesAre DEF Num, Numbers
<1> HIDE DEF w, left, size, m
<1>4. s \in Seq(S) /\ s[1] = num /\ from = x \o r /\ Len(s) > 0
  <2>1. PICK y : y = x \o r
    OBVIOUS
  <2>2. y \in Seq(S)
    BY ONLY <1>0, <2>1
  <2>3. s = <<num>> \o y
    BY ONLY <1>0, <2>1, Zenon DEF s
  <2> HIDE DEF s
  <2>4. s \in Seq(S) /\ s[1] = num /\ SubSeq(s, 2, Len(s)) = y
    BY ONLY <1>3, <2>2, <2>3, Behind
  <2>5. Len(s) > 0
    <3>1. PICK h : h = <<num>>
      OBVIOUS
    <3>2. h \in Seq(S) /\ Len(h) = 1
      BY ONLY <1>3, <3>1
    <3>3. s = h \o y
      BY ONLY <2>3, <3>1, Zenon
    <3>4. IsJoin(S, h, y, s)
      BY ONLY <2>2, <3>2, <3>3 DEF IsJoin
    <3>5. Len(s) = Len(h) + Len(y)
      BY ONLY <3>4, JoinIs
    <3>6. Len(y) \in Nat
      BY ONLY <2>2
    <3> QED BY ONLY <3>2, <3>5, <3>6
  <2> QED BY ONLY <2>1, <2>4, <2>5, Zenon DEF from
<1>5. size = m
  <2>1. s # <<>> /\ Head(s) = s[1]
    BY ONLY <1>4, FirstOf
  <2> QED BY <1>3, <1>4, <2>1 DEF size
<1> HIDE DEF from, s
<1>6. SubSeq(from, 1, m) = x /\ Len(from) = m + Len(r) /\ SubSeq(from, m + 1, Len(from)) = r
  <2>1. x \in Seq(S) /\ Len(x) = m /\ r \in Seq(S) /\ from = x \o r
    BY <1>0, <1>4 DEF m
  <2> QED BY ONLY <2>1, InFront, BehindHeader
<1>7. Len(r) \in Nat /\ left = st.left - 1 - m /\ left >= 0
  BY <1>0, <1>2, <1>5 DEF left, m
<1>8. ~(~st.ok \/ st.left <= 0) /\ ~(size < 0 \/ size > Len(from) \/ left < 0)
  <2>1. ~(size < 0 \/ size > Len(from) \/ left < 0)
    BY ONLY <1>2, <1>5, <1>6, <1>7
  <2>2. ~(st.left <= 0)
    BY ONLY <1>0, <1>2 DEF m
  <2>3. ~(~st.ok)
    BY ONLY <1>0
  <2> QED BY ONLY <2>1, <2>2, <2>3
<1>9. w = [ok |-> TRUE, left |-> left, ids |-> Append(st.ids, SubSeq(from, 1, size)),
           rest |-> SubSeq(from, size + 1, Len(from))]
  BY ONLY <1>1, <1>8
<1> QED BY <1>5, <1>6, <1>7, <1>9 DEF w, m

LEMMA IDStep ==
    ASSUME NEW x, NEW t, NEW n, NEW S, IDList(x, t, n, S), NEW q \in Seq(S), NEW i \in 1 .. n
    PROVE  ReadExtID(Reading(x, t, q, i - 1)) = Reading(x, t, q, i)
<1> DEFINE k == i - 1
           st == Reading(x, t, q, k)
           y == x[i]
           b == t[i]
           num == Num(Uint16(Len(x[i])))
           r == t[i] \o q
           E == Seq(S)
<1>1. n \in Nat /\ Numbers \subseteq S /\ x \in Seq(E) /\ Len(x) = n /\ SizeBound \in Nat
  BY SizesAre DEF IDList
<1>2. k \in Nat /\ k + 1 = i /\ i \in 0 .. n /\ k \in 0 .. n
  BY <1>1
<1>3. /\ y \in Seq(S) /\ Len(y) \in Nat /\ Len(b) \in Nat
      /\ Len(t[k]) = 1 + Len(y) + Len(b) /\ Len(t[k]) < SizeBound
  <2>1. x[i] \in Seq(S) /\ Len(t[i - 1]) = 1 + Len(x[i]) + Len(t[i])
    BY IDsFit
  <2>2. Len(t[i]) \in Nat /\ Len(t[k]) < SizeBound
    BY <1>2, IDsFit
  <2>3. Len(x[i]) \in Nat
    BY <2>1
  <2> QED BY <2>1, <2>2, <2>3
<1>4. st.ok = TRUE /\ st.left = Len(t[k]) /\ st.ids = SubSeq(x, 1, k) /\ st.rest = t[k] \o q
  BY DEF Reading
<1>5. t[k] = (<<num>> \o y) \o b /\ b \in Seq(S)
  BY <1>2 DEF IDList, MarshalExtID
<1>6. num \in S
  <2>1. Uint16(Len(y)) \in Nat
    BY <1>3, EncodingAssumption DEF Uint16
  <2> QED BY <1>1, <2>1 DEF Numbers
<1>7. num = Num(Uint16(Len(y))) /\ r = b \o q
  OBVIOUS
<1> HIDE DEF st, y, b, num, r, k, E
<1>8. r \in Seq(S) /\ st.rest = <<num>> \o (y \o r)
  <2> DEFINE h == <<num>>
             a == h \o y
  <2>1. h \in Seq(S)
    BY <1>6
  <2>2. t[k] = a \o b
    BY <1>5
  <2> HIDE DEF h
  <2>3. a \in Seq(S)
    BY ONLY <1>3, <2>1
  <2>4. (h \o y) \o r = h \o (y \o r) /\ r \in Seq(S)
    <3>1. r \in Seq(S)
      BY ONLY <1>5, <1>7, q \in Seq(S)
    <3>2. y \in Seq(S)
      BY ONLY <1>3
    <3> QED BY ONLY <2>1, <3>1, <3>2, Regrouped
  <2> HIDE DEF a
  <2>5. (a \o b) \o q = a \o (b \o q)
    <3>1. b \in Seq(S)
      BY ONLY <1>5
    <3> QED BY ONLY <2>3, <3>1, q \in Seq(S), Regrouped
  <2>6. st.rest = a \o r
    BY ONLY <1>4, <1>7, <2>2, <2>5, Zenon
  <2>7. st.rest = h \o (y \o r)
    BY ONLY <2>4, <2>6, Zenon DEF a
  <2> QED BY <2>4, <2>7 DEF h
<1>9. IDRead(st, num, y, r, S)
  <2>1. Len(y) < SizeBound /\ st.left \in Nat /\ st.left > Len(y)
    <3>1. PICK l, d, f : l = Len(y) /\ d = Len(b) /\ f = Len(t[k])
      OBVIOUS
    <3>2. l \in Nat /\ d \in Nat /\ f = 1 + l + d /\ f < SizeBound /\ SizeBound \in Nat
      BY ONLY <1>1, <1>3, <3>1
    <3>3. l < SizeBound /\ f \in Nat /\ f > l
      BY ONLY <3>2
    <3> QED BY ONLY <1>4, <3>1, <3>3, Zenon
  <2> QED BY <1>1, <1>3, <1>4, <1>7, <1>8, <2>1 DEF IDRead
<1>10. ReadExtID(st) = [ok |-> TRUE, left |-> st.left - 1 - Len(y),
                        ids |-> Append(st.ids, y), rest |-> r]
  BY ONLY <1>9, RoundReads
<1>11. st.left - 1 - Len(y) = Len(b)
  <2>1. PICK l, d, f : l = Len(y) /\ d = Len(b) /\ f = Len(t[k])
    OBVIOUS
  <2>2. l \in Nat /\ d \in Nat /\ f = 1 + l + d
    BY ONLY <1>3, <2>1
  <2>3. f - 1 - l = d
    BY ONLY <2>2
  <2> QED BY ONLY <1>4, <2>1, <2>3, Zenon
<1>12. Append(st.ids, y) = SubSeq(x, 1, i)
  <2> DEFINE u == Append(SubSeq(x, 1, k), x[i])
             v == SubSeq(x, 1, i)
  <2>1. x \in Seq(E) /\ i \in 1 .. Len(x) /\ k + 1 = i /\ k \in Nat
    BY <1>1, <1>2
  <2>2. u \in Seq(E) /\ v \in Seq(E) /\ Len(u) = Len(v) /\ \A j \in 1 .. Len(u) : u[j] = v[j]
    BY ONLY <2>1 DEF u, v
  <2> HIDE DEF u, v
  <2>3. u = v
    BY ONLY <2>2, SeqsAgree
  <2> QED BY <1>4, <2>3 DEF u, v, y
<1>13. ReadExtID(st) = [ok |-> TRUE, left |-> Len(b), ids |-> SubSeq(x, 1, i), rest |-> r]
  BY ONLY <1>10, <1>11, <1>12, Zenon
<1> QED BY <1>13 DEF st, k, b, r, Reading

\* After the nth round nothing changes.
Settled(x, t, q, n, k) == Reading(x, t, q, IF k <= n THEN k ELSE n)

LEMMA IDRound ==
    ASSUME NEW x, NEW t, NEW n, NEW S, IDList(x, t, n, S), NEW q \in Seq(S),
           NEW k \in Nat \ {0}
    PROVE  ReadExtID(Settled(x, t, q, n, k - 1)) = Settled(x, t, q, n, k)
<1>1. n \in Nat /\ t[n] = <<>>
  BY DEF IDList
<1>2. CASE k <= n
  <2>1. k \in 1 .. n /\ k - 1 <= n
    BY <1>1, <1>2
  <2>2. ReadExtID(Reading(x, t, q, k - 1)) = Reading(x, t, q, k)
    BY ONLY <2>1, IDList(x, t, n, S), q \in Seq(S), IDStep
  <2> QED BY <1>2, <2>1, <2>2 DEF Settled
<1>3. CASE ~ k <= n
  <2> DEFINE st == Reading(x, t, q, n)
  <2>1. st.ok = TRUE /\ st.left = 0
    BY <1>1 DEF Reading
  <2>2. ReadExtID(st) = st
    <3> HIDE DEF st
    <3> QED BY <2>1 DEF ReadExtID
  <2>3. Settled(x, t, q, n, k) = st
    BY <1>3 DEF Settled
  <2>4. Settled(x, t, q, n, k - 1) = st
    <3>1. CASE k - 1 <= n
      <4>1. k - 1 = n
        BY <1>1, <1>3, <3>1
      <4> QED BY <3>1, <4>1 DEF Settled
    <3>2. CASE ~ k - 1 <= n
      BY <3>2 DEF Settled
    <3> QED BY <3>1, <3>2
  <2> QED BY <2>2, <2>3, <2>4
<1> QED BY <1>2, <1>3

IDLoop(x, t, q, f) ==
    f = [k \in 0 .. SizeBound |-> IF k = 0 THEN Reading(x, t, q, 0) ELSE ReadExtID(f[k - 1])]

\* The loop over the external ids has a solution, and finds the ids.
LEMMA IDsAreRead ==
    ASSUME NEW x, NEW t, NEW n, NEW S, IDList(x, t, n, S), NEW q \in Seq(S)
    PROVE  /\ \E f : IDLoop(x, t, q, f)
           /\ \A f : IDLoop(x, t, q, f) => f[SizeBound] = Reading(x, t, q, n)
<1> DEFINE m == SizeBound
           Then(k) == Settled(x, t, q, n, k)
<1>1. m \in Nat /\ n \in Nat /\ n <= m /\ (m <= n => m = n)
  <2>1. n < SizeBound
    BY IDsFit
  <2> QED BY <2>1, SizesAre DEF IDList
<1>2. Then(0) = Reading(x, t, q, 0)
  BY <1>1 DEF Settled
<1>3. Then(m) = Reading(x, t, q, n)
  BY <1>1 DEF Settled
<1>4. \A k \in Nat \ {0} : ReadExtID(Then(k - 1)) = Then(k)
  BY IDRound
<1>5. \A f : IDLoop(x, t, q, f) <=>
             f = [k \in 0 .. m |-> IF k = 0 THEN Then(0) ELSE ReadExtID(f[k - 1])]
  BY <1>2 DEF IDLoop
<1> HIDE DEF m, Then
<1>6. \E f : IDLoop(x, t, q, f)
  <2> DEFINE g == [k \in 0 .. m |-> Then(k)]
             val(k) == IF k = 0 THEN Then(0) ELSE ReadExtID(g[k - 1])
  <2>1. ASSUME NEW k \in 0 .. m PROVE g[k] = val(k)
    <3>1. CASE k = 0
      BY <3>1
    <3>2. CASE k # 0
      <4>1. k \in Nat \ {0} /\ k - 1 \in 0 .. m
        BY <1>1, <3>2
      <4>2. g[k - 1] = Then(k - 1) /\ g[k] = Then(k)
        BY <4>1
      <4> HIDE DEF g
      <4> QED BY <1>4, <3>2, <4>1, <4>2
    <3> QED BY <3>1, <3>2
  <2>2. g = [k \in 0 .. m |-> g[k]]
    OBVIOUS
  <2>3. IDLoop(x, t, q, g) <=> g = [k \in 0 .. m |-> val(k)]
    BY <1>5
  <2> HIDE DEF val, g
  <2>4. IDLoop(x, t, q, g)
    BY <2>1, <2>2, <2>3
  <2> QED BY <2>4
<1>7. ASSUME NEW f, IDLoop(x, t, q, f) PROVE f[m] = Then(m)
  <2> DEFINE P(k) == k <= m => f[k] = Then(k)
             T == {k \in Nat : P(k)}
  <2>0. \A k \in Nat : k \in T <=> P(k)
    OBVIOUS
  <2>1. f[0] = Then(0) /\ \A k \in 1 .. m : f[k] = ReadExtID(f[k - 1])
    BY <1>1, <1>5, <1>7
  <2> HIDE DEF T
  <2>2. 0 \in T
    BY <2>0, <2>1
  <2>3. ASSUME NEW k \in Nat, k \in T PROVE k + 1 \in T
    <3>1. k + 1 \in Nat /\ P(k)
      BY <2>0, <2>3
    <3>2. ASSUME k + 1 <= m PROVE f[k + 1] = Then(k + 1)
      <4>1. k + 1 \in 1 .. m /\ (k + 1) - 1 = k /\ k <= m /\ k + 1 \in Nat \ {0}
        BY ONLY <1>1, <3>2, k \in Nat
      <4>2. f[k] = Then(k)
        BY <3>1, <4>1
      <4>3. f[k + 1] = ReadExtID(f[(k + 1) - 1])
        BY ONLY <2>1, <4>1, Zenon
      <4>4. ReadExtID(Then((k + 1) - 1)) = Then(k + 1)
        BY ONLY <1>4, <4>1, Zenon
      <4> QED BY ONLY <4>1, <4>2, <4>3, <4>4, Zenon
    <3> QED BY <2>0, <3>1, <3>2
  <2>4. Nat \subseteq T
    BY <2>2, <2>3, SetInduction
  <2>5. m \in T /\ m <= m
    BY <1>1, <2>4
  <2> QED BY <1>1, <2>0, <2>5
<1> QED BY <1>3, <1>6, <1>7 DEF m

LEMMA SeqsIn ==
    ASSUME NEW S, NEW T, S \subseteq T PROVE Seq(S) \subseteq Seq(T)
OBVIOUS

\* The bytes of the external ids, one id after the other.
LEMMA IDsWritten ==
    ASSUME NEW S, Numbers \subseteq S, NEW x \in Seq(Seq(S)), NEW n, n = Len(x),
           NEW p, p = MarshalExtIDs(x), Len(p) < SizeBound
    PROVE  \E t : IDList(x, t, n, S) /\ p = t[0]
<1> DEFINE s == [i \in DOMAIN x |-> MarshalExtID(x[i])]
<1>1. n \in Nat /\ DOMAIN x = 1 .. n /\ \A i \in 1 .. n : x[i] \in Seq(S)
  OBVIOUS
<1>2. p = FlattenSeq(s)
  BY DEF MarshalExtIDs
<1>3. ASSUME NEW i \in 1 .. n PROVE MarshalExtID(x[i]) \in Seq(S)
  <2>1. PICK y, r, v : y = x[i] /\ r = <<>> /\ v = MarshalExtID(x[i]) \o r
    OBVIOUS
  <2>2. r \in Seq(S)
    BY <2>1
  <2>3. IDAnd(S, y, r, v)
    BY <1>1, <2>1, <2>2 DEF IDAnd
  <2>4. MarshalExtID(y) \in Seq(S)
    BY ONLY <2>3, IDBytes
  <2> QED BY <2>1, <2>4
<1>4. /\ Len(s) = n /\ (n = 0 => s = <<>>)
      /\ \A i \in 1 .. n : s[i] \in Seq(S) /\ s[i] = MarshalExtID(x[i])
  BY <1>1, <1>3
<1> HIDE DEF s
<1>5. PICK t : Tails(t, s, n, S) /\ FlattenSeq(s) = t[0]
  <2>1. n \in Nat /\ Len(s) = n /\ (n = 0 => s = <<>>) /\ \A i \in 1 .. n : s[i] \in Seq(S)
    BY <1>1, <1>4
  <2> QED BY ONLY <2>1, FlattenIs
<1>6. IDList(x, t, n, S)
  BY <1>1, <1>2, <1>4, <1>5 DEF Tails, IDList
<1> QED BY <1>2, <1>5, <1>6

\* An entry is read back as it was stored, with any number of external ids of any
\* length and any content, as long as the ids take less than SizeBound bytes
\* (Entry.MarshalBinary, UnmarshalBinaryData, entry.go).
THEOREM EntryReadsBack ==
    ASSUME NEW c, NEW S, NEW ext \in Seq(Seq(S)), NEW content \in Seq(S),
           NEW e, e = [chain |-> c, ext |-> ext, content |-> content],
           Len(MarshalExtIDs(ext)) < SizeBound
    PROVE  UnmarshalEntry(MarshalEntry(e)) = e
<1> DEFINE p == MarshalExtIDs(ext)
           n == Len(ext)
           B == S \cup Numbers \cup {Chain(c)}
           a == <<Chain(c), Num(Uint16(Len(p)))>>
           body == p \o content
           data == a \o body
<1>1. MarshalEntry(e) = data
  BY DEF MarshalEntry
<1>2. Numbers \subseteq B /\ S \subseteq B /\ Chain(c) \in B
  OBVIOUS
<1>3. ext \in Seq(Seq(B)) /\ content \in Seq(B) /\ n \in Nat
  <2> HIDE DEF B
  <2>1. Seq(S) \subseteq Seq(B)
    BY <1>2, SeqsIn
  <2>2. Seq(Seq(S)) \subseteq Seq(Seq(B))
    BY ONLY <2>1, SeqsIn
  <2> QED BY <2>1, <2>2
<1>4. PICK t : IDList(ext, t, n, B) /\ p = t[0]
  <2>1. n = Len(ext) /\ p = MarshalExtIDs(ext) /\ Len(p) < SizeBound
    OBVIOUS
  <2> HIDE DEF B, n, p
  <2>2. /\ Numbers \subseteq B /\ ext \in Seq(Seq(B)) /\ n = Len(ext)
        /\ p = MarshalExtIDs(ext) /\ Len(p) < SizeBound
    BY <1>2, <1>3, <2>1
  <2> QED BY ONLY <2>2, IDsWritten
<1> HIDE DEF p, n, B
<1>5. t[0] \in Seq(B) /\ Len(p) \in Nat /\ Len(p) < SizeBound /\ t[n] = <<>>
  <2>1. 0 \in 0 .. n /\ t \in [0 .. n -> Seq(B)] /\ t[n] = <<>>
    BY <1>3, <1>4 DEF IDList
  <2>2. t[0] \in Seq(B)
    BY <2>1
  <2> QED BY <1>4, <2>1, <2>2 DEF p
<1>6. Uint16(Len(p)) = Len(p) /\ Int16(Len(p)) = Len(p)
  BY <1>5, SizesAre
<1>7. a \in Seq(B) /\ Len(a) = 2 /\ a[1] = Chain(c) /\ a[2] = Num(Len(p))
  <2>1. Num(Len(p)) \in B
    BY <1>2, <1>5 DEF Numbers
  <2>2. PICK y, z : y = Chain(c) /\ z = Num(Len(p))
    OBVIOUS
  <2>3. a = <<y, z>> /\ y \in B /\ z \in B
    BY <1>2, <1>6, <2>1, <2>2
  <2> HIDE DEF a
  <2>4. a \in Seq(B) /\ Len(a) = 2 /\ a[1] = y /\ a[2] = z
    BY ONLY <2>3
  <2> QED BY <2>2, <2>4
<1>8. body = t[0] \o content /\ body \in Seq(B)
  BY <1>3, <1>4, <1>5
<1> HIDE DEF a, body, data
<1>9. data[1] = a[1] /\ data[2] = a[2] /\ SubSeq(data, 3, Len(data)) = body
  <2>0. PICK m : m = 2
    OBVIOUS
  <2>1. a \in Seq(B) /\ Len(a) = m /\ body \in Seq(B) /\ data = a \o body
    BY <1>7, <1>8, <2>0 DEF data
  <2>2. (\A i \in 1 .. m : data[i] = a[i]) /\ SubSeq(data, m + 1, Len(data)) = body
    BY ONLY <2>1, BehindHeader
  <2>3. m + 1 = 3 /\ 1 \in 1 .. m /\ 2 \in 1 .. m
    BY <2>0
  <2> QED BY ONLY <2>0, <2>2, <2>3
<1>10. data[1][2] = c /\ data[2][2] = Len(p)
  BY <1>7, <1>9 DEF Chain, Num
<1> DEFINE s0 == [ok |-> TRUE, left |-> Int16(data[2][2]), ids |-> <<>>,
                  rest |-> SubSeq(data, 3, Len(data))]
           R(f) == f = [k \in 0 .. SizeBound |-> IF k = 0 THEN s0 ELSE ReadExtID(f[k - 1])]
           h == CHOOSE f : R(f)
           end == h[SizeBound]
<1>11. UnmarshalEntry(data) =
         IF end.ok THEN [chain |-> data[1][2], ext |-> end.ids, content |-> end.rest] ELSE Nil
  BY DEF UnmarshalEntry
<1>12. s0 = Reading(ext, t, content, 0)
  <2>1. SubSeq(ext, 1, 0) = <<>>
    OBVIOUS
  <2>2. Int16(data[2][2]) = Len(t[0])
    BY <1>4, <1>6, <1>10
  <2>3. SubSeq(data, 3, Len(data)) = t[0] \o content
    BY <1>8, <1>9
  <2> QED BY <2>1, <2>2, <2>3 DEF Reading
<1> HIDE DEF s0
<1>13. \A f : R(f) <=> IDLoop(ext, t, content, f)
  BY <1>12 DEF IDLoop
<1> HIDE DEF R
<1>14. /\ \E f : IDLoop(ext, t, content, f)
       /\ \A f : IDLoop(ext, t, content, f) => f[SizeBound] = Reading(ext, t, content, n)
  <2>1. IDList(ext, t, n, B) /\ content \in Seq(B)
    BY <1>3, <1>4
  <2> QED BY ONLY <2>1, IDsAreRead
<1>15. end = Reading(ext, t, content, n)
  BY <1>13, <1>14
<1> HIDE DEF end, h
<1>16. end.ok = TRUE /\ end.ids = ext /\ end.rest = content
  <2>1. SubSeq(ext, 1, n) = ext
    <3> DEFINE E == Seq(S)
               b == SubSeq(ext, 1, n)
    <3>1. ext \in Seq(E) /\ n = Len(ext)
      BY DEF n
    <3> HIDE DEF E
    <3>2. b \in Seq(E) /\ Len(b) = Len(ext) /\ \A j \in 1 .. Len(b) : b[j] = ext[j]
      BY ONLY <3>1 DEF b
    <3> HIDE DEF b
    <3>3. b = ext
      BY ONLY <3>1, <3>2, SeqsAgree
    <3> QED BY <3>3 DEF b
  <2>2. t[n] \o content = content
    BY <1>3, <1>5, JoinedToNone
  <2> QED BY <1>15, <2>1, <2>2 DEF Reading
<1>17. UnmarshalEntry(data) = e
  BY <1>10, <1>11, <1>16
<1> QED BY <1>1, <1>17

\* The ids of the entries that are posted.
LEMMA PostedIDs ==
    ASSUME NEW S, Numbers \subseteq S, NEW a \in Seq(S), Len(a) = 1, NEW b, b = <<>>,
           NEW x, x = <<a, b>>
    PROVE  x \in Seq(Seq(S)) /\ MarshalExtIDs(x) \in Seq(S) /\ Len(MarshalExtIDs(x)) = 3
<1> DEFINE s == [i \in DOMAIN x |-> MarshalExtID(x[i])]
           n == 2
           p == MarshalExtIDs(x)
           T == Seq(S)
<1>1. b \in Seq(S) /\ Len(b) = 0
  OBVIOUS
<1>2. x \in Seq(T) /\ Len(x) = 2 /\ x[1] = a /\ x[2] = b /\ DOMAIN x = 1 .. 2
  <2> HIDE DEF T
  <2>1. a \in T /\ b \in T
    BY <1>1 DEF T
  <2> QED BY ONLY <2>1, x = <<a, b>>
<1>3. p = FlattenSeq(s)
  BY DEF MarshalExtIDs
<1>4. \A y, r : y \in Seq(S) /\ r \in Seq(S) =>
        Len(MarshalExtID(y) \o r) = 1 + Len(y) + Len(r) /\ MarshalExtID(y) \in Seq(S)
  <2> TAKE y, r
  <2> HAVE y \in Seq(S) /\ r \in Seq(S)
  <2>1. PICK v : v = MarshalExtID(y) \o r
    OBVIOUS
  <2>2. IDAnd(S, y, r, v)
    BY <2>1 DEF IDAnd
  <2>3. Len(v) = 1 + Len(y) + Len(r) /\ MarshalExtID(y) \in Seq(S)
    BY ONLY <2>2, IDBytes
  <2> QED BY <2>1, <2>3
<1>5. Len(s) = 2 /\ s[1] = MarshalExtID(a) /\ s[2] = MarshalExtID(b)
  <2> HIDE DEF T
  <2> QED BY <1>2
<1>6. \A i \in 1 .. 2 : s[i] \in Seq(S)
  <2>1. s[1] \in Seq(S) /\ s[2] \in Seq(S)
    BY <1>1, <1>4, <1>5
  <2> HIDE DEF s
  <2>2. \A i \in 1 .. 2 : i = 1 \/ i = 2
    OBVIOUS
  <2> QED BY <2>1, <2>2
<1> HIDE DEF s
<1>7. PICK t : Tails(t, s, n, S) /\ FlattenSeq(s) = t[0]
  <2>1. n \in Nat /\ Len(s) = n /\ (n = 0 => s = <<>>) /\ \A i \in 1 .. n : s[i] \in Seq(S)
    BY <1>5, <1>6
  <2> HIDE DEF n
  <2> QED BY ONLY <2>1, FlattenIs
<1>8. /\ t[2] = <<>> /\ t[1] = s[2] \o t[2] /\ t[0] = s[1] \o t[1]
      /\ t[0] \in Seq(S) /\ t[1] \in Seq(S) /\ t[2] \in Seq(S)
  <2>1. /\ t \in [0 .. 2 -> Seq(S)] /\ t[2] = <<>>
        /\ \A i \in 1 .. 2 : t[i - 1] = s[i] \o t[i]
    BY <1>7 DEF Tails
  <2>2. 1 \in 1 .. 2 /\ 2 \in 1 .. 2 /\ 1 - 1 = 0 /\ 2 - 1 = 1
    OBVIOUS
  <2>3. t[1] = s[2] \o t[2] /\ t[0] = s[1] \o t[1]
    BY ONLY <2>1, <2>2, Zenon
  <2>4. t[0] \in Seq(S) /\ t[1] \in Seq(S) /\ t[2] \in Seq(S)
    BY ONLY <2>1
  <2> QED BY ONLY <2>1, <2>3, <2>4
<1>9. Len(t[1]) = 1 + Len(b) + Len(t[2]) /\ Len(t[0]) = 1 + Len(a) + Len(t[1])
  <2>1. t[1] = MarshalExtID(b) \o t[2] /\ t[0] = MarshalExtID(a) \o t[1]
    BY <1>5, <1>8
  <2>2. /\ Len(MarshalExtID(b) \o t[2]) = 1 + Len(b) + Len(t[2])
        /\ Len(MarshalExtID(a) \o t[1]) = 1 + Len(a) + Len(t[1])
    <3>1. a \in Seq(S) /\ b \in Seq(S) /\ t[1] \in Seq(S) /\ t[2] \in Seq(S)
      BY <1>1, <1>8
    <3> QED BY ONLY <1>4, <3>1, Zenon
  <2> QED BY ONLY <2>1, <2>2, Zenon
<1>10. Len(t[2]) = 0
  BY <1>8
<1>11. Len(t[0]) = 3
  BY <1>1, <1>9, <1>10, Len(a) = 1
<1> QED BY <1>2, <1>3, <1>7, <1>8, <1>11 DEF T, p

\* The entries that are posted are read back, and are no missing row.
LEMMA PostedEntryReadsBack ==
    ASSUME NEW c, NEW x, NEW d, d = MarshalEntry(Entry(c, x))
    PROVE  d # Nil /\ UnmarshalEntry(d) = Entry(c, x)
<1> DEFINE S == Numbers \cup {Num(x)}
           a == <<Num(x)>>
           b == <<>>
           ext == <<a, b>>
           e == Entry(c, x)
           p == MarshalExtIDs(ext)
<1>1. a \in Seq(S) /\ Len(a) = 1 /\ Numbers \subseteq S
  <2>1. Num(x) \in S
    OBVIOUS
  <2>2. PICK o : o = Num(x)
    OBVIOUS
  <2>3. o \in S /\ a = <<o>>
    BY <2>1, <2>2
  <2> HIDE DEF S, a
  <2>4. a \in Seq(S) /\ Len(a) = 1
    BY ONLY <2>3
  <2> QED BY <2>4 DEF S
<1>2. e = [chain |-> c, ext |-> ext, content |-> a]
  BY DEF Entry
<1> HIDE DEF S, a, e
<1>3. ext \in Seq(Seq(S)) /\ p \in Seq(S) /\ Len(p) = 3
  <2>1. PICK y, z : y = b /\ z = ext
    OBVIOUS
  <2>2. z \in Seq(Seq(S)) /\ MarshalExtIDs(z) \in Seq(S) /\ Len(MarshalExtIDs(z)) = 3
    <3>1. y = <<>> /\ z = <<a, y>>
      BY <2>1
    <3> QED BY ONLY <1>1, <3>1, PostedIDs
  <2> QED BY <2>1, <2>2
<1> HIDE DEF ext
<1>4. Len(p) < SizeBound
  BY <1>3, WebAssumption
<1>5. UnmarshalEntry(MarshalEntry(e)) = e
  BY ONLY <1>1, <1>2, <1>3, <1>4, EntryReadsBack
<1>6. d # Nil
  <2> DEFINE y == Chain(c)
             z == Num(Uint16(Len(p)))
             r == p \o a
             h == <<y, z>>
             T == S \cup {y, z}
  <2>1. d = h \o r
    BY <1>2 DEF MarshalEntry, e
  <2>2. r \in Seq(S)
    <3> HIDE DEF p
    <3> QED BY <1>1, <1>3
  <2> HIDE DEF r, y, z, S
  <2>3. h \in Seq(T) /\ Len(h) = 2 /\ r \in Seq(T)
    <3>1. S \subseteq T /\ y \in T /\ z \in T
      OBVIOUS
    <3> HIDE DEF T
    <3>2. Seq(S) \subseteq Seq(T)
      BY ONLY <3>1, SeqsIn
    <3>3. h \in Seq(T) /\ Len(h) = 2
      BY ONLY <3>1 DEF h
    <3> QED BY <2>2, <3>2, <3>3
  <2> HIDE DEF h, T
  <2>4. IsJoin(T, h, r, d)
    BY <2>1, <2>3 DEF IsJoin
  <2>5. Len(d) = Len(h) + Len(r)
    BY ONLY <2>4, JoinIs
  <2>6. Len(d) # 0 /\ Len(<<>>) = 0
    BY <2>3, <2>5
  <2> QED BY <2>6 DEF Nil
<1> QED BY <1>5, <1>6 DEF e

=============================================================================
