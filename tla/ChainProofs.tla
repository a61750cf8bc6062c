----------------------------- MODULE ChainProofs -----------------------------
(***************************************************************************)
(* Proofs about the entry chains Processor stores, on top of the chains of *)
(* blocks of ProcessorProofs: how an entry chain opens and continues       *)
(* across a restart, and that neither a start nor the building panics.     *)
(***************************************************************************)
EXTENDS ProcessorProofs

----------------------------------------------------------------------------
\* Reveals and commits.  A commit waits in the map of its kind, so a listed
\* reveal is paid for by a commit of the kind it calls for; the chain of a
\* listed reveal is known; and a chain that is still to be created is neither
\* stored nor created twice.

Committed ==
    \A e \in Entries :
        /\ commitEntryMap[e] # None =>
               /\ CommitMsg[commitEntryMap[e]].kind = "commitEntry"
               /\ CommitMsg[commitEntryMap[e]].entry = e
        /\ commitChainMap[e] # None =>
               /\ CommitMsg[commitChainMap[e]].kind = "commitChain"
               /\ CommitMsg[commitChainMap[e]].entry = e

PaidReveal(item) ==
    /\ item.type = "revealEntry" => CommitMsg[item.by].kind = "commitEntry"
    /\ item.type = "revealChain" => /\ CommitMsg[item.by].kind = "commitChain"
                                    /\ NamesChain[item.msg]

PaidList(list, known) ==
    \A n \in DOMAIN list :
        /\ PaidReveal(list[n])
        /\ list[n].type \in Reveals => ChainOf[list[n].msg] \in known

NewChains(list, from, stored) ==
    \A n \in DOMAIN list : list[n].type = "revealChain" =>
        /\ n >= from => ChainOf[list[n].msg] \notin stored
        /\ \A m \in DOMAIN list :
              list[m].type = "revealChain" /\ m # n =>
                  ChainOf[list[m].msg] # ChainOf[list[n].msg]

\* The first item whose chain, if it creates one, is not stored yet.
Pending == IF pc = "first" THEN idx + 1 ELSE idx

Lists ==
    /\ Committed
    /\ PaidList(plist, chainIDMap)
    /\ chainDB \subseteq chainIDMap
    /\ pc # "panic" => NewChains(plist, Pending, chainDB)

LEMMA InitLists == Init => Lists
BY DEF Init, Lists, Committed, PaidList, NewChains, Pending

LEMMA EmptyLists ==
    \A known, from, stored :
        PaidList(<<>>, known) /\ NewChains(<<>>, from, stored)
BY DEF PaidList, NewChains

LEMMA PaidAppend ==
    ASSUME NEW list \in Seq(Items), NEW item, NEW known, NEW more,
           PaidList(list, known), known \subseteq more, PaidReveal(item),
           item.type \in Reveals => ChainOf[item.msg] \in more
    PROVE  PaidList(Append(list, item), more)
<1> DEFINE longer == Append(list, item)
<1>1. \A n \in DOMAIN longer :
         (n \in DOMAIN list /\ longer[n] = list[n]) \/ longer[n] = item
  OBVIOUS
<1> HIDE DEF longer
<1>2. PaidList(longer, more)
  BY <1>1 DEF PaidList
<1> QED BY <1>2 DEF longer

LEMMA NewAppend ==
    ASSUME NEW list \in Seq(Items), NEW item, NEW from, NEW stored,
           NewChains(list, from, stored),
           item.type = "revealChain" =>
               /\ ChainOf[item.msg] \notin stored
               /\ \A n \in DOMAIN list : list[n].type = "revealChain" =>
                      ChainOf[list[n].msg] # ChainOf[item.msg]
    PROVE  NewChains(Append(list, item), from, stored)
<1> DEFINE longer == Append(list, item)
<1>1. \A n \in DOMAIN longer :
         \/ n \in DOMAIN list /\ longer[n] = list[n]
         \/ n = Len(list) + 1 /\ longer[n] = item
  OBVIOUS
<1> HIDE DEF longer
<1>2. ASSUME NEW n \in DOMAIN longer, longer[n].type = "revealChain"
      PROVE  n >= from => ChainOf[longer[n].msg] \notin stored
  BY <1>1, <1>2 DEF NewChains
<1>3. ASSUME NEW n \in DOMAIN longer, longer[n].type = "revealChain",
             NEW m \in DOMAIN longer, longer[m].type = "revealChain", m # n
      PROVE  ChainOf[longer[m].msg] # ChainOf[longer[n].msg]
  BY <1>1, <1>3 DEF NewChains
<1>4. NewChains(longer, from, stored)
  BY <1>2, <1>3 DEF NewChains
<1> QED BY <1>4 DEF longer

LEMMA NewNext ==
    ASSUME NEW list \in Seq(Items), NEW i \in Nat, NEW stored,
           NewChains(list, i, stored)
    PROVE  /\ NewChains(list, i + 1, stored)
           /\ i \in DOMAIN list /\ list[i].type = "revealChain" =>
                  NewChains(list, i + 1, stored \cup {ChainOf[list[i].msg]})
<1>1. \A n \in DOMAIN list : n >= i + 1 => n >= i /\ n # i
  OBVIOUS
<1>2. NewChains(list, i + 1, stored)
  BY <1>1 DEF NewChains
<1>3. ASSUME i \in DOMAIN list, list[i].type = "revealChain"
      PROVE  NewChains(list, i + 1, stored \cup {ChainOf[list[i].msg]})
  BY <1>1, <1>3 DEF NewChains
<1> QED BY <1>2, <1>3

\* What a step may do to the maps of waiting commits.
LEMMA CommittedStep ==
    ASSUME TypeInv, Committed, [Next]_vars PROVE Committed'
<1>0. /\ commitEntryMap \in [Entries -> Commits \cup {None}]
      /\ commitChainMap \in [Entries -> Commits \cup {None}]
  BY DEF TypeInv, TypeOK
<1>1. ASSUME UNCHANGED <<commitEntryMap, commitChainMap>> PROVE Committed'
  BY <1>1 DEF Committed
<1>2. ASSUME NEW c \in Commits, processCommitEntry(c) PROVE Committed'
  BY <1>0, <1>2 DEF processCommitEntry, Committed
<1>3. ASSUME NEW c \in Commits, processCommitChain(c) PROVE Committed'
  BY <1>0, <1>3 DEF processCommitChain, Committed
<1>4. ASSUME NEW e \in Entries, AcceptEntry(e) \/ AcceptChain(e)
      PROVE  Committed'
  BY <1>0, <1>4 DEF AcceptEntry, AcceptChain, Committed
<1>5. ASSUME NEW e \in Entries, processRevealEntry(e) \/ processFromOrphanPool(e)
      PROVE  Committed'
  <2>1. \/ AcceptEntry(e) \/ AcceptChain(e)
        \/ UNCHANGED <<commitEntryMap, commitChainMap>>
    BY <1>5 DEF processRevealEntry, processFromOrphanPool, RegisterOnly
  <2> QED BY <1>1, <1>4, <2>1
<1>6. CASE Serve
  <2>1. ASSUME \/ \E c \in Commits : RefuseCommit(c)
               \/ \E t \in Txs : processBuyEntryCredit(t) \/ RefuseFactoidTX(t)
        PROVE  UNCHANGED <<commitEntryMap, commitChainMap>>
    BY <2>1 DEF RefuseCommit, processBuyEntryCredit, RefuseFactoidTX
  <2> QED BY <1>1, <1>2, <1>3, <1>5, <1>6, <2>1 DEF Serve
<1>7. CASE EndOfMinute \/ EndOfMinute10 \/ EndProcessList \/ BuildItem \/ SealBlock
  <2>1. UNCHANGED <<commitEntryMap, commitChainMap>>
    BY <1>7 DEF EndOfMinute, EndOfMinute10, EndProcessList, BuildItem,
       buildCommit, buildIncreaseBalance, buildRevealEntry, buildRevealChain,
       buildFirstEntry, buildEndOfMinute, SealBlock, newEntryCreditBlock,
       newAdminBlock, newFactoidBlock, newDirectoryBlock, newEntryBlock,
       VisitChain, pools
  <2> QED BY <1>1, <2>1
<1>8. CASE initProcessor
  BY <1>8 DEF initProcessor, Committed
<1>9. CASE UNCHANGED vars
  BY <1>1, <1>9 DEF vars, pools
<1> QED BY <1>5, <1>6, <1>7, <1>8, <1>9, NextGroups

\* A step that lists one message.
LEMMA CollectLists ==
    ASSUME TypeInv, Lists, Committed', pc \in Collecting,
           pc' \in Collecting \cup {"build"},
           NEW item, plist' = Append(plist, item), PaidReveal(item),
           chainIDMap \subseteq chainIDMap',
           item.type \in Reveals => ChainOf[item.msg] \in chainIDMap',
           item.type = "revealChain" => ChainOf[item.msg] \notin chainIDMap,
           UNCHANGED <<chainDB, idx>>
    PROVE  Lists'
<1>0. plist \in Seq(Items)
  BY DEF TypeInv, TypeOK
<1>1. PaidList(plist', chainIDMap')
  BY <1>0, PaidAppend DEF Lists
<1>2. /\ pc # "panic" /\ Pending = idx /\ Pending' = idx
  BY DEF Pending, Collecting
<1>3. NewChains(plist', idx, chainDB)
  <2>1. NewChains(plist, idx, chainDB)
    BY <1>2 DEF Lists
  <2>2. item.type = "revealChain" =>
            /\ ChainOf[item.msg] \notin chainDB
            /\ \A n \in DOMAIN plist : plist[n].type = "revealChain" =>
                   ChainOf[plist[n].msg] # ChainOf[item.msg]
    BY DEF Lists, PaidList, Reveals
  <2> QED BY <1>0, <2>1, <2>2, NewAppend
<1> QED BY <1>1, <1>2, <1>3 DEF Lists

\* A step that leaves the list alone, and the databases of chains.
LEMMA QuietLists ==
    ASSUME Lists, Committed', chainIDMap \subseteq chainIDMap',
           UNCHANGED <<plist, chainDB>>, pc' = "panic" \/ (pc # "panic" /\ Pending' = Pending)
    PROVE  Lists'
BY DEF Lists, PaidList

LEMMA RevealLists ==
    ASSUME TypeInv, Lists, Committed', NEW e \in Entries, pc \in Collecting,
           pc' = pc,
           \/ AcceptEntry(e) \/ AcceptChain(e)
           \/ RegisterOnly(e)
           \/ UNCHANGED <<plist, commitEntryMap, commitChainMap, chains>>,
           UNCHANGED <<chainDB, idx>>
    PROVE  Lists'
<1>1. CASE AcceptEntry(e)
  <2> DEFINE item == Item("revealEntry", e, commitEntryMap[e], minute, eCreditMap)
  <2>1. /\ item.type = "revealEntry" /\ item.msg = e /\ item.by = commitEntryMap[e]
    BY DEF Item
  <2>2. /\ plist' = Append(plist, item) /\ chainIDMap' = chainIDMap
        /\ commitEntryMap[e] # None /\ ChainOf[e] \in chainIDMap
    BY <1>1 DEF AcceptEntry, AcceptsEntry, HasEntryCommit, Known, ListMessage,
       AddMyProcessListItem, chains
  <2> HIDE DEF item
  <2>3. PaidReveal(item)
    BY <2>1, <2>2 DEF PaidReveal, Lists, Committed
  <2> QED BY <2>1, <2>2, <2>3, CollectLists DEF Reveals
<1>2. CASE AcceptChain(e)
  <2> DEFINE item == Item("revealChain", e, commitChainMap[e], minute, eCreditMap)
  <2>1. /\ item.type = "revealChain" /\ item.msg = e /\ item.by = commitChainMap[e]
    BY DEF Item
  <2>2. /\ plist' = Append(plist, item)
        /\ chainIDMap' = chainIDMap \cup {ChainOf[e]}
        /\ commitChainMap[e] # None /\ ChainOf[e] \notin chainIDMap
        /\ NamesChain[e]
    BY <1>2 DEF AcceptChain, AcceptsChain, HasChainCommit, Known, ChainMatches,
       ListMessage, AddMyProcessListItem, AddChain
  <2> HIDE DEF item
  <2>3. PaidReveal(item)
    BY <2>1, <2>2 DEF PaidReveal, Lists, Committed
  <2> QED BY <2>1, <2>2, <2>3, CollectLists DEF Reveals
<1>3. CASE \/ RegisterOnly(e)
           \/ UNCHANGED <<plist, commitEntryMap, commitChainMap, chains>>
  <2>1. UNCHANGED plist /\ chainIDMap \subseteq chainIDMap'
    BY <1>3 DEF RegisterOnly, AddChain, chains
  <2>2. Pending' = Pending /\ pc # "panic"
    BY DEF Pending, Collecting
  <2> QED BY <2>1, <2>2, QuietLists
<1> QED BY <1>1, <1>2, <1>3

LEMMA BuildLists ==
    ASSUME TypeInv, Control, Lists, Committed', BuildItem PROVE Lists'
<1>0. plist \in Seq(Items) /\ idx \in Nat
  BY DEF TypeInv, TypeOK
<1>1. CASE buildCommit \/ buildIncreaseBalance \/ buildRevealEntry \/ buildEndOfMinute
  <2>1. /\ pc = "build" /\ pc' = "build" /\ idx' = idx + 1
        /\ UNCHANGED <<plist, chainIDMap, chainDB>>
    BY <1>1 DEF buildCommit, buildIncreaseBalance, buildRevealEntry,
       buildEndOfMinute, Building, chains, ledger, disk
  <2>2. NewChains(plist, idx, chainDB) /\ Pending' = idx + 1
    BY <2>1 DEF Lists, Pending
  <2>3. NewChains(plist, idx + 1, chainDB)
    BY <1>0, <2>2, NewNext
  <2> QED BY <2>1, <2>2, <2>3 DEF Lists
<1>2. CASE buildRevealChain
  <2> DEFINE d == ChainOf[plist[idx].msg]
  <2>1. /\ pc = "build" /\ pc' \in {"first", "panic"} /\ idx' = idx
        /\ chainDB' = chainDB \cup {d} /\ idx <= Len(plist)
        /\ plist[idx].type = "revealChain"
        /\ UNCHANGED <<plist, chainIDMap>>
    BY <1>2 DEF buildRevealChain, Building, ledger
  <2>2. idx \in DOMAIN plist
    BY <2>1 DEF TypeInv, TypeOK
  <2>3. NewChains(plist, idx, chainDB)
    BY <2>1 DEF Lists, Pending
  <2>4. NewChains(plist, idx + 1, chainDB \cup {d})
    BY <1>0, <2>1, <2>2, <2>3, NewNext
  <2>5. d \in chainIDMap
    BY <2>1, <2>2 DEF Lists, PaidList, Reveals
  <2>6. pc' # "panic" => Pending' = idx + 1
    BY <2>1 DEF Pending
  <2> HIDE DEF d
  <2> QED BY <2>1, <2>4, <2>5, <2>6 DEF Lists
<1>3. CASE buildFirstEntry
  <2>1. /\ pc = "first" /\ pc' = "build" /\ idx' = idx + 1
        /\ UNCHANGED <<plist, chainIDMap, chainDB>>
    BY <1>3 DEF buildFirstEntry, ledger
  <2>2. Pending' = Pending /\ pc # "panic"
    BY <2>1 DEF Pending
  <2> QED BY <2>1, <2>2, QuietLists
<1> QED BY <1>1, <1>2, <1>3 DEF BuildItem

LEMMA SealLists ==
    ASSUME TypeInv, Lists, Committed', SealBlock PROVE Lists'
<1>1. CASE newDirectoryBlock
  BY <1>1, EmptyLists DEF newDirectoryBlock, Lists, chains
<1>2. CASE ~newDirectoryBlock
  <2>1. /\ UNCHANGED <<plist, chainIDMap, chainDB, idx>>
        /\ pc \in {"build"} \cup Sealing /\ pc' \in Sealing \cup {"panic"}
    BY <1>2 DEF SealBlock, newEntryCreditBlock, newAdminBlock, newFactoidBlock,
       newEntryBlock, VisitChain, chains, ledger, Sealing
  <2>2. pc # "panic" /\ pc # "first" /\ pc' # "first"
    BY <2>1 DEF Sealing
  <2>3. Pending' = Pending
    BY <2>1, <2>2 DEF Pending
  <2> QED BY <2>1, <2>2, <2>3, QuietLists
<1> QED BY <1>1, <1>2

LEMMA ListsStep ==
    ASSUME TypeInv, Control, Lists, [Next]_vars PROVE Lists'
<1>0. Committed'
  BY CommittedStep DEF Lists
<1>1. CASE Serve
  <2>1. ASSUME NEW c \in Commits, processCommitEntry(c) \/ processCommitChain(c)
        PROVE  Lists'
    <3> DEFINE item == Item(CommitMsg[c].kind, c, None, 0, eCreditMap')
    <3>1. /\ item.type \in CommitKinds
      BY ConstantTypes DEF Item
    <3>2. /\ pc = "serve" /\ pc' = pc /\ plist' = Append(plist, item)
          /\ UNCHANGED <<chainIDMap, chainDB, idx>>
      BY <2>1 DEF processCommitEntry, processCommitChain, ChargeCommit,
         ListMessage, AddMyProcessListItem, chains, disk
    <3> HIDE DEF item
    <3>3. item.type \notin Reveals /\ item.type \notin {"revealEntry", "revealChain"}
      BY <3>1 DEF Reveals, CommitKinds
    <3>4. PaidReveal(item)
      BY <3>3 DEF PaidReveal
    <3> QED BY <1>0, <3>2, <3>3, <3>4, CollectLists DEF Collecting
  <2>2. ASSUME NEW t \in Txs, processBuyEntryCredit(t) PROVE Lists'
    <3> DEFINE item == Item("factoidTX", t, None, 0, eCreditMap')
    <3>1. item.type = "factoidTX"
      BY DEF Item
    <3>2. /\ pc = "serve" /\ pc' = pc /\ plist' = Append(plist, item)
          /\ UNCHANGED <<chainIDMap, chainDB, idx>>
      BY <2>2 DEF processBuyEntryCredit, ListMessage, AddMyProcessListItem,
         chains, disk
    <3> HIDE DEF item
    <3>3. item.type \notin Reveals /\ PaidReveal(item)
      BY <3>1 DEF Reveals, PaidReveal
    <3> QED BY <1>0, <3>1, <3>2, <3>3, CollectLists DEF Collecting
  <2>3. ASSUME \/ \E c \in Commits : RefuseCommit(c)
               \/ \E t \in Txs : RefuseFactoidTX(t)
        PROVE  Lists'
    <3>1. /\ pc = "serve" /\ pc' = pc
          /\ UNCHANGED <<plist, chainIDMap, chainDB, idx>>
      BY <2>3 DEF RefuseCommit, RefuseFactoidTX, ledger, chains, disk
    <3>2. Pending' = Pending /\ pc # "panic"
      BY <3>1 DEF Pending
    <3> QED BY <1>0, <3>1, <3>2, QuietLists
  <2>4. ASSUME NEW e \in Entries, processRevealEntry(e) PROVE Lists'
    <3>1. /\ pc = "serve" /\ pc' = pc /\ UNCHANGED <<chainDB, idx>>
          /\ \/ AcceptEntry(e) \/ AcceptChain(e) \/ RegisterOnly(e)
             \/ UNCHANGED <<plist, commitEntryMap, commitChainMap, chains>>
      BY <2>4 DEF processRevealEntry, disk
    <3> QED BY <1>0, <3>1, RevealLists DEF Collecting
  <2> QED BY <1>1, <2>1, <2>2, <2>3, <2>4 DEF Serve
<1>2. CASE EndOfMinute \/ EndProcessList
  <2>1. PICK m : plist' = Append(plist, Item("EOM", None, None, m, eCreditMap))
    BY <1>2 DEF EndOfMinute, EndProcessList, AddMyProcessListItem
  <2> DEFINE item == Item("EOM", None, None, m, eCreditMap)
  <2>2. item.type = "EOM" /\ plist' = Append(plist, item)
    BY <2>1 DEF Item
  <2>3. /\ pc \in Collecting /\ pc' \in Collecting \cup {"build"}
        /\ UNCHANGED <<chainIDMap, chainDB, idx>>
    BY <1>2 DEF EndOfMinute, EndProcessList, Collecting, chains, disk
  <2> HIDE DEF item
  <2>4. item.type \notin Reveals /\ PaidReveal(item)
    BY <2>2 DEF Reveals, PaidReveal
  <2> QED BY <1>0, <2>2, <2>3, <2>4, CollectLists
<1>3. CASE EndOfMinute10
  <2>1. /\ pc = "serve" /\ pc' = "orphans"
        /\ UNCHANGED <<plist, chainIDMap, chainDB, idx>>
    BY <1>3 DEF EndOfMinute10, ledger, chains, disk
  <2>2. Pending' = Pending /\ pc # "panic"
    BY <2>1 DEF Pending
  <2> QED BY <1>0, <2>1, <2>2, QuietLists
<1>4. ASSUME NEW e \in Entries, processFromOrphanPool(e) PROVE Lists'
  <2>1. /\ pc = "orphans" /\ pc' = pc /\ UNCHANGED <<chainDB, idx>>
        /\ \/ AcceptEntry(e) \/ AcceptChain(e) \/ RegisterOnly(e)
           \/ UNCHANGED <<plist, commitEntryMap, commitChainMap, chains>>
    BY <1>4 DEF processFromOrphanPool, disk
  <2> QED BY <1>0, <2>1, RevealLists DEF Collecting
<1>5. CASE BuildItem
  BY <1>0, <1>5, BuildLists
<1>6. CASE SealBlock
  BY <1>0, <1>6, SealLists
<1>7. CASE initProcessor
  <2>1. plist' = <<>> /\ chainIDMap' = chainDB /\ chainDB' = chainDB
    BY <1>7 DEF initProcessor, initEChains, disk
  <2> QED BY <1>0, <2>1, EmptyLists DEF Lists
<1>8. CASE UNCHANGED vars
  BY <1>0, <1>8 DEF vars, ledger, chains, disk, Lists, Pending
<1> QED BY <1>1, <1>2, <1>3, <1>4, <1>5, <1>6, <1>7, <1>8, NextGroups

----------------------------------------------------------------------------
\* Entry chains.  The blocks of a stored chain are numbered 0, 1, ... up to
\* its open block, each number once.  A chain that was made known by a
\* refused reveal is not stored: its first block is stored under the zero
\* chain id, so that the blocks under its own id never include number 0.

\* An entry is paid for by an entry commit, the first of a chain by a chain
\* commit.
BodyPaid(body, seq) ==
    \A i \in DOMAIN body : body[i].entry # None =>
        IF seq = 0 /\ i = 1
        THEN /\ CommitMsg[body[i].by].kind = "commitChain"
             /\ NamesChain[body[i].entry]
        ELSE CommitMsg[body[i].by].kind = "commitEntry"

Numbered(S, c, n) ==
    /\ \A b \in S : b.chain = c => b.seq \in 0 .. (n - 1)
    /\ \A k \in 0 .. (n - 1) : \E b \in S : b.chain = c /\ b.seq = k
    /\ \A a, b \in S : a.chain = c /\ b.chain = c /\ a.seq = b.seq => a = b

\* The chain whose first entry is built next.
IsFirst(c) == pc = "first" /\ c = ChainOf[plist[idx].msg]

ChainOK(c) ==
    LET block == eNext[c] IN
    /\ c \in chainDB => block.own /\ Numbered(eDB, c, block.seq)
    /\ c \notin chainDB => /\ block.own => block.seq > 0
                           /\ \A b \in eDB : b.chain = c => b.seq > 0
    /\ block.own => BodyPaid(block.body, block.seq)
    /\ block.own /\ block.seq = 0 => block.body # <<>> \/ IsFirst(c)
    /\ block.body # <<>> => c \in chainIDMap
    /\ pc \in Collecting => block.body = <<>>
    /\ pc = "entry" /\ c \notin todo => block.body = <<>>

FirstOK ==
    pc = "first" =>
        LET c == ChainOf[plist[idx].msg] IN
        c \in chainDB /\ eNext[c].seq = 0 /\ eNext[c].body = <<>>

ChainInv ==
    /\ ChainsOpenWithTheirFirstEntry
    /\ pc # "panic" => FirstOK /\ \A c \in Chains : ChainOK(c)

LEMMA PaidBlocks ==
    ChainsOpenWithTheirFirstEntry <=>
        \A b \in eDB : b.chain # ZeroChain => BodyPaid(b.body, b.seq)
BY DEF ChainsOpenWithTheirFirstEntry, BodyPaid

LEMMA InitChains == Init => ChainInv
<1> SUFFICES ASSUME Init PROVE ChainInv
  OBVIOUS
<1>1. ASSUME NEW c \in Chains PROVE ChainOK(c)
  <2>1. eNext[c] = NewEBlock /\ chainDB = {} /\ eDB = {} /\ pc = "serve"
    BY DEF Init
  <2>2. eNext[c].own = FALSE /\ eNext[c].body = <<>>
    BY <2>1 DEF NewEBlock
  <2> QED BY <2>1, <2>2 DEF ChainOK
<1>2. ChainsOpenWithTheirFirstEntry
  BY DEF Init, ChainsOpenWithTheirFirstEntry
<1>3. FirstOK
  BY DEF Init, FirstOK
<1> QED BY <1>1, <1>2, <1>3 DEF ChainInv

\* A non-empty set of natural numbers has a least element.
LEMMA LeastNatural ==
    ASSUME NEW T \in SUBSET Nat, T # {}
    PROVE  \E x \in T : \A y \in T : x <= y
<1> DEFINE R == OpToRel(<, Nat)
<1>1. IsWellFoundedOn(R, Nat)
  BY NatLessThanWellFounded, Zenon
<1>2. \A x, y \in Nat : y < x => <<y, x>> \in R
  BY DEF OpToRel
<1> HIDE DEF R
<1>3. PICK x \in T : \A y \in T : ~(<<y, x>> \in R)
  BY <1>1, WFMin
<1>4. \A y \in T : ~(y < x)
  BY <1>2, <1>3
<1> QED BY <1>4

\* A chain without a block that counts has no block at all.
LEMMA NoBlocksOf ==
    ASSUME TypeInv, NEW c \in Chains, BlocksOf(c) = {}, NEW n \in Nat,
           \A b \in eDB : b.height <= n
    PROVE  \A b \in eDB : b.chain # c
<1> SUFFICES ASSUME NEW b0 \in eDB, b0.chain = c PROVE FALSE
  OBVIOUS
<1>0. \A b \in eDB : b.height \in Nat /\ n - b.height \in Nat
  BY DEF TypeInv, TypeOK, EBlocks
<1> DEFINE Same == {b \in eDB : b.chain = c /\ b.seq = b0.seq}
           T    == {n - b.height : b \in Same}
<1>1. T \in SUBSET Nat /\ T # {}
  BY <1>0
<1>2. PICK x \in T : \A y \in T : x <= y
  BY <1>1, LeastNatural
<1>3. PICK top \in Same : x = n - top.height
  BY <1>2
<1>4. ASSUME NEW b \in Same PROVE b.height <= top.height
  <2>1. n - top.height <= n - b.height
    BY <1>2, <1>3
  <2>2. b.height \in Nat /\ top.height \in Nat
    BY <1>0, <1>3
  <2> QED BY <2>1, <2>2
<1>5. top \in BlocksOf(c)
  BY <1>3, <1>4 DEF BlocksOf
<1> QED BY <1>5

\* The blocks of a stored chain, as a start finds them.
LEMMA NumberedBlocks ==
    ASSUME TypeInv, NEW c \in Chains, NEW n \in Nat, Numbered(eDB, c, n)
    PROVE  /\ Cardinality(BlocksOf(c)) = n
           /\ {b.seq : b \in BlocksOf(c)} = 0 .. (n - 1)
<1>1. BlocksOf(c) = {b \in eDB : b.chain = c}
  <2>1. \A b \in eDB : b.height <= b.height
    BY DEF TypeInv, TypeOK, EBlocks
  <2> QED BY <2>1 DEF BlocksOf, Numbered
<1>2. {b.seq : b \in BlocksOf(c)} = 0 .. (n - 1)
  BY <1>1 DEF Numbered
<1> DEFINE f == [i \in 1 .. n |-> CHOOSE b \in eDB : b.chain = c /\ b.seq = i - 1]
<1>3. \A i \in 1 .. n : f[i] \in BlocksOf(c) /\ f[i].seq = i - 1
  <2> SUFFICES ASSUME NEW i \in 1 .. n
               PROVE  \E b \in eDB : b.chain = c /\ b.seq = i - 1
    BY <1>1
  <2>1. i - 1 \in 0 .. (n - 1)
    OBVIOUS
  <2> QED BY <2>1 DEF Numbered
<1>4. \A x \in BlocksOf(c) : \E i \in 1 .. n : f[i] = x
  <2> SUFFICES ASSUME NEW x \in BlocksOf(c) PROVE \E i \in 1 .. n : f[i] = x
    OBVIOUS
  <2>1. x \in eDB /\ x.chain = c /\ x.seq \in 0 .. (n - 1)
    BY <1>1 DEF Numbered
  <2>2. x.seq + 1 \in 1 .. n /\ (x.seq + 1) - 1 = x.seq
    BY <2>1
  <2>3. f[x.seq + 1] \in BlocksOf(c) /\ f[x.seq + 1].seq = x.seq
    BY <1>3, <2>2
  <2>4. f[x.seq + 1] = x
    BY <1>1, <2>1, <2>3 DEF Numbered
  <2> QED BY <2>2, <2>4
<1> HIDE DEF f
<1>5. f \in [1 .. n -> BlocksOf(c)]
  BY <1>3 DEF f
<1>6. \A i, j \in 1 .. n : f[i] = f[j] => i = j
  BY <1>3
<1>7. f \in Bijection(1 .. n, BlocksOf(c))
  BY <1>4, <1>5, <1>6 DEF Bijection, Injection, Surjection, IsInjective
<1>8. Cardinality(BlocksOf(c)) = n
  BY <1>7, FS_CountingElements DEF ExistsBijection
<1> QED BY <1>2, <1>8

\* A start on the blocks succeeds if the process died outside of buildBlocks.
LEMMA StartSucceeds ==
    ASSUME TypeInv, Directory, Clean, ChainInv, pc \in Collecting
    PROVE  StartupSucceeds
<1>1. /\ Consecutive({b.height : b \in aDB}, Cardinality(aDB))
      /\ Consecutive({b.height : b \in fDB}, Cardinality(fDB))
  BY OneOfEachHeight DEF Consecutive
<1>2. ASSUME NEW c \in chainDB PROVE EChainIntact(c)
  <2>1. c \in Chains /\ pc # "panic"
    BY DEF TypeInv, TypeOK, Collecting
  <2>2. Numbered(eDB, c, eNext[c].seq) /\ eNext[c].seq \in Nat
    BY <2>1 DEF ChainInv, ChainOK, TypeInv, TypeOK, OpenEBlocks
  <2> QED BY <2>1, <2>2, NumberedBlocks DEF EChainIntact, Consecutive
<1>3. validateDChain
  BY DEF validateDChain, validateDBlock, Directory, Listing, ListsStoredBlocks,
     BodiesStored, Listed
<1> QED BY <1>1, <1>2, <1>3 DEF StartupSucceeds

\* A chain that a step does not reach.
LEMMA ChainKept ==
    ASSUME NEW c \in Chains, ChainOK(c), eNext'[c] = eNext[c],
           c \in chainDB' <=> c \in chainDB,
           \A b : b.chain = c => (b \in eDB' <=> b \in eDB),
           IsFirst(c) => IsFirst(c)' \/ eNext[c].body # <<>>,
           c \in chainIDMap => c \in chainIDMap',
           pc' \in Collecting => eNext[c].body = <<>>,
           pc' = "entry" /\ c \notin todo' => eNext[c].body = <<>>
    PROVE  ChainOK(c)'
<1>1. Numbered(eDB, c, eNext[c].seq) => Numbered(eDB', c, eNext[c].seq)
  BY DEF Numbered
<1>2. (\A b \in eDB : b.chain = c => b.seq > 0)
          => \A b \in eDB' : b.chain = c => b.seq > 0
  OBVIOUS
<1> QED BY <1>1, <1>2 DEF ChainOK

\* A step that takes messages: a chain becomes known at most.
LEMMA CollectChains ==
    ASSUME TypeInv, Lists, ChainInv, pc \in Collecting,
           pc' \in Collecting \cup {"build"}, UNCHANGED <<chainDB, eDB>>,
           \/ UNCHANGED chains
           \/ \E d \in Chains : d \notin chainIDMap /\ AddChain(d)
    PROVE  ChainInv'
<1>0. /\ pc # "panic" /\ pc' \notin {"panic", "first", "entry"}
      /\ eNext \in [Chains -> OpenEBlocks]
  BY DEF Collecting, TypeInv, TypeOK
<1>1. ASSUME NEW c \in Chains PROVE ChainOK(c)'
  <2>0. ChainOK(c) /\ ~IsFirst(c)
    BY <1>0 DEF ChainInv, IsFirst, Collecting
  <2>1. CASE eNext'[c] = eNext[c]
    <3>1. chainIDMap \subseteq chainIDMap'
      BY DEF chains, AddChain
    <3>2. eNext[c].body = <<>>
      BY <2>0 DEF ChainOK
    <3> QED BY <1>0, <2>0, <2>1, <3>1, <3>2, ChainKept
  <2>2. CASE eNext'[c] # eNext[c]
    <3>1. PICK d \in Chains : d \notin chainIDMap /\ AddChain(d)
      BY <2>2 DEF chains
    <3>2. c = d /\ eNext'[c] = NewEBlock
      BY <1>0, <2>2, <3>1 DEF AddChain
    <3>3. c \notin chainDB'
      BY <3>1, <3>2 DEF Lists
    <3>4. \A b \in eDB' : b.chain = c => b.seq > 0
      BY <2>0, <3>3 DEF ChainOK
    <3>5. eNext'[c].own = FALSE /\ eNext'[c].body = <<>>
      BY <3>2 DEF NewEBlock
    <3> QED BY <3>3, <3>4, <3>5 DEF ChainOK
  <2> QED BY <2>1, <2>2
<1>2. FirstOK'
  BY <1>0 DEF FirstOK
<1>3. ChainsOpenWithTheirFirstEntry'
  BY DEF ChainInv, ChainsOpenWithTheirFirstEntry
<1> QED BY <1>1, <1>2, <1>3 DEF ChainInv

\* What a reveal does to the chains.
LEMMA RevealRegisters ==
    ASSUME NEW e \in Entries, processRevealEntry(e) \/ processFromOrphanPool(e)
    PROVE  /\ pc \in Collecting /\ pc' = pc /\ UNCHANGED <<chainDB, eDB>>
           /\ \/ UNCHANGED chains
              \/ \E d \in Chains : d \notin chainIDMap /\ AddChain(d)
<1>0. ChainOf[e] \in Chains
  BY ConstantTypes
<1>1. /\ pc \in Collecting /\ pc' = pc /\ UNCHANGED <<chainDB, eDB>>
  BY DEF processRevealEntry, processFromOrphanPool, disk, Collecting
<1>2. \/ UNCHANGED chains
      \/ ChainOf[e] \notin chainIDMap /\ AddChain(ChainOf[e])
  <2>1. CASE AcceptEntry(e)
    BY <2>1 DEF AcceptEntry
  <2>2. CASE AcceptChain(e)
    BY <2>2 DEF AcceptChain, AcceptsChain, Known
  <2>3. CASE (UnpaidChain(e) \/ InvalidChain(e)) /\ RegisterOnly(e)
    BY <2>3 DEF UnpaidChain, InvalidChain, Known, RegisterOnly
  <2> QED BY <2>1, <2>2, <2>3 DEF processRevealEntry, processFromOrphanPool
<1> QED BY <1>0, <1>1, <1>2

\* An entry that may follow the entries of an open block.
PaidNext(block, x) ==
    block.own /\ x.entry # None =>
        IF block.seq = 0 /\ block.body = <<>>
        THEN CommitMsg[x.by].kind = "commitChain" /\ NamesChain[x.entry]
        ELSE CommitMsg[x.by].kind = "commitEntry"

LEMMA AppendPaid ==
    ASSUME NEW block \in OpenEBlocks, NEW x, block.own,
           BodyPaid(block.body, block.seq), PaidNext(block, x)
    PROVE  BodyPaid(Append(block.body, x), block.seq)
<1> DEFINE body == block.body
           new  == Append(body, x)
<1>1. block.seq \in Nat /\ body \in Seq(EBEntries) /\ Len(body) \in Nat
  BY DEF OpenEBlocks
<1>2. Len(new) = Len(body) + 1 /\ DOMAIN new = 1 .. Len(new)
  BY <1>1
<1> SUFFICES ASSUME NEW i \in DOMAIN new, new[i].entry # None
             PROVE  IF block.seq = 0 /\ i = 1
                    THEN /\ CommitMsg[new[i].by].kind = "commitChain"
                         /\ NamesChain[new[i].entry]
                    ELSE CommitMsg[new[i].by].kind = "commitEntry"
  BY DEF BodyPaid
<1>3. CASE i \in DOMAIN body
  <2>1. new[i] = body[i]
    BY <1>1, <1>3
  <2> QED BY <1>3, <2>1 DEF BodyPaid
<1>4. CASE i \notin DOMAIN body
  <2>1. i = Len(body) + 1 /\ new[i] = x
    BY <1>1, <1>2, <1>4
  <2>2. i = 1 <=> body = <<>>
    BY <1>1, <2>1
  <2> QED BY <2>1, <2>2 DEF PaidNext
<1> QED BY <1>3, <1>4

\* A step that adds entries to open blocks.
LEMMA WriteChains ==
    ASSUME TypeInv, ChainInv, pc \in Writing, pc' = "build",
           UNCHANGED <<chainDB, chainIDMap, eDB>>,
           \A c \in Chains :
               \/ eNext'[c] = eNext[c] /\ ~IsFirst(c)
               \/ /\ c \in chainIDMap
                  /\ \E x \in EBEntries :
                         /\ eNext'[c] = [eNext[c] EXCEPT !.body = Append(@, x)]
                         /\ PaidNext(eNext[c], x)
    PROVE  ChainInv'
<1>0. /\ pc # "panic" /\ eNext \in [Chains -> OpenEBlocks]
      /\ pc' \notin Collecting \cup {"panic", "first", "entry"}
  BY DEF Writing, Collecting, TypeInv, TypeOK
<1>1. ASSUME NEW c \in Chains PROVE ChainOK(c)'
  <2>0. ChainOK(c) /\ eNext[c] \in OpenEBlocks
    BY <1>0 DEF ChainInv
  <2>1. CASE eNext'[c] = eNext[c] /\ ~IsFirst(c)
    BY <1>0, <2>0, <2>1, ChainKept
  <2>2. CASE /\ c \in chainIDMap
             /\ \E x \in EBEntries :
                    /\ eNext'[c] = [eNext[c] EXCEPT !.body = Append(@, x)]
                    /\ PaidNext(eNext[c], x)
    <3>1. PICK x \in EBEntries :
              /\ eNext'[c] = [eNext[c] EXCEPT !.body = Append(@, x)]
              /\ PaidNext(eNext[c], x)
      BY <2>2
    <3>2. /\ eNext'[c].own = eNext[c].own /\ eNext'[c].seq = eNext[c].seq
          /\ eNext'[c].body = Append(eNext[c].body, x)
      BY <2>0, <3>1 DEF OpenEBlocks
    <3>3. Append(eNext[c].body, x) # <<>>
      <4>1. eNext[c].body \in Seq(EBEntries)
        BY <2>0 DEF OpenEBlocks
      <4> QED BY <4>1
    <3>4. eNext[c].own => BodyPaid(eNext'[c].body, eNext[c].seq)
      BY <2>0, <3>1, <3>2, AppendPaid DEF ChainOK
    <3>5. /\ c \in chainDB => eNext[c].own /\ Numbered(eDB, c, eNext[c].seq)
          /\ c \notin chainDB => /\ eNext[c].own => eNext[c].seq > 0
                                 /\ \A b \in eDB : b.chain = c => b.seq > 0
      BY <2>0 DEF ChainOK
    <3>6. eNext'[c].body # <<>> /\ c \in chainIDMap'
      BY <2>2, <3>2, <3>3
    <3> QED BY <1>0, <3>2, <3>4, <3>5, <3>6 DEF ChainOK
  <2> QED BY <2>1, <2>2
<1>2. FirstOK'
  BY <1>0 DEF FirstOK
<1>3. ChainsOpenWithTheirFirstEntry'
  BY DEF ChainInv, ChainsOpenWithTheirFirstEntry
<1> QED BY <1>1, <1>2, <1>3 DEF ChainInv

LEMMA PanicChains ==
    ASSUME ChainInv, pc' = "panic", UNCHANGED eDB PROVE ChainInv'
BY DEF ChainInv, ChainsOpenWithTheirFirstEntry

LEMMA BuildChains ==
    ASSUME TypeInv, TypeInv', Control, Directory, Clean, Lists, ChainInv,
           BuildItem
    PROVE  ChainInv'
<1>0. /\ plist \in Seq(Items) /\ idx \in Nat \ {0} /\ Len(plist) \in Nat
      /\ eNext \in [Chains -> OpenEBlocks]
  BY DEF TypeInv, TypeOK
<1>1. CASE buildCommit \/ buildIncreaseBalance
  <2>1. /\ pc = "build" /\ pc' = "build"
        /\ UNCHANGED <<eNext, chainDB, chainIDMap, eDB>>
    BY <1>1 DEF buildCommit, buildIncreaseBalance, Building, chains, disk
  <2>2. \A c \in Chains : eNext'[c] = eNext[c] /\ ~IsFirst(c)
    BY <2>1 DEF IsFirst
  <2> QED BY <2>1, <2>2, WriteChains DEF Writing
<1>2. CASE buildRevealEntry \/ buildFirstEntry
  <2> DEFINE d == ChainOf[plist[idx].msg]
             x == EBEntry(plist[idx].msg, plist[idx].by, plist[idx].at)
  <2>1. /\ pc \in Writing /\ pc' = "build" /\ idx <= Len(plist)
        /\ pc = "build" => plist[idx].type = "revealEntry"
        /\ pc = "first" => plist[idx].type = "revealChain"
        /\ AddEBEntry(d, x) /\ UNCHANGED <<chainDB, chainIDMap, eDB>>
    BY <1>2 DEF buildRevealEntry, buildFirstEntry, Building, Writing, Control
  <2>2. idx \in DOMAIN plist /\ plist[idx].type \in Reveals
    BY <1>0, <2>1 DEF Writing, Reveals
  <2>3. d \in Chains /\ x \in EBEntries /\ d \in chainIDMap
        /\ PaidReveal(plist[idx])
    BY <2>1, <2>2, BuiltItem, ConstantTypes DEF Lists, PaidList, Writing
  <2>4. x.entry = plist[idx].msg /\ x.by = plist[idx].by
    BY DEF EBEntry
  <2>5. pc # "panic"
    BY <2>1 DEF Writing
  <2>6. PaidNext(eNext[d], x)
    <3>1. CASE pc = "build"
      <4>1. eNext[d].own /\ eNext[d].seq = 0 => eNext[d].body # <<>>
        BY <2>3, <2>5, <3>1 DEF ChainInv, ChainOK, IsFirst
      <4>2. CommitMsg[x.by].kind = "commitEntry"
        BY <2>1, <2>3, <2>4, <3>1 DEF PaidReveal
      <4> HIDE DEF d, x
      <4> QED BY <4>1, <4>2 DEF PaidNext
    <3>2. CASE pc = "first"
      <4>1. eNext[d].seq = 0 /\ eNext[d].body = <<>>
        BY <2>5, <3>2 DEF ChainInv, FirstOK
      <4>2. CommitMsg[x.by].kind = "commitChain" /\ NamesChain[x.entry]
        BY <2>1, <2>3, <2>4, <3>2 DEF PaidReveal
      <4> HIDE DEF d, x
      <4> QED BY <4>1, <4>2 DEF PaidNext
    <3> QED BY <2>1, <3>1, <3>2 DEF Writing
  <2>7. /\ eNext'[d] = [eNext[d] EXCEPT !.body = Append(@, x)]
        /\ \A c \in Chains \ {d} : eNext'[c] = eNext[c] /\ ~IsFirst(c)
    BY <1>0, <2>1, <2>3 DEF AddEBEntry, IsFirst
  <2> HIDE DEF d, x
  <2>8. ASSUME NEW c \in Chains
        PROVE  \/ eNext'[c] = eNext[c] /\ ~IsFirst(c)
               \/ /\ c \in chainIDMap
                  /\ \E y \in EBEntries :
                         /\ eNext'[c] = [eNext[c] EXCEPT !.body = Append(@, y)]
                         /\ PaidNext(eNext[c], y)
    BY <2>3, <2>6, <2>7
  <2> QED BY <2>1, <2>8, WriteChains
<1>3. CASE buildEndOfMinute
  <2> DEFINE x == EBEntry(None, None, plist[idx].at)
  <2>1. /\ pc = "build" /\ pc' = "build" /\ idx <= Len(plist)
        /\ plist[idx].type = "EOM" /\ UNCHANGED <<chainDB, chainIDMap, eDB>>
        /\ eNext' = [c \in Chains |->
                IF c \in TouchedChains(idx)
                THEN [eNext[c] EXCEPT !.body = Append(@, x)]
                ELSE eNext[c]]
    BY <1>3 DEF buildEndOfMinute, Building, disk
  <2>2. x \in EBEntries /\ x.entry = None
    BY <2>1, BuiltItem DEF EBEntry, EBEntries
  <2>3. \A c \in TouchedChains(idx) : c \in chainIDMap
    <3> SUFFICES ASSUME NEW n \in 1 .. (idx - 1), plist[n].type \in Reveals
                 PROVE  ChainOf[plist[n].msg] \in chainIDMap
      BY DEF TouchedChains
    <3>1. n \in DOMAIN plist
      BY <1>0, <2>1
    <3> QED BY <3>1 DEF Lists, PaidList
  <2> HIDE DEF x
  <2>4. \A c \in Chains : PaidNext(eNext[c], x)
    BY <2>2 DEF PaidNext
  <2>5. \A c \in Chains : ~IsFirst(c)
    BY <2>1 DEF IsFirst
  <2>6. ASSUME NEW c \in Chains
        PROVE  \/ eNext'[c] = eNext[c] /\ ~IsFirst(c)
               \/ /\ c \in chainIDMap
                  /\ \E y \in EBEntries :
                         /\ eNext'[c] = [eNext[c] EXCEPT !.body = Append(@, y)]
                         /\ PaidNext(eNext[c], y)
    BY <2>1, <2>2, <2>3, <2>4, <2>5
  <2> QED BY <2>1, <2>6, WriteChains DEF Writing
<1>4. CASE buildRevealChain
  <2> DEFINE d == ChainOf[plist[idx].msg]
  <2>1. /\ pc = "build" /\ pc' = IF EChainIntact(d) THEN "first" ELSE "panic"
        /\ idx <= Len(plist) /\ plist[idx].type = "revealChain"
        /\ chainDB' = chainDB \cup {d}
        /\ eNext' = [eNext EXCEPT ![d] = initEChainFromDB(d)]
        /\ UNCHANGED <<plist, idx, chainIDMap, eDB>>
    BY <1>4 DEF buildRevealChain, Building, ledger
  <2>2. CASE ~EChainIntact(d)
    BY <2>1, <2>2, PanicChains
  <2>3. CASE EChainIntact(d)
    <3>1. /\ idx \in DOMAIN plist /\ d \in Chains /\ d \in chainIDMap
      <4>1. idx \in DOMAIN plist /\ plist[idx].type \in Reveals
        BY <1>0, <2>1 DEF Reveals
      <4> QED BY <2>1, <4>1, BuiltItem, ConstantTypes DEF Lists, PaidList
    <3>2. d \notin chainDB
      BY <2>1, <3>1 DEF Lists, Pending, NewChains
    <3>3. \A b \in eDB : b.chain # d
      <4>1. \A b \in eDB : b.height <= Len(dDB) /\ Len(dDB) \in Nat
        <5>1. \A b \in eDB : ListedE(dDB, b)
          BY <2>1 DEF Clean, StoredOnce
        <5>2. Len(dDB) \in Nat /\ DOMAIN dDB = 1 .. Len(dDB)
          BY DEF TypeInv, TypeOK
        <5> QED BY <5>1, <5>2 DEF ListedE
      <4>2. \A b \in eDB : b.chain = d => b.seq > 0
        BY <2>1, <3>1, <3>2 DEF ChainInv, ChainOK
      <4>3. Cardinality(BlocksOf(d)) \in Nat /\ IsFiniteSet(BlocksOf(d))
        <5>1. IsFiniteSet(BlocksOf(d))
          BY FS_Subset DEF TypeInv, FiniteDB, BlocksOf
        <5> QED BY <5>1, FS_CardinalityType
      <4> DEFINE n == Cardinality(BlocksOf(d))
      <4>4. 0 \notin {b.seq : b \in BlocksOf(d)}
        BY <4>2 DEF BlocksOf
      <4>5. n = 0
        <5>1. {b.seq : b \in BlocksOf(d)} = 0 .. (n - 1)
          BY <2>3 DEF EChainIntact, Consecutive
        <5>2. n > 0 => 0 \in 0 .. (n - 1)
          BY <4>3
        <5> HIDE DEF n
        <5>3. n \in Nat
          BY <4>3 DEF n
        <5> QED BY <4>4, <5>1, <5>2, <5>3
      <4>6. BlocksOf(d) = {}
        BY <4>3, <4>5, FS_EmptySet
      <4> HIDE DEF d
      <4>7. Len(dDB) \in Nat
        BY DEF TypeInv, TypeOK
      <4> QED BY <3>1, <4>1, <4>6, <4>7, NoBlocksOf
    <3>4. eNext'[d] = [own |-> TRUE, seq |-> 0, body |-> <<>>]
      <4>1. BlocksOf(d) = {}
        BY <3>3 DEF BlocksOf
      <4>2. Cardinality(BlocksOf(d)) = 0
        BY <4>1, FS_EmptySet
      <4> QED BY <1>0, <2>1, <3>1, <4>2 DEF initEChainFromDB
    <3>5. ASSUME NEW c \in Chains PROVE ChainOK(c)'
      <4>1. CASE c = d
        <5>1. /\ eNext'[c].own = TRUE /\ eNext'[c].seq = 0
              /\ eNext'[c].body = <<>>
          BY <3>4, <4>1
        <5>2. Numbered(eDB', c, 0)
          BY <2>1, <3>3, <4>1 DEF Numbered
        <5>3. BodyPaid(<<>>, 0)
          BY DEF BodyPaid
        <5>4. IsFirst(c)' /\ c \in chainDB' /\ pc' = "first"
          BY <2>1, <2>3, <4>1 DEF IsFirst
        <5> HIDE DEF d
        <5> QED BY <5>1, <5>2, <5>3, <5>4 DEF ChainOK
      <4>2. CASE c # d
        <5>1. ChainOK(c) /\ ~IsFirst(c)
          BY <2>1 DEF ChainInv, IsFirst
        <5>2. eNext'[c] = eNext[c] /\ (c \in chainDB' <=> c \in chainDB)
          BY <1>0, <2>1, <4>2
        <5>3. pc' = "first" /\ pc' \notin Collecting \cup {"entry"}
          BY <2>1, <2>3 DEF Collecting
        <5> HIDE DEF d
        <5> QED BY <2>1, <5>1, <5>2, <5>3, ChainKept
      <4> QED BY <4>1, <4>2
    <3>6. FirstOK'
      BY <2>1, <3>4 DEF FirstOK
    <3>7. ChainsOpenWithTheirFirstEntry'
      BY <2>1 DEF ChainInv, ChainsOpenWithTheirFirstEntry
    <3> QED BY <3>5, <3>6, <3>7 DEF ChainInv
  <2> QED BY <2>2, <2>3
<1> QED BY <1>1, <1>2, <1>3, <1>4 DEF BuildItem

\* The next block of a chain takes the next number.
LEMMA NumberedNext ==
    ASSUME NEW S \in SUBSET EBlocks, NEW c, NEW n \in Nat, Numbered(S, c, n),
           NEW block, block.chain = c, block.seq = n
    PROVE  Numbered(S \cup {block}, c, n + 1)
<1> DEFINE T == S \cup {block}
<1>1. \A b \in S : b.chain = c => b.seq \in 0 .. (n - 1)
  BY DEF Numbered
<1>2. \A b \in T : b.chain = c => b.seq \in 0 .. ((n + 1) - 1)
  BY <1>1
<1>3. ASSUME NEW k \in 0 .. ((n + 1) - 1)
      PROVE  \E b \in T : b.chain = c /\ b.seq = k
  <2>1. k \in 0 .. (n - 1) \/ k = n
    OBVIOUS
  <2> QED BY <2>1 DEF Numbered
<1>4. ASSUME NEW a \in T, NEW b \in T, a.chain = c, b.chain = c, a.seq = b.seq
      PROVE  a = b
  <2>1. \A x \in S : x.chain = c => x.seq # n
    BY <1>1
  <2> QED BY <1>4, <2>1 DEF Numbered
<1> QED BY <1>2, <1>3, <1>4 DEF Numbered

LEMMA StoreChain ==
    ASSUME TypeInv, Lists, ChainInv, NEW d \in Chains, newEntryBlock(d)
    PROVE  ChainInv'
<1>0. /\ eNext \in [Chains -> OpenEBlocks] /\ eNext[d] \in OpenEBlocks
      /\ eDB \in SUBSET EBlocks /\ d # ZeroChain
  BY ConstantTypes DEF TypeInv, TypeOK
<1>1. /\ pc = "entry" /\ pc' = "entry" /\ todo' = todo \ {d}
      /\ UNCHANGED <<chainIDMap, chainDB>>
  BY DEF newEntryBlock, VisitChain
<1>2. FirstOK'
  BY <1>1 DEF FirstOK
<1>3. /\ \A c \in Chains : ChainOK(c) /\ ~IsFirst(c)
      /\ ChainsOpenWithTheirFirstEntry
  BY <1>1 DEF ChainInv, IsFirst
<1>4. CASE eNext[d].body = <<>>
  <2>1. UNCHANGED <<eNext, eDB>>
    BY <1>4 DEF newEntryBlock
  <2>2. ASSUME NEW c \in Chains PROVE ChainOK(c)'
    <3>1. c \notin todo' => eNext[c].body = <<>>
      BY <1>1, <1>3, <1>4 DEF ChainOK
    <3>2. pc' \notin Collecting
      BY <1>1 DEF Collecting
    <3>3. ChainOK(c) /\ ~IsFirst(c)
      BY <1>3
    <3> QED BY <1>1, <2>1, <3>1, <3>2, <3>3, ChainKept
  <2>3. ChainsOpenWithTheirFirstEntry'
    BY <1>3, <2>1 DEF ChainsOpenWithTheirFirstEntry
  <2> QED BY <1>2, <2>2, <2>3 DEF ChainInv
<1>5. CASE eNext[d].body # <<>>
  <2> DEFINE block == [chain |-> IF eNext[d].own THEN d ELSE ZeroChain,
                       seq |-> eNext[d].seq, height |-> nextHeight.d,
                       body |-> eNext[d].body]
  <2>1. /\ eDB' = eDB \cup {block}
        /\ eNext' = [eNext EXCEPT ![d] =
                 [own |-> TRUE, seq |-> eNext[d].seq + 1, body |-> <<>>]]
    BY <1>5 DEF newEntryBlock, StoreEntryBlock
  <2>2. /\ block.chain = IF eNext[d].own THEN d ELSE ZeroChain
        /\ block.seq = eNext[d].seq /\ block.body = eNext[d].body
    OBVIOUS
  <2> HIDE DEF block
  <2>3. /\ eNext'[d].own = TRUE /\ eNext'[d].seq = eNext[d].seq + 1
        /\ eNext'[d].body = <<>> /\ eNext[d].seq \in Nat
        /\ \A c \in Chains \ {d} : eNext'[c] = eNext[c]
    BY <1>0, <2>1 DEF OpenEBlocks
  <2>4. ChainOK(d)
    BY <1>3
  <2>5. ASSUME NEW c \in Chains PROVE ChainOK(c)'
    <3>1. CASE c # d
      <4>1. \A b : b.chain = c => (b \in eDB' <=> b \in eDB)
        <5>1. block.chain # c
          BY <2>2, <3>1, ConstantTypes
        <5> QED BY <2>1, <5>1
      <4>2. c \notin todo' => eNext[c].body = <<>>
        BY <1>1, <1>3, <3>1 DEF ChainOK
      <4>3. pc' \notin Collecting /\ ChainOK(c) /\ ~IsFirst(c)
        BY <1>1, <1>3 DEF Collecting
      <4>4. eNext'[c] = eNext[c]
        BY <2>3, <3>1
      <4> QED BY <1>1, <4>1, <4>2, <4>3, <4>4, ChainKept
    <3>2. CASE c = d
      <4>1. c \in chainDB' => Numbered(eDB', c, eNext'[c].seq)
        <5>1. c \in chainDB =>
                  /\ Numbered(eDB, c, eNext[c].seq) /\ block.chain = c
          BY <2>2, <2>4, <3>2 DEF ChainOK
        <5> QED BY <1>0, <1>1, <2>1, <2>2, <2>3, <3>2, <5>1, NumberedNext
      <4>2. c \notin chainDB' => \A b \in eDB' : b.chain = c => b.seq > 0
        <5>1. c \notin chainDB =>
                  /\ \A b \in eDB : b.chain = c => b.seq > 0
                  /\ eNext[c].own => eNext[c].seq > 0
          BY <2>4, <3>2 DEF ChainOK
        <5>2. block.chain = c => eNext[c].own
          BY <1>0, <2>2, <3>2
        <5> QED BY <1>1, <2>1, <2>2, <3>2, <5>1, <5>2
      <4>3. BodyPaid(eNext'[c].body, eNext'[c].seq)
        BY <2>3, <3>2 DEF BodyPaid
      <4>4. /\ eNext'[c].own /\ eNext'[c].body = <<>>
            /\ eNext'[c].seq > 0
        BY <2>3, <3>2
      <4> QED BY <4>1, <4>2, <4>3, <4>4 DEF ChainOK
    <3> QED BY <3>1, <3>2
  <2>6. ChainsOpenWithTheirFirstEntry'
    <3>1. \A b \in eDB : b.chain # ZeroChain => BodyPaid(b.body, b.seq)
      BY <1>3, PaidBlocks
    <3>2. block.chain # ZeroChain => BodyPaid(block.body, block.seq)
      BY <1>0, <2>2, <2>4 DEF ChainOK
    <3>3. \A b \in eDB' : b.chain # ZeroChain => BodyPaid(b.body, b.seq)
      BY <2>1, <3>1, <3>2
    <3> QED BY <3>3 DEF ChainsOpenWithTheirFirstEntry, BodyPaid
  <2> QED BY <1>2, <2>5, <2>6 DEF ChainInv
<1> QED BY <1>4, <1>5

LEMMA SealChains ==
    ASSUME TypeInv, Lists, ChainInv, SealBlock PROVE ChainInv'
<1>1. CASE newEntryCreditBlock \/ newAdminBlock \/ newFactoidBlock
  <2>1. /\ pc \in {"build", "admin", "fct"}
        /\ pc' \in {"admin", "fct", "entry", "panic"}
        /\ pc' = "entry" => todo' = chainIDMap
        /\ UNCHANGED <<eNext, chainIDMap, chainDB, eDB>>
    BY <1>1 DEF newEntryCreditBlock, newAdminBlock, newFactoidBlock, chains
  <2>2. ASSUME NEW c \in Chains PROVE ChainOK(c)'
    <3>1. ChainOK(c) /\ ~IsFirst(c)
      BY <2>1 DEF ChainInv, IsFirst
    <3>2. pc' = "entry" /\ c \notin todo' => eNext[c].body = <<>>
      BY <2>1, <3>1 DEF ChainOK
    <3>3. pc' \notin Collecting
      BY <2>1 DEF Collecting
    <3> QED BY <2>1, <3>1, <3>2, <3>3, ChainKept
  <2>3. FirstOK' /\ ChainsOpenWithTheirFirstEntry'
    BY <2>1 DEF FirstOK, ChainInv, ChainsOpenWithTheirFirstEntry
  <2> QED BY <2>2, <2>3 DEF ChainInv
<1>2. CASE newDirectoryBlock
  <2>1. /\ pc = "entry" /\ todo = {} /\ pc' = "serve"
        /\ UNCHANGED <<eNext, chainIDMap, chainDB, eDB>>
    BY <1>2 DEF newDirectoryBlock, chains
  <2>2. ASSUME NEW c \in Chains PROVE ChainOK(c)'
    <3>1. ChainOK(c) /\ ~IsFirst(c)
      BY <2>1 DEF ChainInv, IsFirst
    <3>2. eNext[c].body = <<>>
      BY <2>1, <3>1 DEF ChainOK
    <3> QED BY <2>1, <3>1, <3>2, ChainKept
  <2>3. FirstOK' /\ ChainsOpenWithTheirFirstEntry'
    BY <2>1 DEF FirstOK, ChainInv, ChainsOpenWithTheirFirstEntry
  <2> QED BY <2>2, <2>3 DEF ChainInv
<1> QED BY <1>1, <1>2, StoreChain DEF SealBlock

\* A start finds for every stored chain the number it had.
LEMMA RestartChains ==
    ASSUME CleanCrashes, TypeInv, Lists, ChainInv, initProcessor
    PROVE  ChainInv'
<1>0. eNext \in [Chains -> OpenEBlocks]
  BY DEF TypeInv, TypeOK
<1>1. /\ pc \in Collecting /\ pc' \in {"serve", "panic"}
      /\ eNext' = [c \in Chains |-> IF c \in chainDB THEN initEChainFromDB(c)
                                                     ELSE NewEBlock]
      /\ UNCHANGED <<chainDB, eDB>>
  BY DEF initProcessor, CleanCrashes, disk
<1>2. ASSUME NEW c \in Chains PROVE ChainOK(c)'
  <2>1. ChainOK(c) /\ ~IsFirst(c) /\ eNext[c].body = <<>>
    BY <1>1 DEF ChainInv, ChainOK, IsFirst, Collecting
  <2>2. CASE c \in chainDB
    <3>1. eNext[c].own /\ Numbered(eDB, c, eNext[c].seq) /\ eNext[c].seq \in Nat
      BY <1>0, <2>1, <2>2 DEF ChainOK, OpenEBlocks
    <3>2. Cardinality(BlocksOf(c)) = eNext[c].seq
      BY <3>1, NumberedBlocks
    <3>3. eNext[c].seq # 0
      BY <2>1, <3>1 DEF ChainOK
    <3>4. eNext'[c] = [own |-> TRUE, seq |-> eNext[c].seq, body |-> <<>>]
      BY <1>1, <2>2, <3>2 DEF initEChainFromDB
    <3>5. /\ eNext'[c].own /\ eNext'[c].seq = eNext[c].seq
          /\ eNext'[c].body = <<>>
      BY <3>4
    <3>6. BodyPaid(<<>>, eNext[c].seq)
      BY DEF BodyPaid
    <3> QED BY <1>1, <2>2, <3>1, <3>3, <3>5, <3>6 DEF ChainOK
  <2>3. CASE c \notin chainDB
    <3>1. eNext'[c].own = FALSE /\ eNext'[c].body = <<>>
      BY <1>1, <2>3 DEF NewEBlock
    <3>2. \A b \in eDB : b.chain = c => b.seq > 0
      BY <2>1, <2>3 DEF ChainOK
    <3> QED BY <1>1, <2>3, <3>1, <3>2 DEF ChainOK
  <2> QED BY <2>2, <2>3
<1>3. FirstOK' /\ ChainsOpenWithTheirFirstEntry'
  BY <1>1 DEF FirstOK, ChainInv, ChainsOpenWithTheirFirstEntry
<1> QED BY <1>2, <1>3 DEF ChainInv

LEMMA ChainStep ==
    ASSUME CleanCrashes, TypeInv, TypeInv', Control, Directory, Clean, Lists,
           ChainInv, [Next]_vars
    PROVE  ChainInv'
<1>1. CASE Serve
  <2>1. CASE \E e \in Entries : processRevealEntry(e)
    BY <2>1, RevealRegisters, CollectChains
  <2>2. CASE ~\E e \in Entries : processRevealEntry(e)
    <3>1. pc = "serve" /\ pc' = pc /\ UNCHANGED <<chainDB, eDB, chains>>
      BY <1>1, <2>2 DEF Serve, processCommitEntry, processCommitChain,
         RefuseCommit, processBuyEntryCredit, RefuseFactoidTX, disk
    <3> QED BY <3>1, CollectChains DEF Collecting
  <2> QED BY <2>1, <2>2
<1>2. CASE EndOfMinute \/ EndOfMinute10 \/ EndProcessList
  <2>1. /\ pc \in Collecting /\ pc' \in Collecting \cup {"build"}
        /\ UNCHANGED <<chainDB, eDB, chains>>
    BY <1>2 DEF EndOfMinute, EndOfMinute10, EndProcessList, Collecting, disk
  <2> QED BY <2>1, CollectChains
<1>3. CASE \E e \in Entries : processFromOrphanPool(e)
  BY <1>3, RevealRegisters, CollectChains
<1>4. CASE BuildItem
  BY <1>4, BuildChains
<1>5. CASE SealBlock
  BY <1>5, SealChains
<1>6. CASE initProcessor
  BY <1>6, RestartChains
<1>7. CASE UNCHANGED vars
  BY <1>7 DEF vars, ledger, chains, disk, ChainInv, ChainOK, FirstOK, IsFirst,
     ChainsOpenWithTheirFirstEntry
<1> QED BY <1>1, <1>2, <1>3, <1>4, <1>5, <1>6, <1>7, NextGroups

ChainsInv == BlocksInv /\ Lists /\ ChainInv

LEMMA ChainsInductive ==
    ASSUME CleanCrashes PROVE Spec => []ChainsInv
<1>1. Init => ChainsInv
  BY InitType, InitControl, InitLedger, InitDirectory, InitClean, InitLists,
     InitChains DEF IInv, BlocksInv, ChainsInv
<1>2. ChainsInv /\ [Next]_vars => ChainsInv'
  BY CleanCrashes, TypeStep, ControlStep, LedgerStep, DirectoryStep, CleanStep,
     ListsStep, ChainStep DEF IInv, BlocksInv, ChainsInv
<1> QED BY <1>1, <1>2, PTL DEF Spec

\* If the process dies only between two block buildings, every chain opens
\* with the entry that names it, paid by a chain commit, and every other entry
\* of it was paid by an entry commit.
THEOREM ChainsOpenRight ==
    ASSUME CleanCrashes PROVE Spec => []ChainsOpenWithTheirFirstEntry
<1>1. ChainsInv => ChainsOpenWithTheirFirstEntry
  BY DEF ChainsInv, ChainInv
<1> QED BY <1>1, ChainsInductive, PTL

----------------------------------------------------------------------------
\* A reveal that processRevealEntry refuses may leave its chain in chainIDMap
\* and nowhere else (RegisterOnly).  Entries revealed into such a chain are
\* stored, the first block under the zero chain id; if the chain is then
\* created after all, buildRevealChain finds blocks without a first one and
\* panics.  That takes two chain commits for one chain, one whose reveal is
\* refused and one whose reveal is accepted.

\* The reveal of the entry that chain commit c names can be accepted.
Sound(c) ==
    LET e == CommitMsg[c].entry IN
    /\ Cost[e] > 0 /\ NamesChain[e] /\ CommitMsg[c].weld
    /\ CommitMsg[c].credits >= Cost[e] + ChainFee

ChainCommits(d) ==
    {c \in Commits : /\ CommitMsg[c].kind = "commitChain"
                     /\ ChainOf[CommitMsg[c].entry] = d}

\* The chains that no refused reveal makes known.
Honest == {d \in Chains : \A c \in ChainCommits(d) : Sound(c)}

\* The chain commits of one chain are all sound or none of them is.
CommitsAgree ==
    \A d \in Chains : d \in Honest \/ \A c \in ChainCommits(d) : ~Sound(c)

Creates(list, n, c) == list[n].type = "revealChain" /\ ChainOf[list[n].msg] = c

Expected(list, from, c) ==
    \E n \in DOMAIN list : n >= from /\ Creates(list, n, c)

\* Of the listed reveals, those before item from have their chain stored, and
\* the others have it stored, or an item creates it before.
Founded(list, from, stored) ==
    \A n \in DOMAIN list : list[n].type \in Reveals =>
        LET c == ChainOf[list[n].msg] IN
        /\ list[n].type = "revealChain" => c \in Honest
        /\ c \in Honest /\ n < from => c \in stored
        /\ c \in Honest /\ n >= from /\ list[n].type = "revealEntry" =>
               c \in stored \/ \E m \in from .. (n - 1) : Creates(list, m, c)

Vacant(c) ==
    ~eNext[c].own /\ eNext[c].body = <<>> /\ \A b \in eDB : b.chain # c

NoGhosts ==
    /\ pc # "panic"
    /\ pc \in Collecting => idx = 1
    /\ pc \in Sealing => idx > Len(plist)
    /\ Founded(plist, Pending, chainDB)
    /\ \A c \in Honest \ chainDB :
           Vacant(c) /\ (c \in chainIDMap => Expected(plist, Pending, c))

LEMMA InitGhosts == Init => NoGhosts
<1> SUFFICES ASSUME Init PROVE NoGhosts
  OBVIOUS
<1>1. ASSUME NEW c \in Chains PROVE Vacant(c)
  <2>1. eNext[c] = NewEBlock /\ eDB = {}
    BY DEF Init
  <2> QED BY <2>1 DEF Vacant, NewEBlock
<1>2. /\ pc = "serve" /\ idx = 1 /\ plist = <<>> /\ chainIDMap = {}
  BY DEF Init
<1>3. Founded(<<>>, Pending, chainDB)
  BY DEF Founded
<1> QED BY <1>1, <1>2, <1>3 DEF NoGhosts, Sealing, Honest

LEMMA EmptyFounded == \A from, stored : Founded(<<>>, from, stored)
BY DEF Founded

\* What may follow the listed items.
FoundedItem(list, stored, item) ==
    item.type \in Reveals =>
        LET c == ChainOf[item.msg] IN
        /\ item.type = "revealChain" => c \in Honest
        /\ item.type = "revealEntry" /\ c \in Honest =>
               c \in stored \/ Expected(list, 1, c)

LEMMA ExpectedAppend ==
    ASSUME NEW list \in Seq(Items), NEW item, NEW c
    PROVE  /\ Expected(list, 1, c) => Expected(Append(list, item), 1, c)
           /\ item.type = "revealChain" /\ ChainOf[item.msg] = c =>
                  Expected(Append(list, item), 1, c)
<1> DEFINE longer == Append(list, item)
           last   == Len(list) + 1
<1>1. /\ \A n \in DOMAIN list : n \in DOMAIN longer /\ longer[n] = list[n]
      /\ last \in DOMAIN longer /\ longer[last] = item /\ last >= 1
  OBVIOUS
<1> HIDE DEF longer, last
<1>2. Expected(list, 1, c) => Expected(longer, 1, c)
  BY <1>1 DEF Expected, Creates
<1>3. item.type = "revealChain" /\ ChainOf[item.msg] = c => Expected(longer, 1, c)
  BY <1>1 DEF Expected, Creates
<1> QED BY <1>2, <1>3 DEF longer

LEMMA FoundedAppend ==
    ASSUME NEW list \in Seq(Items), NEW item, NEW stored,
           Founded(list, 1, stored), FoundedItem(list, stored, item)
    PROVE  Founded(Append(list, item), 1, stored)
<1> DEFINE longer == Append(list, item)
<1>0. Len(list) \in Nat /\ DOMAIN list = 1 .. Len(list)
  OBVIOUS
<1>1. \A n \in DOMAIN longer :
         \/ n \in DOMAIN list /\ longer[n] = list[n]
         \/ n = Len(list) + 1 /\ longer[n] = item
  OBVIOUS
<1>2. \A n \in DOMAIN list : n \in DOMAIN longer /\ longer[n] = list[n]
  OBVIOUS
<1> HIDE DEF longer
<1>3. ASSUME NEW n \in DOMAIN longer, longer[n].type \in Reveals
      PROVE  LET c == ChainOf[longer[n].msg] IN
             /\ longer[n].type = "revealChain" => c \in Honest
             /\ c \in Honest /\ n < 1 => c \in stored
             /\ c \in Honest /\ n >= 1 /\ longer[n].type = "revealEntry" =>
                  c \in stored \/ \E m \in 1 .. (n - 1) : Creates(longer, m, c)
  <2> DEFINE c == ChainOf[longer[n].msg]
  <2>1. CASE n \in DOMAIN list /\ longer[n] = list[n]
    <3>1. /\ longer[n].type = "revealChain" => c \in Honest
          /\ c \in Honest /\ n < 1 => c \in stored
          /\ c \in Honest /\ n >= 1 /\ longer[n].type = "revealEntry" =>
                 c \in stored \/ \E m \in 1 .. (n - 1) : Creates(list, m, c)
      BY <1>3, <2>1 DEF Founded
    <3>2. \A m \in 1 .. (n - 1) : m \in DOMAIN list
      BY <1>0, <2>1
    <3> HIDE DEF c
    <3>3. \A m \in 1 .. (n - 1) : Creates(list, m, c) => Creates(longer, m, c)
      BY <1>2, <3>2 DEF Creates
    <3> QED BY <3>1, <3>3 DEF c
  <2>2. CASE n = Len(list) + 1 /\ longer[n] = item
    <3>1. /\ item.type = "revealChain" => c \in Honest
          /\ item.type = "revealEntry" /\ c \in Honest =>
                 c \in stored \/ Expected(list, 1, c)
      BY <1>3, <2>2 DEF FoundedItem
    <3>2. ~(n < 1)
      BY <1>0, <2>2
    <3> HIDE DEF c
    <3>3. Expected(list, 1, c) => \E m \in 1 .. (n - 1) : Creates(longer, m, c)
      <4> SUFFICES ASSUME NEW m \in DOMAIN list, Creates(list, m, c)
                   PROVE  \E k \in 1 .. (n - 1) : Creates(longer, k, c)
        BY DEF Expected
      <4>1. m \in 1 .. (n - 1)
        BY <1>0, <2>2
      <4> QED BY <1>2, <4>1 DEF Creates
    <3> QED BY <2>2, <3>1, <3>2, <3>3 DEF c
  <2> QED BY <1>1, <2>1, <2>2
<1>4. Founded(longer, 1, stored)
  BY <1>3 DEF Founded
<1> QED BY <1>4 DEF longer

\* An item is built: the chain it creates, if it does, is stored.
LEMMA FoundedNext ==
    ASSUME NEW list \in Seq(Items), NEW i \in DOMAIN list, NEW stored, NEW more,
           stored \subseteq more, Founded(list, i, stored),
           list[i].type = "revealChain" => ChainOf[list[i].msg] \in more
    PROVE  /\ Founded(list, i + 1, more)
           /\ \A c : Expected(list, i, c) /\ c \notin more =>
                         Expected(list, i + 1, c)
<1>0. i \in Nat /\ DOMAIN list \subseteq Nat
  OBVIOUS
<1>1. ASSUME NEW c, c \notin more, NEW m \in Nat, m >= i, Creates(list, m, c)
      PROVE  m >= i + 1
  <2>1. m # i
    BY <1>1 DEF Creates
  <2> QED BY <1>0, <1>1, <2>1
<1>2. ASSUME NEW n \in DOMAIN list, list[n].type \in Reveals
      PROVE  LET c == ChainOf[list[n].msg] IN
             /\ list[n].type = "revealChain" => c \in Honest
             /\ c \in Honest /\ n < i + 1 => c \in more
             /\ c \in Honest /\ n >= i + 1 /\ list[n].type = "revealEntry" =>
                    c \in more \/ \E m \in (i + 1) .. (n - 1) : Creates(list, m, c)
  <2> DEFINE c == ChainOf[list[n].msg]
  <2>1. /\ list[n].type = "revealChain" => c \in Honest
        /\ c \in Honest /\ n < i => c \in stored
        /\ c \in Honest /\ n >= i /\ list[n].type = "revealEntry" =>
               c \in stored \/ \E m \in i .. (n - 1) : Creates(list, m, c)
    BY <1>2 DEF Founded
  <2>2. list[n].type \in {"revealEntry", "revealChain"}
    BY <1>2 DEF Reveals
  <2>3. n = i /\ list[n].type = "revealChain" => c \in more
    OBVIOUS
  <2>4. n \in Nat
    BY <1>0
  <2> HIDE DEF c
  <2>5. ASSUME c \in Honest, n < i + 1 PROVE c \in more
    <3>1. n < i \/ n = i
      BY <1>0, <2>4, <2>5
    <3>2. ASSUME n = i PROVE ~\E m \in i .. (n - 1) : Creates(list, m, c)
      BY <1>0, <3>2
    <3>3. n = i => n >= i
      BY <1>0
    <3> QED BY <2>1, <2>2, <2>3, <2>5, <3>1, <3>2, <3>3
  <2>6. ASSUME c \in Honest, n >= i + 1, list[n].type = "revealEntry",
               c \notin more
        PROVE  \E m \in (i + 1) .. (n - 1) : Creates(list, m, c)
    <3>1. n >= i
      BY <1>0, <2>4, <2>6
    <3>2. PICK m \in i .. (n - 1) : Creates(list, m, c)
      BY <2>1, <2>6, <3>1
    <3>3. m \in Nat /\ m >= i /\ m <= n - 1
      BY <1>0, <2>4
    <3>4. m >= i + 1
      BY <1>1, <2>6, <3>2, <3>3
    <3>5. m \in (i + 1) .. (n - 1)
      BY <1>0, <2>4, <3>3, <3>4
    <3> QED BY <3>2, <3>5
  <2> QED BY <2>1, <2>5, <2>6 DEF c
<1>3. Founded(list, i + 1, more)
  BY <1>2 DEF Founded
<1>4. ASSUME NEW c, Expected(list, i, c), c \notin more
      PROVE  Expected(list, i + 1, c)
  <2>1. PICK n \in DOMAIN list : n >= i /\ Creates(list, n, c)
    BY <1>4 DEF Expected
  <2>2. n >= i + 1
    BY <1>0, <1>1, <1>4, <2>1
  <2> QED BY <2>1, <2>2 DEF Expected
<1> QED BY <1>3, <1>4

\* A step that takes a message.
LEMMA CollectGhosts ==
    ASSUME TypeInv, NoGhosts, pc \in Collecting, pc' \in Collecting \cup {"build"},
           UNCHANGED <<idx, chainDB, eDB>>,
           \/ UNCHANGED plist
           \/ \E item : /\ plist' = Append(plist, item)
                        /\ FoundedItem(plist, chainDB, item),
           \A c \in Honest \ chainDB :
               /\ eNext'[c] \in {eNext[c], NewEBlock}
               /\ c \in chainIDMap' => c \in chainIDMap \/ Expected(plist', 1, c)
    PROVE  NoGhosts'
<1>0. plist \in Seq(Items)
  BY DEF TypeInv, TypeOK
<1>1. /\ Pending = 1 /\ Pending' = 1 /\ idx = 1 /\ idx' = 1
      /\ pc' \notin Sealing \cup {"panic"}
  BY DEF NoGhosts, Pending, Collecting, Sealing
<1>2. Founded(plist, 1, chainDB)
  BY <1>1 DEF NoGhosts
<1>3. Founded(plist', 1, chainDB)
  BY <1>0, <1>2, FoundedAppend
<1>4. \A c : Expected(plist, 1, c) => Expected(plist', 1, c)
  BY <1>0, ExpectedAppend
<1>5. ASSUME NEW c \in Honest \ chainDB
      PROVE  Vacant(c)' /\ (c \in chainIDMap' => Expected(plist', 1, c))
  <2>1. Vacant(c) /\ (c \in chainIDMap => Expected(plist, 1, c))
    BY <1>1 DEF NoGhosts
  <2>2. eNext'[c] \in {eNext[c], NewEBlock}
    OBVIOUS
  <2>3. Vacant(c)'
    BY <2>1, <2>2 DEF Vacant, NewEBlock
  <2> QED BY <1>4, <2>1, <2>3
<1> QED BY <1>1, <1>3, <1>5 DEF NoGhosts

\* A chain commit that waits is for its entry, and the chain is honest if and
\* only if the commit is sound.
LEMMA WaitingCommit ==
    ASSUME CommitsAgree, TypeInv, Lists, NEW e \in Entries, HasChainCommit(e)
    PROVE  Sound(commitChainMap[e]) <=> ChainOf[e] \in Honest
<1> DEFINE c == commitChainMap[e]
<1>1. c \in Commits /\ CommitMsg[c].kind = "commitChain" /\ CommitMsg[c].entry = e
  BY DEF HasChainCommit, TypeInv, TypeOK, Lists, Committed
<1>2. ChainOf[e] \in Chains
  BY ConstantTypes
<1>3. c \in ChainCommits(ChainOf[e])
  BY <1>1 DEF ChainCommits
<1> QED BY <1>2, <1>3 DEF Honest, CommitsAgree

LEMMA RevealGhosts ==
    ASSUME CommitsAgree, TypeInv, Lists, NoGhosts, NEW e \in Entries,
           processRevealEntry(e) \/ processFromOrphanPool(e)
    PROVE  NoGhosts'
<1> DEFINE d == ChainOf[e]
<1>0. /\ eNext \in [Chains -> OpenEBlocks] /\ d \in Chains
      /\ plist \in Seq(Items) /\ Honest \subseteq Chains
      /\ commitChainMap \in [Entries -> Commits \cup {None}]
  BY ConstantTypes DEF TypeInv, TypeOK, Honest
<1>1. pc \in Collecting /\ pc' = pc /\ UNCHANGED <<idx, chainDB, eDB>>
  BY DEF processRevealEntry, processFromOrphanPool, disk, Collecting
<1>2. Pending = 1
  BY <1>1 DEF NoGhosts, Pending, Collecting
<1>3. CASE AcceptEntry(e)
  <2> DEFINE item == Item("revealEntry", e, commitEntryMap[e], minute, eCreditMap)
  <2>1. item.type = "revealEntry" /\ item.msg = e
    BY DEF Item
  <2>2. /\ plist' = Append(plist, item) /\ UNCHANGED <<eNext, chainIDMap>>
        /\ d \in chainIDMap
    BY <1>3 DEF AcceptEntry, AcceptsEntry, Known, ListMessage,
       AddMyProcessListItem, chains
  <2> HIDE DEF item
  <2>3. FoundedItem(plist, chainDB, item)
    BY <1>2, <2>1, <2>2 DEF FoundedItem, NoGhosts
  <2> QED BY <1>1, <2>2, <2>3, CollectGhosts
<1>4. CASE AcceptChain(e)
  <2> DEFINE item == Item("revealChain", e, commitChainMap[e], minute, eCreditMap)
  <2>1. item.type = "revealChain" /\ item.msg = e
    BY DEF Item
  <2>2. /\ plist' = Append(plist, item) /\ AddChain(d) /\ AcceptsChain(e)
    BY <1>4 DEF AcceptChain, ListMessage, AddMyProcessListItem
  <2> HIDE DEF item
  <2>3. d \in Honest
    <3>1. HasChainCommit(e) /\ Cost[e] > 0 /\ ChainPaid(e) /\ ChainMatches(e)
      BY <2>2 DEF AcceptsChain
    <3>2. CommitMsg[commitChainMap[e]].entry = e
      BY <3>1 DEF HasChainCommit, Lists, Committed
    <3>3. Sound(commitChainMap[e])
      BY <3>1, <3>2 DEF ChainPaid, ChainMatches, Sound
    <3> QED BY <3>1, <3>3, WaitingCommit
  <2>4. FoundedItem(plist, chainDB, item)
    BY <2>1, <2>3 DEF FoundedItem
  <2>5. Expected(plist', 1, d)
    BY <1>0, <2>1, <2>2, ExpectedAppend
  <2>6. ASSUME NEW c \in Honest \ chainDB
        PROVE  /\ eNext'[c] \in {eNext[c], NewEBlock}
               /\ c \in chainIDMap' => c \in chainIDMap \/ Expected(plist', 1, c)
    BY <1>0, <2>2, <2>5 DEF AddChain
  <2> QED BY <1>1, <2>2, <2>4, <2>6, CollectGhosts
<1>5. CASE (UnpaidChain(e) \/ InvalidChain(e)) /\ RegisterOnly(e)
  <2>1. UNCHANGED plist /\ AddChain(d)
    BY <1>5 DEF RegisterOnly
  <2>2. d \notin Honest
    <3>1. /\ HasChainCommit(e)
          /\ ~(Cost[e] > 0) \/ ~ChainPaid(e) \/ ~ChainMatches(e)
      BY <1>5 DEF UnpaidChain, InvalidChain
    <3>2. CommitMsg[commitChainMap[e]].entry = e
      BY <3>1 DEF HasChainCommit, Lists, Committed
    <3>3. ~Sound(commitChainMap[e])
      BY <3>1, <3>2 DEF ChainPaid, ChainMatches, Sound
    <3> QED BY <3>1, <3>3, WaitingCommit
  <2>3. ASSUME NEW c \in Honest \ chainDB
        PROVE  /\ eNext'[c] \in {eNext[c], NewEBlock}
               /\ c \in chainIDMap' => c \in chainIDMap \/ Expected(plist', 1, c)
    BY <1>0, <2>1, <2>2 DEF AddChain
  <2> QED BY <1>1, <2>1, <2>3, CollectGhosts
<1>6. CASE UNCHANGED <<plist, chains>>
  BY <1>1, <1>6, CollectGhosts DEF chains
<1>7. \/ AcceptEntry(e) \/ AcceptChain(e)
      \/ (UnpaidChain(e) \/ InvalidChain(e)) /\ RegisterOnly(e)
      \/ UNCHANGED <<plist, chains>>
  BY DEF processRevealEntry, processFromOrphanPool
<1> QED BY <1>3, <1>4, <1>5, <1>6, <1>7

\* The other steps that take a message.
LEMMA MessageGhosts ==
    ASSUME TypeInv, NoGhosts,
           \/ Serve /\ ~\E e \in Entries : processRevealEntry(e)
           \/ EndOfMinute \/ EndOfMinute10 \/ EndProcessList
    PROVE  NoGhosts'
<1>1. /\ pc \in Collecting /\ pc' \in Collecting \cup {"build"}
      /\ UNCHANGED <<idx, chainDB, eDB, eNext, chainIDMap>>
  BY DEF Serve, processCommitEntry, processCommitChain, RefuseCommit,
     processBuyEntryCredit, RefuseFactoidTX, EndOfMinute, EndOfMinute10,
     EndProcessList, Collecting, chains, disk
<1>2. \/ UNCHANGED plist
      \/ \E item : plist' = Append(plist, item) /\ item.type \notin Reveals
  <2>1. ASSUME NEW c \in Commits, processCommitEntry(c) \/ processCommitChain(c)
        PROVE  \E item : plist' = Append(plist, item) /\ item.type \notin Reveals
    <3> DEFINE item == Item(CommitMsg[c].kind, c, None, 0, eCreditMap')
    <3>1. item.type \in CommitKinds
      BY ConstantTypes DEF Item
    <3>2. plist' = Append(plist, item)
      BY <2>1 DEF processCommitEntry, processCommitChain, ChargeCommit,
         ListMessage, AddMyProcessListItem
    <3>3. item.type \notin Reveals
      BY <3>1 DEF CommitKinds, Reveals
    <3> HIDE DEF item
    <3> QED BY <3>2, <3>3
  <2>2. ASSUME NEW t \in Txs, processBuyEntryCredit(t)
        PROVE  \E item : plist' = Append(plist, item) /\ item.type \notin Reveals
    <3> DEFINE item == Item("factoidTX", t, None, 0, eCreditMap')
    <3>1. item.type \notin Reveals
      BY DEF Item, Reveals
    <3>2. plist' = Append(plist, item)
      BY <2>2 DEF processBuyEntryCredit, ListMessage, AddMyProcessListItem
    <3> HIDE DEF item
    <3> QED BY <3>1, <3>2
  <2>3. ASSUME EndOfMinute \/ EndProcessList
        PROVE  \E item : plist' = Append(plist, item) /\ item.type \notin Reveals
    <3>1. PICK m : plist' = Append(plist, Item("EOM", None, None, m, eCreditMap))
      BY <2>3 DEF EndOfMinute, EndProcessList, AddMyProcessListItem
    <3>2. Item("EOM", None, None, m, eCreditMap).type \notin Reveals
      BY DEF Item, Reveals
    <3> QED BY <3>1, <3>2
  <2>4. ASSUME \/ EndOfMinute10 \/ \E c \in Commits : RefuseCommit(c)
               \/ \E t \in Txs : RefuseFactoidTX(t)
        PROVE  UNCHANGED plist
    BY <2>4 DEF EndOfMinute10, RefuseCommit, RefuseFactoidTX, ledger
  <2> QED BY <2>1, <2>2, <2>3, <2>4 DEF Serve
<1>3. \A item : item.type \notin Reveals => FoundedItem(plist, chainDB, item)
  BY DEF FoundedItem
<1> QED BY <1>1, <1>2, <1>3, CollectGhosts

\* A step that builds an item, or seals a block that is no entry block.
LEMMA WriteGhosts ==
    ASSUME NoGhosts, pc' \in Writing \cup Sealing,
           pc' \in Sealing => idx' > Len(plist'),
           Founded(plist', Pending', chainDB'),
           UNCHANGED <<chainIDMap, eDB>>, chainDB \subseteq chainDB',
           \A c \in Honest \ chainDB' :
               /\ eNext'[c] = eNext[c]
               /\ Expected(plist, Pending, c) => Expected(plist', Pending', c)
    PROVE  NoGhosts'
<1>1. pc' \notin Collecting \cup {"panic"}
  BY DEF Collecting, Writing, Sealing
<1>2. ASSUME NEW c \in Honest \ chainDB'
      PROVE  Vacant(c)' /\ (c \in chainIDMap' => Expected(plist', Pending', c))
  <2>1. Vacant(c) /\ (c \in chainIDMap => Expected(plist, Pending, c))
    BY DEF NoGhosts
  <2>2. eNext'[c] = eNext[c]
    OBVIOUS
  <2>3. Vacant(c)'
    BY <2>1, <2>2 DEF Vacant
  <2> QED BY <2>1, <2>3
<1> QED BY <1>1, <1>2 DEF NoGhosts

LEMMA BuildGhosts ==
    ASSUME TypeInv, Control, Lists, NoGhosts, BuildItem PROVE NoGhosts'
<1>0. /\ plist \in Seq(Items) /\ idx \in Nat \ {0} /\ Len(plist) \in Nat
      /\ DOMAIN plist = 1 .. Len(plist) /\ eNext \in [Chains -> OpenEBlocks]
      /\ Honest \subseteq Chains
  BY DEF TypeInv, TypeOK, Honest
<1> DEFINE d == ChainOf[plist[idx].msg]
<1>1. CASE \/ buildCommit \/ buildIncreaseBalance \/ buildRevealEntry
           \/ buildEndOfMinute
  <2>1. /\ pc = "build" /\ pc' = "build" /\ idx <= Len(plist) /\ idx' = idx + 1
        /\ plist[idx].type \in CommitKinds \cup {"factoidTX", "revealEntry", "EOM"}
        /\ UNCHANGED <<plist, chainDB, chainIDMap, eDB>>
    BY <1>1 DEF buildCommit, buildIncreaseBalance, buildRevealEntry,
       buildEndOfMinute, Building, chains, ledger, disk
  <2>2. idx \in DOMAIN plist /\ plist[idx].type # "revealChain"
    BY <1>0, <2>1 DEF CommitKinds
  <2>3. Pending = idx /\ Pending' = idx + 1
    BY <2>1 DEF Pending
  <2>4. Founded(plist, idx, chainDB)
    BY <2>3 DEF NoGhosts
  <2>5. /\ Founded(plist, idx + 1, chainDB)
        /\ \A c : Expected(plist, idx, c) /\ c \notin chainDB =>
                      Expected(plist, idx + 1, c)
    BY <1>0, <2>2, <2>4, FoundedNext
  <2>6. ASSUME NEW c \in Honest \ chainDB PROVE eNext'[c] = eNext[c]
    <3>1. CASE buildCommit \/ buildIncreaseBalance
      BY <3>1 DEF buildCommit, buildIncreaseBalance, chains
    <3>2. CASE buildRevealEntry
      <4>1. plist[idx].type = "revealEntry"
            /\ \E x : eNext' = [eNext EXCEPT ![d].body = Append(@, x)]
        BY <3>2 DEF buildRevealEntry, Building, AddEBEntry
      <4>2. plist[idx].type \in Reveals /\ idx >= idx
        BY <1>0, <4>1 DEF Reveals
      <4>3. ~\E m \in idx .. (idx - 1) : Creates(plist, m, d)
        BY <1>0
      <4>4. d \in Honest => d \in chainDB
        BY <2>2, <2>4, <4>1, <4>2, <4>3 DEF Founded
      <4> HIDE DEF d
      <4>5. c # d
        BY <4>4
      <4> QED BY <1>0, <4>1, <4>5
    <3>3. CASE buildEndOfMinute
      <4>1. \E x : eNext' = [b \in Chains |->
                IF b \in TouchedChains(idx)
                THEN [eNext[b] EXCEPT !.body = Append(@, x)]
                ELSE eNext[b]]
        BY <3>3 DEF buildEndOfMinute
      <4>2. c \notin TouchedChains(idx)
        <5> SUFFICES ASSUME NEW n \in 1 .. (idx - 1), plist[n].type \in Reveals,
                            ChainOf[plist[n].msg] = c
                     PROVE  FALSE
          BY DEF TouchedChains
        <5>1. n \in DOMAIN plist /\ n < idx
          BY <1>0, <2>1
        <5> QED BY <2>4, <5>1 DEF Founded
      <4> QED BY <1>0, <4>1, <4>2
    <3> QED BY <1>1, <3>1, <3>2, <3>3
  <2> QED BY <2>1, <2>3, <2>5, <2>6, WriteGhosts DEF Writing, Sealing
<1>2. CASE buildRevealChain
  <2>1. /\ pc = "build" /\ pc' = IF EChainIntact(d) THEN "first" ELSE "panic"
        /\ idx <= Len(plist) /\ plist[idx].type = "revealChain"
        /\ chainDB' = chainDB \cup {d}
        /\ eNext' = [eNext EXCEPT ![d] = initEChainFromDB(d)]
        /\ UNCHANGED <<plist, idx, chainIDMap, eDB>>
    BY <1>2 DEF buildRevealChain, Building, ledger
  <2>2. idx \in DOMAIN plist /\ plist[idx].type \in Reveals
    BY <1>0, <2>1 DEF Reveals
  <2>3. Pending = idx
    BY <2>1 DEF Pending
  <2>4. Founded(plist, idx, chainDB)
    BY <2>3 DEF NoGhosts
  <2>5. d \in Honest
    BY <2>1, <2>2, <2>4 DEF Founded
  <2>6. d \notin chainDB
    <3>1. NewChains(plist, idx, chainDB) /\ idx >= idx
      BY <1>0, <2>1, <2>3 DEF Lists
    <3> QED BY <2>1, <2>2, <3>1 DEF NewChains
  <2>7. EChainIntact(d)
    <3>1. \A b \in eDB : b.chain # d
      BY <2>5, <2>6 DEF NoGhosts, Vacant
    <3>2. BlocksOf(d) = {}
      BY <3>1 DEF BlocksOf
    <3>3. Cardinality(BlocksOf(d)) = 0 /\ {b.seq : b \in BlocksOf(d)} = {}
      BY <3>2, FS_EmptySet
    <3>4. {} = 0 .. (0 - 1)
      OBVIOUS
    <3> QED BY <3>3, <3>4 DEF EChainIntact, Consecutive
  <2>8. pc' = "first" /\ Pending' = idx + 1
    BY <2>1, <2>7 DEF Pending
  <2> HIDE DEF d
  <2>9. /\ Founded(plist, idx + 1, chainDB')
        /\ \A c : Expected(plist, idx, c) /\ c \notin chainDB' =>
                      Expected(plist, idx + 1, c)
    <3>1. chainDB \subseteq chainDB' /\ d \in chainDB'
      BY <2>1
    <3>2. plist[idx].type = "revealChain" => ChainOf[plist[idx].msg] \in chainDB'
      BY <3>1 DEF d
    <3> QED BY <1>0, <2>2, <2>4, <3>1, <3>2, FoundedNext
  <2>10. \A c \in Honest \ chainDB' : eNext'[c] = eNext[c]
    BY <1>0, <2>1
  <2> QED BY <2>1, <2>3, <2>8, <2>9, <2>10, WriteGhosts DEF Writing, Sealing
<1>3. CASE buildFirstEntry
  <2>1. /\ pc = "first" /\ pc' = "build" /\ idx' = idx + 1
        /\ plist[idx].type = "revealChain" /\ idx <= Len(plist)
        /\ UNCHANGED <<plist, chainDB, chainIDMap, eDB>>
        /\ \E x : eNext' = [eNext EXCEPT ![d].body = Append(@, x)]
    BY <1>3 DEF buildFirstEntry, AddEBEntry, ledger, Control
  <2>2. idx \in DOMAIN plist /\ plist[idx].type \in Reveals /\ idx < idx + 1
    BY <1>0, <2>1 DEF Reveals
  <2>3. Pending = idx + 1 /\ Pending' = idx + 1
    BY <2>1 DEF Pending
  <2>4. Founded(plist, idx + 1, chainDB)
    BY <2>3 DEF NoGhosts
  <2>5. d \in chainDB
    BY <2>1, <2>2, <2>4 DEF Founded
  <2> HIDE DEF d
  <2>6. \A c \in Honest \ chainDB : eNext'[c] = eNext[c]
    BY <1>0, <2>1, <2>5
  <2> QED BY <2>1, <2>3, <2>4, <2>6, WriteGhosts DEF Writing, Sealing
<1> QED BY <1>1, <1>2, <1>3 DEF BuildItem

LEMMA SealGhosts ==
    ASSUME TypeInv, Clean, NoGhosts, SealBlock PROVE NoGhosts'
<1>0. /\ plist \in Seq(Items) /\ Len(plist) \in Nat /\ idx \in Nat
      /\ eNext \in [Chains -> OpenEBlocks] /\ Honest \subseteq Chains
  BY DEF TypeInv, TypeOK, Honest
<1>1. CASE newEntryCreditBlock \/ newAdminBlock \/ newFactoidBlock
  <2>1. /\ pc \in {"build", "admin", "fct"} /\ idx > Len(plist)
        /\ UNCHANGED <<plist, idx, eNext, chainIDMap, chainDB, eDB>>
    BY <1>1 DEF newEntryCreditBlock, newAdminBlock, newFactoidBlock, ledger,
       chains, NoGhosts, Sealing
  <2>2. pc' \in Sealing
    <3>1. CASE newEntryCreditBlock
      BY <3>1 DEF newEntryCreditBlock, Sealing
    <3>2. CASE newAdminBlock
      BY <3>2 DEF newAdminBlock, Clean, InStep, Ahead, Sealing
    <3>3. CASE newFactoidBlock
      BY <3>3 DEF newFactoidBlock, Clean, InStep, Ahead, Sealing
    <3> QED BY <1>1, <3>1, <3>2, <3>3
  <2>3. Pending' = Pending
    BY <2>1, <2>2 DEF Pending, Sealing
  <2>4. Founded(plist, Pending, chainDB)
    BY DEF NoGhosts
  <2> QED BY <2>1, <2>2, <2>3, <2>4, WriteGhosts
<1>2. ASSUME NEW d \in Chains, newEntryBlock(d) PROVE NoGhosts'
  <2>1. /\ pc = "entry" /\ pc' = "entry" /\ idx > Len(plist)
        /\ UNCHANGED <<plist, idx, chainIDMap, chainDB>>
    BY <1>2 DEF newEntryBlock, VisitChain, ledger, NoGhosts, Sealing
  <2>2. Pending' = Pending
    BY <2>1 DEF Pending
  <2>3. ASSUME NEW c \in Honest \ chainDB PROVE Vacant(c)'
    <3>1. Vacant(c) /\ c \in Chains /\ c # ZeroChain
      BY <1>0, ConstantTypes DEF NoGhosts
    <3>2. CASE eNext[d].body = <<>>
      BY <1>2, <3>1, <3>2 DEF newEntryBlock, Vacant
    <3>3. CASE eNext[d].body # <<>>
      <4>1. c # d
        BY <3>1, <3>3 DEF Vacant
      <4> DEFINE block == [chain |-> IF eNext[d].own THEN d ELSE ZeroChain,
                           seq |-> eNext[d].seq, height |-> nextHeight.d,
                           body |-> eNext[d].body]
      <4>2. /\ eDB' = eDB \cup {block}
            /\ \E x : eNext' = [eNext EXCEPT ![d] = x]
        BY <1>2, <3>3 DEF newEntryBlock, StoreEntryBlock
      <4>3. block.chain # c
        BY <3>1, <4>1
      <4> HIDE DEF block
      <4>4. eNext'[c] = eNext[c]
        BY <1>0, <3>1, <4>1, <4>2
      <4> QED BY <3>1, <4>2, <4>3, <4>4 DEF Vacant
    <3> QED BY <3>2, <3>3
  <2> QED BY <2>1, <2>2, <2>3 DEF NoGhosts, Collecting
<1>3. CASE newDirectoryBlock
  <2>1. /\ pc = "entry" /\ pc' = "serve" /\ idx' = 1 /\ plist' = <<>>
        /\ idx > Len(plist) /\ UNCHANGED <<eNext, chainIDMap, chainDB, eDB>>
    BY <1>3 DEF newDirectoryBlock, chains, NoGhosts, Sealing
  <2>2. Pending = idx
    BY <2>1 DEF Pending
  <2>3. ASSUME NEW c \in Honest \ chainDB PROVE Vacant(c)' /\ c \notin chainIDMap'
    <3>1. Vacant(c) /\ (c \in chainIDMap => Expected(plist, idx, c))
      BY <2>2 DEF NoGhosts
    <3>2. ~Expected(plist, idx, c)
      <4> SUFFICES ASSUME NEW n \in DOMAIN plist, n >= idx PROVE FALSE
        BY DEF Expected
      <4> QED BY <1>0, <2>1
    <3> QED BY <2>1, <3>1, <3>2 DEF Vacant
  <2> QED BY <2>1, <2>3, EmptyFounded DEF NoGhosts, Sealing
<1> QED BY <1>1, <1>2, <1>3 DEF SealBlock

LEMMA RestartGhosts ==
    ASSUME CleanCrashes, TypeInv, Directory, Clean, ChainInv, NoGhosts,
           initProcessor
    PROVE  NoGhosts'
<1>1. StartupSucceeds
  BY StartSucceeds DEF initProcessor, CleanCrashes
<1>2. /\ pc' = "serve" /\ idx' = 1 /\ plist' = <<>> /\ chainIDMap' = chainDB
      /\ eNext' = [c \in Chains |-> IF c \in chainDB THEN initEChainFromDB(c)
                                                     ELSE NewEBlock]
      /\ UNCHANGED <<chainDB, eDB>>
  BY <1>1 DEF initProcessor, initEChains, disk
<1>3. ASSUME NEW c \in Honest \ chainDB PROVE Vacant(c)'
  <2>1. eNext'[c] = NewEBlock
    BY <1>2 DEF Honest
  <2>2. \A b \in eDB : b.chain # c
    BY DEF NoGhosts, Vacant
  <2> QED BY <1>2, <2>1, <2>2 DEF Vacant, NewEBlock
<1> QED BY <1>2, <1>3, EmptyFounded DEF NoGhosts, Sealing

LEMMA GhostStep ==
    ASSUME CleanCrashes, CommitsAgree, TypeInv, Control, Directory, Clean,
           Lists, ChainInv, NoGhosts, [Next]_vars
    PROVE  NoGhosts'
<1>1. CASE \E e \in Entries : processRevealEntry(e) \/ processFromOrphanPool(e)
  BY <1>1, RevealGhosts
<1>2. CASE \/ Serve /\ ~\E e \in Entries : processRevealEntry(e)
           \/ EndOfMinute \/ EndOfMinute10 \/ EndProcessList
  BY <1>2, MessageGhosts
<1>3. CASE BuildItem
  BY <1>3, BuildGhosts
<1>4. CASE SealBlock
  BY <1>4, SealGhosts
<1>5. CASE initProcessor
  BY <1>5, RestartGhosts
<1>6. CASE UNCHANGED vars
  BY <1>6 DEF vars, ledger, chains, disk, NoGhosts, Vacant, Pending
<1> QED BY <1>1, <1>2, <1>3, <1>4, <1>5, <1>6, NextGroups

\* If the process dies only between two block buildings, and no chain has both
\* a chain commit whose reveal is refused and one whose reveal can be accepted,
\* the process never panics: every start succeeds on the blocks it finds, and
\* so do the checks of newAdminBlock, newFactoidBlock and buildRevealChain.
THEOREM NoPanic ==
    ASSUME CleanCrashes, CommitsAgree PROVE Spec => []StartupNeverPanics
<1> DEFINE Inv == ChainsInv /\ NoGhosts
<1>1. Init => Inv
  BY InitType, InitControl, InitLedger, InitDirectory, InitClean, InitLists,
     InitChains, InitGhosts DEF IInv, BlocksInv, ChainsInv
<1>2. Inv /\ [Next]_vars => Inv'
  BY CleanCrashes, CommitsAgree, TypeStep, ControlStep, LedgerStep,
     DirectoryStep, CleanStep, ListsStep, ChainStep, GhostStep
     DEF IInv, BlocksInv, ChainsInv
<1>3. Inv => StartupNeverPanics
  BY DEF NoGhosts, StartupNeverPanics
<1> QED BY <1>1, <1>2, <1>3, PTL DEF Spec

=============================================================================
