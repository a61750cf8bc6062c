--------------------------- MODULE ProcessorProofs ---------------------------
(***************************************************************************)
(* Proofs about Processor, for every instance of its constants: all sets   *)
(* of keys, chains and messages, all limits, any number of periods and of  *)
(* crashes at any program point: the types and the ledger, then what a     *)
(* directory block lists and the minute of every entry, and, when the      *)
(* process dies outside of the block building, that every stored block is  *)
(* listed.                                                                 *)
(***************************************************************************)
EXTENDS Processor, TLAPS, FiniteSetTheorems

----------------------------------------------------------------------------
\* Operators

\* A balance plus a change of balances is a balance.
LEMMA ApplyType ==
    \A b, d \in Balances : Apply(b, d) \in Balances
BY DEF Apply, Balances

LEMMA ZeroType == Zero \in Balances
BY DEF Zero, Balances

\* A commit's charge is a change of balances.
LEMMA ChargeType == \A c \in Commits : Charge(c) \in Balances
BY ConstantTypes DEF Charge, Balances

\* A purchase converted at a positive rate is a change of balances, and takes
\* credits from nobody.
LEMMA PurchaseType ==
    \A t \in Txs, r \in Nat \ {0} :
        /\ Purchase(t, r) \in Balances
        /\ \A k \in Keys : Purchase(t, r)[k] >= 0
<1> SUFFICES ASSUME NEW t \in Txs, NEW r \in Nat \ {0}
             PROVE  \A k \in Keys : /\ ECOutputs[t][k] \div r \in Int
                                    /\ ECOutputs[t][k] \div r >= 0
  BY DEF Purchase, Balances
<1>1. \A n \in Nat : n \div r \in Nat
  OBVIOUS
<1> QED BY <1>1, ConstantTypes

\* The database holds finitely many entry blocks.
FiniteDB == IsFiniteSet(eDB)

\* An open block read from the database is an open block.
LEMMA OpenBlockType ==
    ASSUME FiniteDB
    PROVE  \A c \in Chains : initEChainFromDB(c) \in
               OpenEBlocks
<1> TAKE c \in Chains
<1>1. IsFiniteSet(BlocksOf(c))
  BY FS_Subset DEF FiniteDB, BlocksOf
<1>2. Cardinality(BlocksOf(c)) \in Nat
  BY <1>1, FS_CardinalityType
<1> QED BY <1>2 DEF initEChainFromDB, OpenEBlocks

----------------------------------------------------------------------------
\* Type correctness.  TypeOK alone is not inductive: a chain read from the
\* database needs to be finite to have a sequence number.

TypeInv == TypeOK /\ FiniteDB

LEMMA ECEntryType ==
    ASSUME NEW type \in CommitKinds \cup {"factoidTX", "minute", "serverIndex"},
           NEW msg \in Messages, NEW delta \in Balances,
           NEW at \in 0 .. LastMinute
    PROVE  ECEntry(type, msg, delta, at) \in ECEntries
BY DEF ECEntry, ECEntries

LEMMA ServerIndexType == ServerIndex \in ECEntries
<1>1. 0 \in 0 .. LastMinute
  BY ConstantTypes
<1> QED BY <1>1, ZeroType, ECEntryType DEF ServerIndex, Messages

LEMMA InitType == Init => TypeInv
<1> SUFFICES ASSUME Init PROVE TypeInv
  OBVIOUS
<1> USE DEF Init
<1>1. GenesisECEntries \in Seq(ECEntries)
  <2> DEFINE minutes == [m \in Minutes |-> ECEntry("minute", None, Zero, m)]
  <2>1. \A m \in Minutes : ECEntry("minute", None, Zero, m) \in ECEntries
    BY ZeroType, ConstantTypes DEF ECEntry, ECEntries, Minutes, Messages
  <2>2. minutes \in Seq(ECEntries)
    BY <2>1, ConstantTypes DEF Minutes
  <2>3. <<ServerIndex>> \in Seq(ECEntries)
    BY ServerIndexType
  <2> QED BY <2>2, <2>3 DEF GenesisECEntries
<1>2. GenesisEC \in ECBlocks
  BY <1>1 DEF GenesisEC, ECBlocks
<1>3. GenesisA \in ABlocks
  BY DEF GenesisA, ABlocks
<1>4. GenesisF \in FBlocks
  BY ConstantTypes DEF GenesisF, FBlocks
<1>5. /\ pc \in Running \cup {"panic"} /\ todo \subseteq Entries \cup Chains
      /\ idx \in Nat \ {0} /\ chainIDMap \subseteq Chains
      /\ orphans \subseteq Entries /\ plist \in Seq(Items)
      /\ seen \subseteq Commits \cup Txs /\ rate \in Nat \ {0}
      /\ minute \in Minutes /\ nextHeight \in Heights
      /\ chainDB \subseteq Chains /\ entryDB \subseteq Entries
      /\ boots \in Nat /\ eDB \subseteq EBlocks
  BY ConstantTypes DEF Running, Heights
<1>12. ecLost \in BOOLEAN
  OBVIOUS
<1>6. /\ eCreditMap \in Balances /\ dbCredit \in Balances
      /\ ecCredit \in Balances
  BY ZeroType
<1>7. /\ commitEntryMap \in [Entries -> Commits \cup {None}]
      /\ commitChainMap \in [Entries -> Commits \cup {None}]
      /\ eNext \in [Chains -> OpenEBlocks]
  BY DEF NewEBlock, OpenEBlocks
<1>8. ecNext \in Seq(ECEntries) /\ aNext \in Seq(0 .. LastMinute)
  BY ServerIndexType, ConstantTypes DEF DBSignature
<1>9. dNext \in OpenDBlocks
  BY DEF EmptyDBlock, OpenDBlocks
<1>10. /\ ecDB \subseteq ECBlocks /\ aDB \subseteq ABlocks /\ fDB \subseteq FBlocks
       /\ dDB \in Seq(DBlocks)
  BY <1>2, <1>3, <1>4 DEF DBlocks
<1>11. FiniteDB
  BY FS_EmptySet DEF FiniteDB
<1> QED BY <1>5, <1>6, <1>7, <1>8, <1>9, <1>10, <1>11, <1>12 DEF TypeInv, TypeOK

\* What reveals and commits do to the process list and the maps.
LEMMA CommitType ==
    ASSUME TypeInv, NEW c \in Commits, ChargeCommit(c)
    PROVE  eCreditMap' \in Balances /\ plist' \in Seq(Items)
<1>1. eCreditMap' \in Balances
  BY ApplyType, ChargeType DEF TypeInv, TypeOK, ChargeCommit
<1>2. Item(CommitMsg[c].kind, c, None, 0, eCreditMap') \in Items
  BY <1>1, ConstantTypes DEF Item, Items
<1> QED BY <1>1, <1>2 DEF ChargeCommit, ListMessage, AddMyProcessListItem, TypeInv, TypeOK

LEMMA AddChainType ==
    ASSUME TypeInv, NEW c \in Chains, AddChain(c)
    PROVE  /\ chainIDMap' \subseteq Chains
           /\ eNext' \in [Chains -> OpenEBlocks]
<1>1. NewEBlock \in OpenEBlocks
  BY DEF NewEBlock, OpenEBlocks
<1> QED BY <1>1 DEF AddChain, TypeInv, TypeOK

LEMMA AcceptEntryType ==
    ASSUME TypeInv, NEW e \in Entries, AcceptEntry(e)
    PROVE  /\ plist' \in Seq(Items)
           /\ commitEntryMap' \in [Entries -> Commits \cup {None}]
           /\ UNCHANGED <<commitChainMap, chainIDMap, eNext>>
<1>1. Item("revealEntry", e, commitEntryMap[e], minute, eCreditMap) \in Items
  BY DEF AcceptEntry, AcceptsEntry, HasEntryCommit, Item, Items, Reveals,
     TypeInv, TypeOK
<1> QED BY <1>1 DEF AcceptEntry, ListMessage, AddMyProcessListItem, chains, TypeInv, TypeOK

LEMMA AcceptChainType ==
    ASSUME TypeInv, NEW e \in Entries, AcceptChain(e)
    PROVE  /\ plist' \in Seq(Items)
           /\ commitChainMap' \in [Entries -> Commits \cup {None}]
           /\ chainIDMap' \subseteq Chains
           /\ eNext' \in [Chains -> OpenEBlocks]
           /\ UNCHANGED commitEntryMap
<1>1. Item("revealChain", e, commitChainMap[e], minute, eCreditMap) \in Items
  BY DEF AcceptChain, AcceptsChain, HasChainCommit, Item, Items, Reveals,
     TypeInv, TypeOK
<1>2. ChainOf[e] \in Chains
  BY ConstantTypes
<1>3. AddChain(ChainOf[e])
  BY DEF AcceptChain
<1> QED BY <1>1, <1>2, <1>3, AddChainType
        DEF AcceptChain, ListMessage, AddMyProcessListItem, TypeInv, TypeOK

LEMMA RegisterOnlyType ==
    ASSUME TypeInv, NEW e \in Entries, RegisterOnly(e)
    PROVE  /\ chainIDMap' \subseteq Chains
           /\ eNext' \in [Chains -> OpenEBlocks]
           /\ UNCHANGED <<plist, commitEntryMap, commitChainMap>>
<1>1. ChainOf[e] \in Chains
  BY ConstantTypes
<1> QED BY <1>1, AddChainType DEF RegisterOnly

\* Every reveal outcome, in or out of the orphan loop, keeps these types.
RevealTypes ==
    /\ plist \in Seq(Items)
    /\ commitEntryMap \in [Entries -> Commits \cup {None}]
    /\ commitChainMap \in [Entries -> Commits \cup {None}]
    /\ chainIDMap \subseteq Chains
    /\ eNext \in [Chains -> OpenEBlocks]
    /\ orphans \subseteq Entries

LEMMA ServeType ==
    ASSUME TypeInv, Serve PROVE TypeInv'
<1>1. ASSUME NEW c \in Commits, processCommitEntry(c) PROVE TypeInv'
  <2>1. eCreditMap' \in Balances /\ plist' \in Seq(Items)
    BY <1>1, CommitType DEF processCommitEntry
  <2>2. commitEntryMap' \in [Entries -> Commits \cup {None}]
    BY <1>1 DEF processCommitEntry, TypeInv, TypeOK
  <2>3. seen' \subseteq Commits \cup Txs
    BY <1>1 DEF processCommitEntry, IsTSValid, TypeInv, TypeOK
  <2> QED BY <1>1, <2>1, <2>2, <2>3 DEF processCommitEntry, TypeInv, TypeOK,
             FiniteDB, chains, open, disk, credit
<1>2. ASSUME NEW c \in Commits, processCommitChain(c) PROVE TypeInv'
  <2>1. eCreditMap' \in Balances /\ plist' \in Seq(Items)
    BY <1>2, CommitType DEF processCommitChain
  <2>2. commitChainMap' \in [Entries -> Commits \cup {None}]
    BY <1>2 DEF processCommitChain, TypeInv, TypeOK
  <2>3. seen' \subseteq Commits \cup Txs
    BY <1>2 DEF processCommitChain, IsTSValid, TypeInv, TypeOK
  <2> QED BY <1>2, <2>1, <2>2, <2>3 DEF processCommitChain, TypeInv, TypeOK,
             FiniteDB, chains, open, disk, credit
<1>3. ASSUME NEW c \in Commits, RefuseCommit(c) PROVE TypeInv'
  <2>1. seen' \subseteq Commits \cup Txs
    BY <1>3 DEF RefuseCommit, IsTSValid, TypeInv, TypeOK
  <2> QED BY <1>3, <2>1 DEF RefuseCommit, TypeInv, TypeOK, FiniteDB, chains,
             ledger, open, disk, credit
<1>4. ASSUME NEW t \in Txs, processBuyEntryCredit(t) PROVE TypeInv'
  <2>1. eCreditMap' \in Balances
    BY <1>4, ApplyType, PurchaseType
       DEF processBuyEntryCredit, TypeInv, TypeOK
  <2>2. Item("factoidTX", t, None, 0, eCreditMap') \in Items
    BY <2>1, ConstantTypes DEF Item, Items
  <2>3. plist' \in Seq(Items)
    BY <1>4, <2>2 DEF processBuyEntryCredit, ListMessage, AddMyProcessListItem, TypeInv,
       TypeOK
  <2>4. seen' \subseteq Commits \cup Txs
    BY <1>4 DEF processBuyEntryCredit, IsTSValid, TypeInv, TypeOK
  <2> QED BY <1>4, <2>1, <2>3, <2>4 DEF processBuyEntryCredit, TypeInv, TypeOK,
             FiniteDB, chains, open, disk, credit
<1>5. ASSUME NEW t \in Txs, RefuseFactoidTX(t) PROVE TypeInv'
  <2>1. seen' \subseteq Commits \cup Txs
    BY <1>5 DEF RefuseFactoidTX, IsTSValid, TypeInv, TypeOK
  <2> QED BY <1>5, <2>1 DEF RefuseFactoidTX, TypeInv, TypeOK, FiniteDB, chains,
             ledger, open, disk, credit
<1>6. ASSUME NEW e \in Entries, processRevealEntry(e) PROVE TypeInv'
  <2>1. OrphansWith(e) \subseteq Entries
    BY DEF OrphansWith, TypeInv, TypeOK
  <2>2. RevealTypes'
    BY <1>6, <2>1, AcceptEntryType, AcceptChainType, RegisterOnlyType
       DEF processRevealEntry, RevealTypes, chains, TypeInv, TypeOK
  <2> QED BY <1>6, <2>2 DEF processRevealEntry, RevealTypes, TypeInv, TypeOK,
             FiniteDB, open, disk, credit
<1> QED BY <1>1, <1>2, <1>3, <1>4, <1>5, <1>6 DEF Serve

LEMMA EndOfMinuteType ==
    ASSUME TypeInv, EndOfMinute \/ EndOfMinute10 \/ EndProcessList
    PROVE  TypeInv'
<1>1. ASSUME NEW m \in Minutes
      PROVE  Append(plist, Item("EOM", None, None, m, eCreditMap)) \in Seq(Items)
  <2>1. Item("EOM", None, None, m, eCreditMap) \in Items
    BY <1>1 DEF Item, Items, TypeInv, TypeOK
  <2> QED BY <2>1 DEF TypeInv, TypeOK
<1>2. CASE EndOfMinute
  <2>1. plist' \in Seq(Items)
    BY <1>1, <1>2 DEF EndOfMinute, AddMyProcessListItem, TypeInv, TypeOK
  <2>2. minute' \in Minutes
    BY <1>2, ConstantTypes DEF EndOfMinute, Minutes, TypeInv, TypeOK
  <2> QED BY <1>2, <2>1, <2>2 DEF EndOfMinute, TypeInv, TypeOK, FiniteDB,
             pools, chains, open, disk, credit
<1>3. CASE EndOfMinute10
  BY <1>3 DEF EndOfMinute10, TypeInv, TypeOK, FiniteDB, Running, pools,
     chains, ledger, open, disk, credit
<1>4. CASE EndProcessList
  <2>1. LastMinute \in Minutes
    BY ConstantTypes DEF Minutes
  <2>2. plist' \in Seq(Items)
    BY <1>1, <1>4, <2>1 DEF EndProcessList, AddMyProcessListItem
  <2> QED BY <1>4, <2>2 DEF EndProcessList, TypeInv, TypeOK, FiniteDB,
             Running, pools, chains, open, disk, credit
<1> QED BY <1>2, <1>3, <1>4

LEMMA OrphanPoolType ==
    ASSUME TypeInv, NEW e \in Entries, processFromOrphanPool(e)
    PROVE  TypeInv'
<1>1. RevealTypes'
  BY AcceptEntryType, AcceptChainType, RegisterOnlyType
     DEF processFromOrphanPool, RevealTypes, chains, TypeInv, TypeOK
<1> QED BY <1>1 DEF processFromOrphanPool, RevealTypes, TypeInv, TypeOK,
           FiniteDB, open, disk, credit

\* Of an item being built, the message has the type its kind calls for.
LEMMA BuiltItem ==
    ASSUME TypeInv, pc \in {"build", "first"}, idx <= Len(plist)
    PROVE  LET item == plist[idx] IN
           /\ item.type \in CommitKinds => item.msg \in Commits
           /\ item.type = "factoidTX" => item.msg \in Txs
           /\ item.type \in Reveals =>
                  /\ item.msg \in Entries
                  /\ EBEntry(item.msg, item.by, item.at) \in EBEntries
           /\ item.type = "EOM" => item.at \in Minutes
<1>1. plist[idx] \in Items
  BY DEF TypeInv, TypeOK
<1> QED BY <1>1 DEF Items, CommitKinds, Reveals, EBEntry, EBEntries

LEMMA AddECEntryType ==
    ASSUME TypeInv, NEW entry \in ECEntries, AddECEntry(entry)
    PROVE  ecNext' \in Seq(ECEntries) /\ ecCredit' \in Balances
<1>1. entry.delta \in Balances
  BY DEF ECEntries
<1> QED BY <1>1, ApplyType DEF AddECEntry, TypeInv, TypeOK

LEMMA AddEBEntryType ==
    ASSUME TypeInv, NEW c \in Chains, NEW entry \in EBEntries,
           AddEBEntry(c, entry)
    PROVE  eNext' \in [Chains -> OpenEBlocks]
<1>1. \A b \in OpenEBlocks :
         [b EXCEPT !.body = Append(@, entry)] \in OpenEBlocks
  BY DEF OpenEBlocks
<1>2. eNext' = [eNext EXCEPT ![c] =
                   [eNext[c] EXCEPT !.body = Append(@, entry)]]
  BY DEF AddEBEntry, TypeInv, TypeOK
<1> QED BY <1>1, <1>2 DEF TypeInv, TypeOK

LEMMA BuildType ==
    ASSUME TypeInv, pc = "first" => idx <= Len(plist)
                                    /\ plist[idx].type = "revealChain",
           \/ buildCommit \/ buildIncreaseBalance \/ buildRevealEntry
           \/ buildRevealChain \/ buildFirstEntry \/ buildEndOfMinute
    PROVE  TypeInv'
<1>1. 0 \in 0 .. LastMinute /\ Minutes \subseteq 0 .. LastMinute
  BY ConstantTypes DEF Minutes
<1>2. idx + 1 \in Nat \ {0}
  BY DEF TypeInv, TypeOK
<1>3. CASE buildCommit
  <2> DEFINE entry == ECEntry(plist[idx].type, plist[idx].msg,
                              Charge(plist[idx].msg), 0)
  <2>1. entry \in ECEntries
    BY <1>1, <1>3, BuiltItem, ChargeType
       DEF buildCommit, Building, ECEntry, ECEntries, Messages
  <2>2. ecNext' \in Seq(ECEntries) /\ ecCredit' \in Balances
    BY <1>3, <2>1, AddECEntryType DEF buildCommit
  <2> QED BY <1>2, <1>3, <2>2 DEF buildCommit, TypeInv, TypeOK, FiniteDB,
             pools, chains, ledger, disk
<1>4. CASE buildIncreaseBalance
  <2> DEFINE entry == ECEntry(plist[idx].type, plist[idx].msg,
                              Purchase(plist[idx].msg, rate), 0)
  <2>0. plist[idx].msg \in Txs /\ plist[idx].type = "factoidTX"
    BY <1>4, BuiltItem DEF buildIncreaseBalance, Building
  <2>3. Purchase(plist[idx].msg, rate) \in Balances
    BY <2>0, PurchaseType DEF TypeInv, TypeOK
  <2>1. entry \in ECEntries
    BY <1>1, <2>0, <2>3 DEF ECEntry, ECEntries, Messages
  <2>2. ecNext' \in Seq(ECEntries) /\ ecCredit' \in Balances
    BY <1>4, <2>1, AddECEntryType DEF buildIncreaseBalance
  <2> QED BY <1>2, <1>4, <2>2 DEF buildIncreaseBalance, TypeInv, TypeOK,
             FiniteDB, pools, chains, ledger, disk
<1>5. CASE buildRevealEntry
  <2>1. /\ plist[idx].msg \in Entries /\ ChainOf[plist[idx].msg] \in Chains
        /\ EBEntry(plist[idx].msg, plist[idx].by, plist[idx].at) \in EBEntries
    BY <1>5, BuiltItem, ConstantTypes DEF buildRevealEntry, Building, Reveals
  <2>2. eNext' \in [Chains -> OpenEBlocks]
    BY <1>5, <2>1, AddEBEntryType DEF buildRevealEntry
  <2>3. entryDB' \subseteq Entries
    BY <1>5, <2>1 DEF buildRevealEntry, TypeInv, TypeOK
  <2> QED BY <1>2, <1>5, <2>2, <2>3 DEF buildRevealEntry, TypeInv, TypeOK,
             FiniteDB, pools, ledger, open, credit
<1>6. CASE buildRevealChain
  <2>1. plist[idx].msg \in Entries /\ ChainOf[plist[idx].msg] \in Chains
    BY <1>6, BuiltItem, ConstantTypes DEF buildRevealChain, Building, Reveals
  <2>2. eNext' \in [Chains -> OpenEBlocks]
    BY <1>6, <2>1, OpenBlockType DEF buildRevealChain, TypeInv, TypeOK
  <2>3. chainDB' \subseteq Chains /\ pc' \in Running \cup {"panic"}
    BY <1>6, <2>1 DEF buildRevealChain, Running, TypeInv, TypeOK
  <2> QED BY <1>6, <2>2, <2>3 DEF buildRevealChain, TypeInv, TypeOK,
             FiniteDB, pools, ledger, open, credit
<1>7. CASE buildFirstEntry
  <2>1. /\ plist[idx].msg \in Entries /\ ChainOf[plist[idx].msg] \in Chains
        /\ EBEntry(plist[idx].msg, plist[idx].by, plist[idx].at) \in EBEntries
    BY <1>7, BuiltItem, ConstantTypes DEF buildFirstEntry, Reveals
  <2>2. eNext' \in [Chains -> OpenEBlocks]
    BY <1>7, <2>1, AddEBEntryType DEF buildFirstEntry
  <2>3. entryDB' \subseteq Entries /\ pc' \in Running \cup {"panic"}
    BY <1>7, <2>1 DEF buildFirstEntry, Running, TypeInv, TypeOK
  <2> QED BY <1>2, <1>7, <2>2, <2>3 DEF buildFirstEntry, TypeInv, TypeOK,
             FiniteDB, pools, ledger, open, credit
<1>8. CASE buildEndOfMinute
  <2> DEFINE m == plist[idx].at
  <2>1. m \in Minutes /\ m \in 0 .. LastMinute
    BY <1>1, <1>8, BuiltItem DEF buildEndOfMinute, Building
  <2>2. ECEntry("minute", None, Zero, m) \in ECEntries
    BY <2>1, ZeroType DEF ECEntry, ECEntries, Messages
  <2>3. ecNext' \in Seq(ECEntries) /\ ecCredit' \in Balances
    BY <1>8, <2>2, AddECEntryType DEF buildEndOfMinute
  <2>4. EBEntry(None, None, m) \in EBEntries
    BY <2>1 DEF EBEntry, EBEntries
  <2>5. \A b \in OpenEBlocks :
           [b EXCEPT !.body = Append(@, EBEntry(None, None, m))] \in OpenEBlocks
    BY <2>4 DEF OpenEBlocks
  <2>6. eNext' \in [Chains -> OpenEBlocks]
    BY <1>8, <2>5 DEF buildEndOfMinute, TypeInv, TypeOK
  <2>7. aNext' \in Seq(0 .. LastMinute)
    <3>1. aNext \in Seq(0 .. LastMinute)
      BY DEF TypeInv, TypeOK
    <3>2. Append(aNext, m) \in Seq(0 .. LastMinute)
      BY <2>1, <3>1
    <3>3. aNext' \in {aNext, Append(aNext, m)}
      BY <1>8 DEF buildEndOfMinute
    <3> QED BY <3>1, <3>2, <3>3
  <2> QED BY <1>2, <1>8, <2>3, <2>6, <2>7 DEF buildEndOfMinute, TypeInv,
             TypeOK, FiniteDB, pools, ledger, disk
<1> QED BY <1>3, <1>4, <1>5, <1>6, <1>7, <1>8

LEMMA OpenDBlockType ==
    \A d \in OpenDBlocks :
        /\ \A b \in ECBlocks : [d EXCEPT !.ec = b] \in OpenDBlocks
        /\ \A b \in ABlocks : [d EXCEPT !.a = b] \in OpenDBlocks
        /\ \A b \in FBlocks : [d EXCEPT !.f = b] \in OpenDBlocks
        /\ \A b \in EBlocks : [d EXCEPT !.e = Append(@, b)] \in OpenDBlocks
BY DEF OpenDBlocks

LEMMA HeightsType ==
    \A h \in Heights :
        /\ [h EXCEPT !.ec = @ + 1] \in Heights
        /\ [h EXCEPT !.a = @ + 1] \in Heights
        /\ [h EXCEPT !.f = @ + 1] \in Heights
        /\ [h EXCEPT !.d = @ + 1] \in Heights
        /\ h.d \in Nat /\ h.ec \in Nat /\ h.a \in Nat /\ h.f \in Nat
BY DEF Heights

\* The open directory block that is stored has all its fixed entries.
LEMMA SealType ==
    ASSUME TypeInv,
           \/ newEntryCreditBlock \/ newAdminBlock \/ newFactoidBlock
           \/ newDirectoryBlock \/ \E c \in Chains : newEntryBlock(c),
           newDirectoryBlock => dNext \in DBlocks
    PROVE  TypeInv'
<1>1. CASE newEntryCreditBlock
  <2> DEFINE block == [height |-> nextHeight.ec, entries |-> ecNext]
  <2>1. block \in ECBlocks
    BY DEF ECBlocks, Heights, TypeInv, TypeOK
  <2>2. ecDB' \subseteq ECBlocks /\ dNext' \in OpenDBlocks
    BY <1>1, <2>1, OpenDBlockType DEF newEntryCreditBlock, TypeInv, TypeOK
  <2>3. dbCredit' \in Balances /\ ecCredit' \in Balances
    BY <1>1 DEF newEntryCreditBlock, TypeInv, TypeOK
  <2>4. ecNext' \in Seq(ECEntries)
    BY <1>1, ServerIndexType DEF newEntryCreditBlock
  <2>5. nextHeight' \in Heights /\ pc' \in Running \cup {"panic"}
    BY <1>1, HeightsType DEF newEntryCreditBlock, Running, Sealing, TypeInv, TypeOK
  <2>6. ecLost' \in BOOLEAN
    BY <1>1 DEF newEntryCreditBlock
  <2> QED BY <1>1, <2>2, <2>3, <2>4, <2>5, <2>6
          DEF newEntryCreditBlock, TypeInv, TypeOK, FiniteDB, pools, chains,
              ledger
<1>2. CASE newAdminBlock
  <2> DEFINE block == [height |-> nextHeight.a, entries |-> aNext]
  <2>1. block \in ABlocks
    BY DEF ABlocks, Heights, TypeInv, TypeOK
  <2>2. /\ aDB' \subseteq ABlocks /\ dNext' \in OpenDBlocks
        /\ aNext' \in Seq(0 .. LastMinute)
    <3>1. /\ [dNext EXCEPT !.a = block] \in OpenDBlocks
          /\ aDB \subseteq ABlocks /\ dNext \in OpenDBlocks
          /\ aNext \in Seq(0 .. LastMinute)
      BY <2>1, OpenDBlockType DEF TypeInv, TypeOK
    <3>2. aNext' \in {aNext, <<>>}
      BY <1>2 DEF newAdminBlock
    <3>3. aNext' \in Seq(0 .. LastMinute)
      <4>1. <<>> \in Seq(0 .. LastMinute)
        OBVIOUS
      <4> QED BY <3>1, <3>2, <4>1, Zenon
    <3>4. /\ aDB' \in {aDB, aDB \cup {block}}
          /\ dNext' \in {dNext, [dNext EXCEPT !.a = block]}
      BY <1>2 DEF newAdminBlock
    <3> QED BY <2>1, <3>1, <3>3, <3>4
  <2>3. nextHeight' \in Heights /\ pc' \in Running \cup {"panic"}
    BY <1>2, HeightsType DEF newAdminBlock, Running, Sealing, TypeInv, TypeOK
  <2> QED BY <1>2, <2>2, <2>3 DEF newAdminBlock, TypeInv, TypeOK, FiniteDB,
             pools, chains, ledger, credit
<1>3. CASE newFactoidBlock
  <2> DEFINE block == [height |-> nextHeight.f, rate |-> rate, boot |-> boots]
  <2>1. block \in FBlocks
    BY DEF FBlocks, Heights, TypeInv, TypeOK
  <2>2. fDB' \subseteq FBlocks /\ dNext' \in OpenDBlocks
    BY <1>3, <2>1, OpenDBlockType DEF newFactoidBlock, TypeInv, TypeOK
  <2>3. /\ nextHeight' \in Heights /\ pc' \in Running \cup {"panic"}
        /\ todo' \subseteq Entries \cup Chains
    BY <1>3, HeightsType DEF newFactoidBlock, Running, Sealing, TypeInv, TypeOK
  <2>4. rate' \in Nat \ {0}
    BY <1>3, ConstantTypes DEF newFactoidBlock
  <2> QED BY <1>3, <2>2, <2>3, <2>4 DEF newFactoidBlock, TypeInv, TypeOK,
             FiniteDB, pools, chains, ledger, credit
<1>4. CASE newDirectoryBlock
  <2>1. dDB' \in Seq(DBlocks)
    BY <1>4 DEF newDirectoryBlock, TypeInv, TypeOK
  <2>2. dNext' \in OpenDBlocks
    BY <1>4 DEF newDirectoryBlock, EmptyDBlock, OpenDBlocks
  <2>3. nextHeight' \in Heights /\ pc' \in Running \cup {"panic"}
    BY <1>4, HeightsType DEF newDirectoryBlock, Running, TypeInv, TypeOK
  <2>4. aNext' \in Seq(0 .. LastMinute)
    <3>1. DBSignature \in 0 .. LastMinute
      BY ConstantTypes DEF DBSignature
    <3> QED BY <1>4, <3>1 DEF newDirectoryBlock, TypeInv, TypeOK
  <2>5. plist' \in Seq(Items) /\ idx' \in Nat \ {0} /\ minute' \in Minutes
    BY <1>4 DEF newDirectoryBlock
  <2> QED BY <1>4, <2>1, <2>2, <2>3, <2>4, <2>5 DEF newDirectoryBlock, TypeInv,
             TypeOK, FiniteDB, pools, chains, credit
<1>5. ASSUME NEW c \in Chains, newEntryBlock(c) PROVE TypeInv'
  <2> DEFINE block == [chain |-> IF eNext[c].own THEN c ELSE ZeroChain,
                       seq |-> eNext[c].seq, height |-> nextHeight.d,
                       body |-> eNext[c].body]
  <2>0. /\ eNext[c].seq \in Nat /\ eNext[c].body \in Seq(EBEntries)
        /\ nextHeight.d \in Nat
    BY DEF TypeInv, TypeOK, OpenEBlocks, Heights
  <2>1. block \in EBlocks
    BY <2>0 DEF EBlocks
  <2>2. CASE eNext[c].body = <<>>
    BY <1>5, <2>2 DEF newEntryBlock, VisitChain, TypeInv, TypeOK, FiniteDB,
       pools, ledger, credit
  <2>3. CASE eNext[c].body # <<>>
    <3>1. StoreEntryBlock(c, nextHeight.d, eNext[c].seq + 1)
      BY <1>5, <2>3 DEF newEntryBlock
    <3>2. eDB' = eDB \cup {block}
      BY <3>1 DEF StoreEntryBlock
    <3>3. FiniteDB'
      BY <3>2, FS_AddElement DEF TypeInv, FiniteDB
    <3>4. dNext' \in OpenDBlocks
      BY <2>1, <3>1, OpenDBlockType DEF StoreEntryBlock, TypeInv, TypeOK
    <3>5. eNext' \in [Chains -> OpenEBlocks]
      <4>1. [own |-> TRUE, seq |-> eNext[c].seq + 1, body |-> <<>>] \in OpenEBlocks
        BY <2>0 DEF OpenEBlocks
      <4> QED BY <3>1, <4>1 DEF StoreEntryBlock, TypeInv, TypeOK
    <3>6. eDB' \subseteq EBlocks
      BY <2>1, <3>2 DEF TypeInv, TypeOK
    <3> QED BY <1>5, <3>3, <3>4, <3>5, <3>6 DEF newEntryBlock, VisitChain,
               TypeInv, TypeOK, pools, ledger, credit
  <2> QED BY <2>2, <2>3
<1> QED BY <1>1, <1>2, <1>3, <1>4, <1>5

LEMMA RestartType ==
    ASSUME TypeInv, initProcessor PROVE TypeInv'
<1>1. nextHeight' \in Heights
  <2>1. PICK prev \in ecDB : nextHeight' = [d |-> Len(dDB),
            ec |-> prev.height + 1, a |-> Len(dDB), f |-> Len(dDB)]
    BY DEF initProcessor
  <2>2. prev.height \in Nat
    BY DEF TypeInv, TypeOK, ECBlocks
  <2>3. Len(dDB) \in Nat
    BY DEF TypeInv, TypeOK
  <2> QED BY <2>1, <2>2, <2>3 DEF Heights
<1>2. rate' \in Nat \ {0}
  <2>1. PICK last \in fDB : rate' = last.rate
    BY DEF initProcessor
  <2> QED BY <2>1 DEF TypeInv, TypeOK, FBlocks
<1>3. eNext' \in [Chains -> OpenEBlocks]
  <2>1. NewEBlock \in OpenEBlocks
    BY DEF NewEBlock, OpenEBlocks
  <2> QED BY <2>1, OpenBlockType DEF initProcessor, TypeInv
<1>4. aNext' \in Seq(0 .. LastMinute) /\ ecNext' \in Seq(ECEntries)
  <2>1. DBSignature \in 0 .. LastMinute
    BY ConstantTypes DEF DBSignature
  <2> QED BY <2>1 DEF initProcessor
<1>5. dNext' \in OpenDBlocks
  BY DEF initProcessor, EmptyDBlock, OpenDBlocks
<1>6. /\ commitEntryMap' \in [Entries -> Commits \cup {None}]
      /\ commitChainMap' \in [Entries -> Commits \cup {None}]
      /\ chainIDMap' \subseteq Chains /\ plist' \in Seq(Items)
      /\ seen' \subseteq Commits \cup Txs /\ orphans' \subseteq Entries
      /\ todo' \subseteq Entries \cup Chains /\ idx' \in Nat \ {0}
      /\ minute' \in Minutes /\ boots' \in Nat
      /\ eCreditMap' \in Balances /\ ecCredit' \in Balances
  BY DEF initProcessor, initEChains, TypeInv, TypeOK
<1>7. pc' \in Running \cup {"panic"}
  BY DEF initProcessor, Running
<1> QED BY <1>1, <1>2, <1>3, <1>4, <1>5, <1>6, <1>7
        DEF initProcessor, TypeInv, TypeOK, FiniteDB, disk

\* Where the goroutine is tells what it has already done: the item whose first
\* entry is stored next is a chain reveal, and the open directory block has
\* the entries of the blocks sealed so far.
Control ==
    /\ pc = "first" => idx <= Len(plist) /\ plist[idx].type = "revealChain"
    /\ pc \in Sealing => dNext.ec \in ECBlocks
    /\ pc \in {"fct", "entry"} => dNext.a \in ABlocks
    /\ pc = "entry" => dNext.f \in FBlocks

\* Every step of the specification, as one of the groups the lemmas treat.
BuildItem ==
    \/ buildCommit \/ buildIncreaseBalance \/ buildRevealEntry
    \/ buildRevealChain \/ buildFirstEntry \/ buildEndOfMinute

SealBlock ==
    \/ newEntryCreditBlock \/ newAdminBlock \/ newFactoidBlock
    \/ newDirectoryBlock \/ \E c \in Chains : newEntryBlock(c)

LEMMA NextGroups ==
    ASSUME Next
    PROVE  \/ Serve \/ EndOfMinute \/ EndOfMinute10 \/ EndProcessList
           \/ \E e \in Entries : processFromOrphanPool(e)
           \/ BuildItem \/ SealBlock \/ initProcessor
BY DEF Next, BuildBlocks, BuildItem, SealBlock

LEMMA TypeStep ==
    ASSUME TypeInv, Control, [Next]_vars PROVE TypeInv'
<1>1. CASE Serve
  BY <1>1, ServeType
<1>2. CASE EndOfMinute \/ EndOfMinute10 \/ EndProcessList
  BY <1>2, EndOfMinuteType
<1>3. ASSUME NEW e \in Entries, processFromOrphanPool(e) PROVE TypeInv'
  BY <1>3, OrphanPoolType
<1>4. CASE BuildItem
  BY <1>4, BuildType DEF BuildItem, Control
<1>5. CASE SealBlock
  <2>1. newDirectoryBlock => dNext \in DBlocks
    BY DEF newDirectoryBlock, Control, Sealing, DBlocks, TypeInv, TypeOK,
       OpenDBlocks
  <2> QED BY <1>5, <2>1, SealType DEF SealBlock
<1>6. CASE initProcessor
  BY <1>6, RestartType
<1>7. CASE UNCHANGED vars
  BY <1>7 DEF vars, pools, chains, ledger, open, disk, credit, TypeInv, TypeOK,
     FiniteDB
<1> QED BY <1>1, <1>2, <1>3, <1>4, <1>5, <1>6, <1>7, NextGroups

LEMMA ControlStep ==
    ASSUME TypeInv, Control, [Next]_vars PROVE Control'
<1>1. CASE Serve
  <2>1. pc' = "serve"
    BY <1>1 DEF Serve, processCommitEntry, processCommitChain, RefuseCommit,
       processBuyEntryCredit, RefuseFactoidTX, processRevealEntry
  <2> QED BY <2>1 DEF Control, Sealing
<1>2. CASE EndOfMinute \/ EndOfMinute10 \/ EndProcessList
  <2>1. pc' \in {"serve", "orphans", "build"}
    BY <1>2 DEF EndOfMinute, EndOfMinute10, EndProcessList
  <2> QED BY <2>1 DEF Control, Sealing
<1>3. ASSUME NEW e \in Entries, processFromOrphanPool(e) PROVE Control'
  <2>1. pc' = "orphans"
    BY <1>3 DEF processFromOrphanPool
  <2> QED BY <2>1 DEF Control, Sealing
<1>4. CASE BuildItem
  <2>1. CASE buildRevealChain
    <3>1. idx' = idx /\ plist' = plist /\ pc' \in {"first", "panic"}
      BY <2>1 DEF buildRevealChain, ledger
    <3>2. idx <= Len(plist) /\ plist[idx].type = "revealChain"
      BY <2>1 DEF buildRevealChain, Building
    <3> QED BY <3>1, <3>2 DEF Control, Sealing
  <2>2. CASE ~buildRevealChain
    <3>1. pc' = "build"
      BY <1>4, <2>2 DEF BuildItem, buildCommit, buildIncreaseBalance,
         buildRevealEntry, buildFirstEntry, buildEndOfMinute, Building
    <3> QED BY <3>1 DEF Control, Sealing
  <2> QED BY <2>1, <2>2
<1>5. CASE newEntryCreditBlock
  <2>1. [height |-> nextHeight.ec, entries |-> ecNext] \in ECBlocks
    BY DEF ECBlocks, Heights, TypeInv, TypeOK
  <2>2. dNext'.ec \in ECBlocks
    BY <1>5, <2>1 DEF newEntryCreditBlock, TypeInv, TypeOK, OpenDBlocks
  <2> QED BY <1>5, <2>2 DEF newEntryCreditBlock, Control
<1>6. CASE newAdminBlock
  <2>1. [height |-> nextHeight.a, entries |-> aNext] \in ABlocks
    BY DEF ABlocks, Heights, TypeInv, TypeOK
  <2>2. pc' = "fct" => dNext'.a \in ABlocks /\ dNext'.ec = dNext.ec
    BY <1>6, <2>1 DEF newAdminBlock, TypeInv, TypeOK, OpenDBlocks
  <2>3. pc = "admin" /\ pc' \in {"fct", "panic"}
    BY <1>6 DEF newAdminBlock
  <2> QED BY <2>2, <2>3 DEF Control, Sealing
<1>7. CASE newFactoidBlock
  <2>1. [height |-> nextHeight.f, rate |-> rate, boot |-> boots] \in FBlocks
    BY DEF FBlocks, Heights, TypeInv, TypeOK
  <2>2. pc' = "entry" => /\ dNext'.f \in FBlocks /\ dNext'.ec = dNext.ec
                         /\ dNext'.a = dNext.a
    BY <1>7, <2>1 DEF newFactoidBlock, TypeInv, TypeOK, OpenDBlocks
  <2>3. pc = "fct" /\ pc' \in {"entry", "panic"}
    BY <1>7 DEF newFactoidBlock
  <2> QED BY <2>2, <2>3 DEF Control, Sealing
<1>8. ASSUME NEW c \in Chains, newEntryBlock(c) PROVE Control'
  <2>1. pc = "entry" /\ pc' = "entry"
    BY <1>8 DEF newEntryBlock, VisitChain
  <2>2. dNext'.ec = dNext.ec /\ dNext'.a = dNext.a /\ dNext'.f = dNext.f
    BY <1>8 DEF newEntryBlock, StoreEntryBlock, TypeInv, TypeOK, OpenDBlocks
  <2> QED BY <2>1, <2>2 DEF Control, Sealing
<1>9. CASE newDirectoryBlock
  BY <1>9 DEF newDirectoryBlock, Control, Sealing
<1>10. CASE initProcessor
  <2>1. pc' \in {"serve", "panic"}
    BY <1>10 DEF initProcessor
  <2> QED BY <2>1 DEF Control, Sealing
<1>11. CASE UNCHANGED vars
  BY <1>11 DEF vars, ledger, open, Control
<1> QED BY <1>1, <1>2, <1>3, <1>4, <1>5, <1>6, <1>7, <1>8, <1>9, <1>10, <1>11,
           NextGroups DEF SealBlock

LEMMA InitControl == Init => Control
BY DEF Init, Control, Sealing

\* The engine keeps its types: whatever messages arrive, at whatever limits,
\* and wherever the process dies, every block that reaches the database is a
\* complete block of its kind.
THEOREM TypeCorrect == Spec => []TypeOK
<1>1. Init => TypeInv /\ Control
  BY InitType, InitControl
<1>2. (TypeInv /\ Control) /\ [Next]_vars => (TypeInv /\ Control)'
  BY TypeStep, ControlStep
<1>3. TypeInv /\ Control => TypeOK
  BY DEF TypeInv
<1> QED BY <1>1, <1>2, <1>3, PTL DEF Spec

----------------------------------------------------------------------------
\* The entry credit ledger.  Every item of the process list carries the
\* balances after it (bal), so that the list certifies the balances: replayed
\* from the stored ones at the rate of the period, it gives those the engine
\* serves from, and the open entry credit block is a prefix of that replay.
\* The invariant is needed in this form because the two conversions of a
\* purchase are far apart in time: what ties them is that the rate changes
\* only when the whole list is in the block.

Bal(i) == IF i = 0 THEN dbCredit ELSE plist[i].bal

Certified ==
    /\ idx <= Len(plist) + 1
    /\ \A i \in 1 .. Len(plist) :
           plist[i].bal = Apply(Bal(i - 1), Delta(plist[i], rate))
    /\ eCreditMap = Bal(Len(plist))
    /\ ecCredit = Bal(idx - 1)

NonNegative(b) == \A k \in Keys : b[k] >= 0

Collecting == {"serve", "orphans"}
Writing    == {"build", "first"}

Ledger ==
    /\ pc \in Collecting => idx = 1
    /\ ~ecLost =>
          /\ pc \in Collecting \cup Writing => Certified
          /\ pc \in Sealing => dbCredit = eCreditMap /\ ecCredit = dbCredit
          /\ NonNegative(dbCredit)
          /\ NonNegative(eCreditMap)

LEMMA ApplyZero == \A b \in Balances : Apply(b, Zero) = b
BY DEF Apply, Zero, Balances

\* What an item does to the balances, by its kind.
LEMMA DeltaOf ==
    \A item, r :
        /\ item.type \in CommitKinds => Delta(item, r) = Charge(item.msg)
        /\ item.type = "factoidTX" => Delta(item, r) = Purchase(item.msg, r)
        /\ item.type \in Reveals \cup {"EOM"} => Delta(item, r) = Zero
BY DEF Delta, CommitKinds, Reveals

\* Appending an item that carries the balances after it.
LEMMA AppendCertified ==
    ASSUME TypeInv, Certified, idx = 1, NEW item,
           plist' = Append(plist, item),
           item.bal = Apply(eCreditMap, Delta(item, rate)),
           eCreditMap' = item.bal,
           UNCHANGED <<idx, rate, dbCredit, ecCredit>>
    PROVE  Certified'
<1>1. plist \in Seq(Items) /\ Len(plist) \in Nat
  BY DEF TypeInv, TypeOK
<1>2. /\ Len(plist') = Len(plist) + 1
      /\ \A i \in 1 .. Len(plist) : plist'[i] = plist[i]
      /\ plist'[Len(plist) + 1] = item
  BY <1>1
<1>3. \A i \in 0 .. Len(plist) : Bal(i)' = Bal(i)
  BY <1>1, <1>2 DEF Bal
<1>4. ASSUME NEW i \in 1 .. Len(plist')
      PROVE  plist'[i].bal = Apply(Bal(i - 1)', Delta(plist'[i], rate))
  <2>1. CASE i \in 1 .. Len(plist)
    <3>1. i - 1 \in 0 .. Len(plist)
      BY <1>1, <2>1
    <3>2. Bal(i - 1)' = Bal(i - 1)
      BY <1>3, <3>1
    <3> QED BY <1>2, <2>1, <3>2 DEF Certified
  <2>2. CASE i = Len(plist) + 1
    <3>1. Bal(i - 1)' = eCreditMap
      <4>1. i - 1 = Len(plist) /\ Len(plist) \in 0 .. Len(plist)
        BY <1>1, <2>2
      <4> QED BY <1>3, <4>1 DEF Certified
    <3> QED BY <1>2, <2>2, <3>1
  <2> QED BY <1>1, <1>2, <2>1, <2>2
<1>5. eCreditMap' = Bal(Len(plist))'
  BY <1>1, <1>2 DEF Bal
<1>6. ecCredit' = Bal(idx - 1)'
  BY <1>3 DEF Certified, Bal
<1>7. idx' <= Len(plist') + 1
  BY <1>1, <1>2
<1> QED BY <1>4, <1>5, <1>6, <1>7 DEF Certified

\* Writing the next item's credits into the open entry credit block.
LEMMA WriteCertified ==
    ASSUME TypeInv, Certified, idx <= Len(plist), idx' = idx + 1,
           ecCredit' = Apply(ecCredit, Delta(plist[idx], rate)),
           UNCHANGED <<plist, eCreditMap, rate, dbCredit>>
    PROVE  Certified'
<1>1. idx \in 1 .. Len(plist) /\ Len(plist) \in Nat
  BY DEF TypeInv, TypeOK
<1>2. plist[idx].bal = ecCredit'
  BY <1>1 DEF Certified
<1>3. ecCredit' = Bal(idx - 1)'
  BY <1>1, <1>2 DEF Bal
<1>4. \A i \in 0 .. Len(plist) : Bal(i)' = Bal(i)
  BY DEF Bal
<1>5. \A i \in 1 .. Len(plist) : i - 1 \in 0 .. Len(plist)
  BY <1>1
<1> QED BY <1>1, <1>3, <1>4, <1>5 DEF Certified

\* An empty process list after everything is stored.
LEMMA EmptyCertified ==
    ASSUME plist' = <<>>, idx' = 1, eCreditMap' = dbCredit', ecCredit' = dbCredit'
    PROVE  Certified'
BY DEF Certified, Bal

\* A purchase keeps balances non-negative, and so does a commit that the key
\* can pay.
LEMMA CommitNonNegative ==
    ASSUME NEW c \in Commits, NEW b \in Balances, NonNegative(b),
           b[CommitMsg[c].key] >= CommitMsg[c].credits
    PROVE  NonNegative(Apply(b, Charge(c)))
BY ConstantTypes DEF NonNegative, Apply, Charge, Balances

LEMMA PurchaseNonNegative ==
    ASSUME NEW t \in Txs, NEW r \in Nat \ {0}, NEW b \in Balances,
           NonNegative(b)
    PROVE  NonNegative(Apply(b, Purchase(t, r)))
<1>1. ASSUME NEW d \in Balances, \A k \in Keys : d[k] >= 0
      PROVE  NonNegative(Apply(b, d))
  <2> SUFFICES ASSUME NEW k \in Keys PROVE b[k] + d[k] >= 0
    BY DEF NonNegative, Apply
  <2>1. b[k] \in Int /\ d[k] \in Int /\ b[k] >= 0 /\ d[k] >= 0
    BY <1>1 DEF NonNegative, Balances
  <2> QED BY <2>1
<1>2. Purchase(t, r) \in Balances /\ \A k \in Keys : Purchase(t, r)[k] >= 0
  BY PurchaseType, Zenon
<1> QED BY <1>1, <1>2, Zenon

\* A step that collects an item keeps the ledger.
LEMMA CollectLedger ==
    ASSUME TypeInv, Ledger, pc \in Collecting, pc' \in Collecting \cup {"build"},
           NEW item, plist' = Append(plist, item),
           ~ecLost => item.bal = Apply(eCreditMap, Delta(item, rate)),
           ~ecLost => NonNegative(item.bal),
           eCreditMap' = item.bal,
           UNCHANGED <<idx, rate, dbCredit, ecCredit, ecLost>>
    PROVE  Ledger'
<1>1. idx = 1
  BY DEF Ledger
<1>2. ASSUME ~ecLost PROVE Certified'
  BY <1>1, <1>2, AppendCertified DEF Ledger
<1>3. pc' \notin Sealing
  BY DEF Collecting, Sealing
<1>4. ASSUME ~ecLost PROVE NonNegative(dbCredit)' /\ NonNegative(eCreditMap)'
  BY <1>4 DEF Ledger, NonNegative
<1> QED BY <1>1, <1>2, <1>3, <1>4 DEF Ledger

\* A step that leaves the ledger alone keeps it.
LEMMA QuietLedger ==
    ASSUME Ledger, pc' = pc \/ (pc = "serve" /\ pc' = "orphans")
                   \/ (pc = "build" /\ pc' = "first")
                   \/ pc' = "panic",
           UNCHANGED <<idx, plist, eCreditMap, rate, dbCredit, ecCredit, ecLost>>
    PROVE  Ledger'
<1>1. Certified' <=> Certified
  BY DEF Certified, Bal
<1>2. /\ NonNegative(dbCredit)' <=> NonNegative(dbCredit)
      /\ NonNegative(eCreditMap)' <=> NonNegative(eCreditMap)
  BY DEF NonNegative
<1> QED BY <1>1, <1>2 DEF Ledger, Collecting, Writing, Sealing

\* A reveal that is accepted moves no credits.
LEMMA RevealLedger ==
    ASSUME TypeInv, Ledger, NEW e \in Entries, pc \in Collecting, pc' = pc,
           AcceptEntry(e) \/ AcceptChain(e),
           UNCHANGED <<idx, eCreditMap, rate, dbCredit, ecCredit, ecLost>>
    PROVE  Ledger'
<1>1. PICK type \in Reveals, by \in Commits \cup {None} : plist' =
          Append(plist, Item(type, e, by, minute, eCreditMap))
  BY DEF AcceptEntry, AcceptChain, ListMessage, AddMyProcessListItem, Reveals,
     TypeInv, TypeOK
<1> DEFINE item == Item(type, e, by, minute, eCreditMap)
<1>2. item.type \in Reveals /\ item.bal = eCreditMap
  BY DEF Item
<1>3. Delta(item, rate) = Zero
  BY <1>2, DeltaOf
<1>4. item.bal = Apply(eCreditMap, Delta(item, rate))
  BY <1>2, <1>3, ApplyZero DEF TypeInv, TypeOK
<1>5. ~ecLost => NonNegative(item.bal)
  BY <1>2 DEF Ledger
<1> HIDE DEF item
<1> QED BY <1>1, <1>2, <1>4, <1>5, CollectLedger DEF Collecting, item

LEMMA CommitLedger ==
    ASSUME TypeInv, Ledger, NEW c \in Commits, pc = "serve", pc' = "serve",
           ChargeCommit(c), eCreditMap[CommitMsg[c].key] >= CommitMsg[c].credits,
           UNCHANGED <<idx, rate, dbCredit, ecCredit, ecLost>>
    PROVE  Ledger'
<1> DEFINE item == Item(CommitMsg[c].kind, c, None, 0, eCreditMap')
<1>1. /\ item.type = CommitMsg[c].kind /\ item.msg = c
      /\ item.bal = eCreditMap'
  BY DEF Item
<1>2. item.type \in CommitKinds
  BY <1>1, ConstantTypes
<1>3. Delta(item, rate) = Charge(c)
  BY <1>1, <1>2, DeltaOf
<1>4. plist' = Append(plist, item) /\ eCreditMap' = Apply(eCreditMap, Charge(c))
  BY DEF ChargeCommit, ListMessage, AddMyProcessListItem
<1>5. ~ecLost => NonNegative(item.bal)
  BY <1>1, <1>4, CommitNonNegative DEF Ledger, TypeInv, TypeOK
<1> HIDE DEF item
<1> QED BY <1>1, <1>3, <1>4, <1>5, CollectLedger DEF Collecting

LEMMA PurchaseLedger ==
    ASSUME TypeInv, Ledger, NEW t \in Txs, processBuyEntryCredit(t)
    PROVE  Ledger'
<1> DEFINE item == Item("factoidTX", t, None, 0, eCreditMap')
<1>1. item.type = "factoidTX" /\ item.msg = t /\ item.bal = eCreditMap'
  BY DEF Item
<1>2. Delta(item, rate) = Purchase(t, rate)
  BY <1>1, DeltaOf
<1>3. /\ plist' = Append(plist, item) /\ pc = "serve" /\ pc' = "serve"
      /\ eCreditMap' = Apply(eCreditMap, Purchase(t, rate))
      /\ UNCHANGED <<idx, rate, dbCredit, ecCredit, ecLost>>
  BY DEF processBuyEntryCredit, ListMessage, AddMyProcessListItem, credit
<1>4. ~ecLost => NonNegative(item.bal)
  BY <1>1, <1>3, PurchaseNonNegative DEF Ledger, TypeInv, TypeOK
<1> HIDE DEF item
<1> QED BY <1>1, <1>2, <1>3, <1>4, CollectLedger DEF Collecting

LEMMA MinuteLedger ==
    ASSUME TypeInv, Ledger, EndOfMinute \/ EndProcessList
    PROVE  Ledger'
<1>1. PICK m : plist' = Append(plist, Item("EOM", None, None, m, eCreditMap))
  BY DEF EndOfMinute, EndProcessList, AddMyProcessListItem
<1> DEFINE item == Item("EOM", None, None, m, eCreditMap)
<1>2. item.type = "EOM" /\ item.bal = eCreditMap
  BY DEF Item
<1>3. item.bal = Apply(eCreditMap, Delta(item, rate))
  BY <1>2, DeltaOf, ApplyZero DEF TypeInv, TypeOK
<1>4. ~ecLost => NonNegative(item.bal)
  BY <1>2 DEF Ledger
<1>5. /\ pc \in Collecting /\ pc' \in Collecting \cup {"build"}
      /\ UNCHANGED <<idx, eCreditMap, rate, dbCredit, ecCredit, ecLost>>
  BY DEF EndOfMinute, EndProcessList, Collecting, credit
<1> HIDE DEF item
<1> QED BY <1>1, <1>2, <1>3, <1>4, <1>5, CollectLedger DEF item

\* Building an item brings the open entry credit block one item further.
LEMMA WriteLedger ==
    ASSUME TypeInv, Ledger, pc \in Writing, pc' = "build", idx <= Len(plist),
           idx' = idx + 1,
           ecCredit' = Apply(ecCredit, Delta(plist[idx], rate)),
           UNCHANGED <<plist, eCreditMap, rate, dbCredit, ecLost>>
    PROVE  Ledger'
<1>1. ASSUME ~ecLost PROVE Certified'
  BY <1>1, WriteCertified DEF Ledger
<1>2. /\ NonNegative(dbCredit)' <=> NonNegative(dbCredit)
      /\ NonNegative(eCreditMap)' <=> NonNegative(eCreditMap)
  BY DEF NonNegative
<1>3. pc' \notin Sealing \cup Collecting
  BY DEF Sealing, Collecting
<1> QED BY <1>1, <1>2, <1>3 DEF Ledger

LEMMA BuildLedger ==
    ASSUME TypeInv, Control, Ledger, BuildItem PROVE Ledger'
<1>1. ecCredit = Apply(ecCredit, Zero)
  BY ApplyZero DEF TypeInv, TypeOK
<1>2. CASE buildCommit
  <2>1. Delta(plist[idx], rate) = Charge(plist[idx].msg)
    BY <1>2, DeltaOf DEF buildCommit, Building
  <2> QED BY <1>2, <2>1, WriteLedger DEF buildCommit, Building, AddECEntry,
             ECEntry, Writing, ledger
<1>3. CASE buildIncreaseBalance
  <2>1. Delta(plist[idx], rate) = Purchase(plist[idx].msg, rate)
    BY <1>3, DeltaOf DEF buildIncreaseBalance, Building
  <2> QED BY <1>3, <2>1, WriteLedger DEF buildIncreaseBalance, Building,
             AddECEntry, ECEntry, Writing, ledger
<1>4. CASE buildRevealEntry
  <2>1. Delta(plist[idx], rate) = Zero
    BY <1>4, DeltaOf DEF buildRevealEntry, Building, Reveals
  <2> QED BY <1>1, <1>4, <2>1, WriteLedger DEF buildRevealEntry, Building,
             Writing, ledger, credit
<1>5. CASE buildRevealChain
  BY <1>5, QuietLedger DEF buildRevealChain, Building, ledger, credit
<1>6. CASE buildFirstEntry
  <2>1. idx <= Len(plist) /\ Delta(plist[idx], rate) = Zero
    BY <1>6, DeltaOf DEF buildFirstEntry, Control, Reveals
  <2> QED BY <1>1, <1>6, <2>1, WriteLedger DEF buildFirstEntry, Writing, ledger,
             credit
<1>7. CASE buildEndOfMinute
  <2>1. Delta(plist[idx], rate) = Zero
    BY <1>7, DeltaOf DEF buildEndOfMinute, Building
  <2>2. ecCredit' = Apply(ecCredit, Zero)
    BY <1>7 DEF buildEndOfMinute, AddECEntry, ECEntry
  <2> QED BY <1>7, <2>1, <2>2, WriteLedger DEF buildEndOfMinute, Building,
             Writing, ledger
<1> QED BY <1>2, <1>3, <1>4, <1>5, <1>6, <1>7 DEF BuildItem

LEMMA SealLedger ==
    ASSUME TypeInv, Ledger, SealBlock PROVE Ledger'
<1>1. CASE newEntryCreditBlock
  <2>1. ecLost' = FALSE => ~ecLost /\ dbCredit' = ecCredit
    BY <1>1 DEF newEntryCreditBlock, TypeInv, TypeOK
  <2>2. ~ecLost => ecCredit = eCreditMap
    <3>1. ~ecLost => Certified
      BY <1>1 DEF newEntryCreditBlock, Ledger, Writing
    <3>2. ASSUME Certified PROVE ecCredit = eCreditMap
      <4>1. idx - 1 = Len(plist)
        BY <1>1, <3>2 DEF newEntryCreditBlock, Certified, TypeInv, TypeOK
      <4> QED BY <3>2, <4>1 DEF Certified
    <3> QED BY <3>1, <3>2
  <2>3. /\ ecCredit' = dbCredit' /\ eCreditMap' = eCreditMap /\ pc' = "admin"
        /\ ecLost' \in BOOLEAN
    BY <1>1 DEF newEntryCreditBlock, ledger
  <2>4. ecLost' = FALSE => NonNegative(dbCredit)' /\ NonNegative(eCreditMap)'
    BY <2>1, <2>2, <2>3 DEF Ledger, NonNegative
  <2> QED BY <2>1, <2>2, <2>3, <2>4 DEF Ledger, Collecting, Writing
<1>2. CASE newAdminBlock \/ newFactoidBlock \/ \E c \in Chains : newEntryBlock(c)
  <2>1. /\ pc \in Sealing /\ pc' \in Sealing \cup {"panic"}
        /\ UNCHANGED <<eCreditMap, dbCredit, ecCredit, ecLost>>
    BY <1>2 DEF newAdminBlock, newFactoidBlock, newEntryBlock, VisitChain,
       Sealing, ledger, credit
  <2>2. pc' \notin Collecting \cup Writing
    BY <2>1 DEF Sealing, Collecting, Writing
  <2>3. /\ NonNegative(dbCredit)' <=> NonNegative(dbCredit)
        /\ NonNegative(eCreditMap)' <=> NonNegative(eCreditMap)
    BY <2>1 DEF NonNegative
  <2> QED BY <2>1, <2>2, <2>3 DEF Ledger
<1>3. CASE newDirectoryBlock
  <2>1. /\ pc = "entry" /\ pc' = "serve" /\ plist' = <<>> /\ idx' = 1
        /\ UNCHANGED <<eCreditMap, dbCredit, ecCredit, ecLost>>
    BY <1>3 DEF newDirectoryBlock, credit
  <2>2. ~ecLost => Certified'
    BY <2>1, EmptyCertified DEF Ledger, Sealing
  <2>3. /\ NonNegative(dbCredit)' <=> NonNegative(dbCredit)
        /\ NonNegative(eCreditMap)' <=> NonNegative(eCreditMap)
    BY <2>1 DEF NonNegative
  <2> QED BY <2>1, <2>2, <2>3 DEF Ledger, Sealing
<1> QED BY <1>1, <1>2, <1>3 DEF SealBlock

LEMMA RestartLedger ==
    ASSUME TypeInv, Ledger, initProcessor PROVE Ledger'
<1>1. /\ plist' = <<>> /\ idx' = 1 /\ pc' \in {"serve", "panic"}
      /\ eCreditMap' = dbCredit /\ ecCredit' = dbCredit
      /\ dbCredit' = dbCredit /\ ecLost' = ecLost
  BY DEF initProcessor
<1>2. Certified'
  BY <1>1, EmptyCertified
<1>3. ~ecLost => NonNegative(dbCredit)' /\ NonNegative(eCreditMap)'
  BY <1>1 DEF NonNegative, Ledger
<1> QED BY <1>1, <1>2, <1>3 DEF Ledger, Sealing

LEMMA LedgerStep ==
    ASSUME TypeInv, Control, Ledger, [Next]_vars PROVE Ledger'
<1>1. CASE Serve
  <2>1. ASSUME NEW c \in Commits, processCommitEntry(c) PROVE Ledger'
    BY <2>1, CommitLedger DEF processCommitEntry, CommitEntryAllowed, credit
  <2>2. ASSUME NEW c \in Commits, processCommitChain(c) PROVE Ledger'
    BY <2>2, CommitLedger DEF processCommitChain, CommitChainAllowed, credit
  <2>3. ASSUME NEW c \in Commits, RefuseCommit(c) PROVE Ledger'
    BY <2>3, QuietLedger DEF RefuseCommit, ledger, credit
  <2>4. ASSUME NEW t \in Txs, processBuyEntryCredit(t) PROVE Ledger'
    BY <2>4, PurchaseLedger
  <2>5. ASSUME NEW t \in Txs, RefuseFactoidTX(t) PROVE Ledger'
    BY <2>5, QuietLedger DEF RefuseFactoidTX, ledger, credit
  <2>6. ASSUME NEW e \in Entries, processRevealEntry(e) PROVE Ledger'
    <3>1. /\ pc = "serve" /\ pc' = pc
          /\ UNCHANGED <<idx, eCreditMap, rate, dbCredit, ecCredit, ecLost>>
      BY <2>6 DEF processRevealEntry, credit
    <3>2. AcceptEntry(e) \/ AcceptChain(e) \/ UNCHANGED plist
      BY <2>6 DEF processRevealEntry, RegisterOnly
    <3> QED BY <3>1, <3>2, RevealLedger, QuietLedger DEF Collecting
  <2> QED BY <1>1, <2>1, <2>2, <2>3, <2>4, <2>5, <2>6 DEF Serve
<1>2. CASE EndOfMinute \/ EndProcessList
  BY <1>2, MinuteLedger
<1>3. CASE EndOfMinute10
  BY <1>3, QuietLedger DEF EndOfMinute10, ledger, credit
<1>4. ASSUME NEW e \in Entries, processFromOrphanPool(e) PROVE Ledger'
  <2>1. /\ pc = "orphans" /\ pc' = pc
        /\ UNCHANGED <<idx, eCreditMap, rate, dbCredit, ecCredit, ecLost>>
    BY <1>4 DEF processFromOrphanPool, credit
  <2>2. AcceptEntry(e) \/ AcceptChain(e) \/ UNCHANGED plist
    BY <1>4 DEF processFromOrphanPool, RegisterOnly
  <2> QED BY <2>1, <2>2, RevealLedger, QuietLedger DEF Collecting
<1>5. CASE BuildItem
  BY <1>5, BuildLedger
<1>6. CASE SealBlock
  BY <1>6, SealLedger
<1>7. CASE initProcessor
  BY <1>7, RestartLedger
<1>8. CASE UNCHANGED vars
  BY <1>8, QuietLedger DEF vars, ledger, credit
<1> QED BY <1>1, <1>2, <1>3, <1>4, <1>5, <1>6, <1>7, <1>8, NextGroups

LEMMA InitLedger == Init => Ledger
<1> SUFFICES ASSUME Init PROVE Ledger
  OBVIOUS
<1>1. Certified
  BY DEF Init, Certified, Bal
<1>2. NonNegative(dbCredit) /\ NonNegative(eCreditMap)
  BY DEF Init, NonNegative, Zero
<1> QED BY <1>1, <1>2 DEF Init, Ledger, Sealing

IInv == TypeInv /\ Control /\ Ledger

LEMMA Inductive == Spec => []IInv
<1>1. Init => IInv
  BY InitType, InitControl, InitLedger DEF IInv
<1>2. IInv /\ [Next]_vars => IInv'
  BY TypeStep, ControlStep, LedgerStep DEF IInv
<1> QED BY <1>1, <1>2, PTL DEF Spec

\* The stored entry credit blocks account for the balances: a node that starts
\* on them (initECChain) holds the balances the node that wrote them held.
THEOREM BalancesSurvive == Spec => []BlockAccountsForBalances
<1>1. IInv => BlockAccountsForBalances
  <2>1. ASSUME Certified, plist = <<>> PROVE dbCredit = eCreditMap
    BY <2>1 DEF Certified, Bal
  <2> QED BY <2>1 DEF IInv, Ledger, BlockAccountsForBalances, Collecting
<1> QED BY <1>1, Inductive, PTL

\* No key spends entry credits it does not have, in memory or on disk.
THEOREM NobodyOverdraws == Spec => []NoOverdraft
<1>1. IInv => NoOverdraft
  BY DEF IInv, Ledger, NonNegative, NoOverdraft
<1> QED BY <1>1, Inductive, PTL

----------------------------------------------------------------------------
\* The directory is written last.  The invariant follows the open directory
\* block: what it lists at each program point is stored already, under the
\* height that the directory block will have.

OpenList ==
    /\ pc \in Sealing => dNext.ec \in ecDB
    /\ pc \in {"fct", "entry"} =>
           dNext.a \in aDB /\ dNext.a.height = nextHeight.d
    /\ pc = "entry" => dNext.f \in fDB /\ dNext.f.height = nextHeight.d
    /\ \A j \in DOMAIN dNext.e :
           dNext.e[j] \in eDB /\ dNext.e[j].height = nextHeight.d

ListsStoredBlocks ==
    \A i \in DOMAIN dDB :
        /\ Listed(dDB[i])
        /\ dDB[i].a.height = i - 1 /\ dDB[i].f.height = i - 1
        /\ \A j \in DOMAIN dDB[i].e : dDB[i].e[j].height = i - 1

Listing ==
    /\ Len(dDB) = nextHeight.d
    /\ ListsStoredBlocks
    /\ OpenList

LEMMA InitListing == Init => Listing
<1> SUFFICES ASSUME Init PROVE Listing
  OBVIOUS
<1>1. Len(dDB) = nextHeight.d
  BY DEF Init
<1>2. OpenList
  BY DEF Init, OpenList, Sealing, EmptyDBlock
<1>3. ListsStoredBlocks
  BY DEF Init, ListsStoredBlocks, Listed, GenesisA, GenesisF
<1> QED BY <1>1, <1>2, <1>3 DEF Listing

\* A stored directory block stays right while the databases grow.
LEMMA ListingKept ==
    ASSUME ListsStoredBlocks, dDB' = dDB,
           ecDB \subseteq ecDB', aDB \subseteq aDB', fDB \subseteq fDB',
           eDB \subseteq eDB'
    PROVE  ListsStoredBlocks'
BY DEF ListsStoredBlocks, Listed

\* A step that leaves the open directory block alone, outside buildBlocks.
LEMMA QuietListing ==
    ASSUME Listing, pc' \notin Sealing \/ pc' = pc,
           UNCHANGED <<dNext, nextHeight, dDB, ecDB, aDB, fDB, eDB>>
    PROVE  Listing'
<1>1. ListsStoredBlocks'
  BY ListingKept DEF Listing
<1>2. OpenList'
  BY DEF Listing, OpenList, Sealing
<1> QED BY <1>1, <1>2 DEF Listing

LEMMA SealListing ==
    ASSUME TypeInv, Listing, SealBlock PROVE Listing'
<1>0. dNext \in OpenDBlocks /\ nextHeight \in Heights /\ dDB \in Seq(DBlocks)
  BY DEF TypeInv, TypeOK
<1>1. CASE newEntryCreditBlock
  <2>1. /\ nextHeight'.d = nextHeight.d /\ dNext'.ec \in ecDB'
        /\ dNext'.e = dNext.e /\ pc' = "admin" /\ eDB' = eDB
    BY <1>0, <1>1 DEF newEntryCreditBlock, OpenDBlocks, Heights
  <2>2. OpenList'
    BY <2>1 DEF OpenList, Listing
  <2>3. ListsStoredBlocks'
    BY <1>1, ListingKept DEF newEntryCreditBlock, Listing
  <2> QED BY <1>1, <2>1, <2>2, <2>3 DEF Listing, newEntryCreditBlock
<1>2. CASE newAdminBlock
  <2>1. /\ nextHeight'.d = nextHeight.d /\ dNext'.ec = dNext.ec
        /\ dNext'.e = dNext.e /\ pc = "admin" /\ pc' \in {"fct", "panic"}
        /\ eDB' = eDB /\ ecDB' = ecDB
        /\ pc' = "fct" => dNext'.a \in aDB' /\ dNext'.a.height = nextHeight.d
    BY <1>0, <1>2 DEF newAdminBlock, OpenDBlocks, Heights
  <2>2. OpenList'
    BY <2>1 DEF OpenList, Listing, Sealing
  <2>3. ListsStoredBlocks'
    BY <1>2, ListingKept DEF newAdminBlock, Listing
  <2> QED BY <1>2, <2>1, <2>2, <2>3 DEF Listing, newAdminBlock
<1>3. CASE newFactoidBlock
  <2>1. /\ nextHeight'.d = nextHeight.d /\ dNext'.ec = dNext.ec
        /\ dNext'.a = dNext.a
        /\ dNext'.e = dNext.e /\ pc = "fct" /\ pc' \in {"entry", "panic"}
        /\ eDB' = eDB /\ ecDB' = ecDB /\ aDB' = aDB
        /\ pc' = "entry" => dNext'.f \in fDB' /\ dNext'.f.height = nextHeight.d
    BY <1>0, <1>3 DEF newFactoidBlock, OpenDBlocks, Heights
  <2>2. OpenList'
    BY <2>1 DEF OpenList, Listing, Sealing
  <2>3. ListsStoredBlocks'
    BY <1>3, ListingKept DEF newFactoidBlock, Listing
  <2> QED BY <1>3, <2>1, <2>2, <2>3 DEF Listing, newFactoidBlock
<1>4. CASE newDirectoryBlock
  <2>1. /\ nextHeight'.d = nextHeight.d + 1 /\ dNext'.e = <<>>
        /\ pc = "entry" /\ pc' = "serve" /\ dDB' = Append(dDB, dNext)
        /\ UNCHANGED <<ecDB, aDB, fDB, eDB>>
    BY <1>0, <1>4 DEF newDirectoryBlock, EmptyDBlock, Heights
  <2>2. OpenList'
    BY <2>1 DEF OpenList, Sealing
  <2>3. /\ Len(dDB') = Len(dDB) + 1 /\ dDB'[Len(dDB) + 1] = dNext
        /\ \A i \in DOMAIN dDB : dDB'[i] = dDB[i]
        /\ \A i \in DOMAIN dDB' : i \in DOMAIN dDB \/ i = Len(dDB) + 1
    BY <1>0, <2>1
  <2>4. ASSUME NEW i \in DOMAIN dDB'
        PROVE  /\ Listed(dDB[i])'
               /\ dDB'[i].a.height = i - 1 /\ dDB'[i].f.height = i - 1
               /\ \A j \in DOMAIN dDB'[i].e : dDB'[i].e[j].height = i - 1
    <3>1. CASE i \in DOMAIN dDB
      BY <2>1, <2>3, <3>1 DEF Listing, ListsStoredBlocks, Listed
    <3>2. CASE i = Len(dDB) + 1
      <4>1. dDB'[i] = dNext
        BY <2>3, <3>2
      <4>2. /\ Listed(dNext) /\ dNext.a.height = nextHeight.d
            /\ dNext.f.height = nextHeight.d
            /\ \A j \in DOMAIN dNext.e : dNext.e[j].height = nextHeight.d
        BY <2>1 DEF Listing, OpenList, Listed, Sealing
      <4>3. i - 1 = nextHeight.d
        BY <1>0, <3>2 DEF Listing
      <4> QED BY <2>1, <4>1, <4>2, <4>3 DEF Listed
    <3> QED BY <2>3, <2>4, <3>1, <3>2
  <2>5. ListsStoredBlocks'
    BY <2>4 DEF ListsStoredBlocks
  <2> QED BY <2>1, <2>2, <2>3, <2>5 DEF Listing
<1>5. ASSUME NEW c \in Chains, newEntryBlock(c) PROVE Listing'
  <2>1. /\ pc = "entry" /\ pc' = "entry" /\ eDB \subseteq eDB'
        /\ UNCHANGED <<nextHeight, dDB, ecDB, aDB, fDB>>
    BY <1>5 DEF newEntryBlock, VisitChain, StoreEntryBlock
  <2>2. ListsStoredBlocks'
    BY <2>1, ListingKept DEF Listing
  <2>3. CASE eNext[c].body = <<>>
    <3>1. dNext' = dNext
      BY <1>5, <2>3 DEF newEntryBlock
    <3> QED BY <2>1, <2>2, <3>1 DEF Listing, OpenList
  <2>4. CASE eNext[c].body # <<>>
    <3> DEFINE block == [chain |-> IF eNext[c].own THEN c ELSE ZeroChain,
                         seq |-> eNext[c].seq, height |-> nextHeight.d,
                         body |-> eNext[c].body]
    <3>1. /\ dNext' = [dNext EXCEPT !.e = Append(@, block)]
          /\ eDB' = eDB \cup {block}
      BY <1>5, <2>4 DEF newEntryBlock, StoreEntryBlock
    <3>2. block \in eDB' /\ block.height = nextHeight.d
      BY <3>1
    <3> HIDE DEF block
    <3>3. /\ dNext'.ec = dNext.ec /\ dNext'.a = dNext.a /\ dNext'.f = dNext.f
          /\ dNext'.e = Append(dNext.e, block) /\ dNext.e \in Seq(EBlocks)
      BY <1>0, <3>1 DEF OpenDBlocks
    <3>4. \A j \in DOMAIN dNext'.e :
             (j \in DOMAIN dNext.e /\ dNext'.e[j] = dNext.e[j])
             \/ dNext'.e[j] = block
      BY <3>3
    <3>5. \A j \in DOMAIN dNext'.e :
             dNext'.e[j] \in eDB' /\ dNext'.e[j].height = nextHeight.d
      BY <2>1, <3>2, <3>4 DEF Listing, OpenList
    <3>6. OpenList'
      BY <2>1, <3>3, <3>5 DEF Listing, OpenList
    <3> QED BY <2>1, <2>2, <3>6 DEF Listing
  <2> QED BY <2>3, <2>4
<1> QED BY <1>1, <1>2, <1>3, <1>4, <1>5 DEF SealBlock

\* The steps outside buildBlocks and the start store no block.
LEMMA QuietSteps ==
    ASSUME \/ Serve \/ EndOfMinute \/ EndOfMinute10 \/ EndProcessList
           \/ \E e \in Entries : processFromOrphanPool(e)
           \/ BuildItem
    PROVE  /\ UNCHANGED <<dNext, nextHeight, dDB, ecDB, aDB, fDB, eDB>>
           /\ pc' \in Collecting \cup Writing \cup {"panic"}
<1>1. CASE Serve
  BY <1>1 DEF Serve, processCommitEntry, processCommitChain, RefuseCommit,
     processBuyEntryCredit, RefuseFactoidTX, processRevealEntry, open, disk,
     Collecting
<1>2. CASE EndOfMinute \/ EndOfMinute10 \/ EndProcessList
  BY <1>2 DEF EndOfMinute, EndOfMinute10, EndProcessList, open, disk,
     Collecting, Writing
<1>3. ASSUME NEW e \in Entries, processFromOrphanPool(e)
      PROVE  /\ UNCHANGED <<dNext, nextHeight, dDB, ecDB, aDB, fDB, eDB>>
             /\ pc' \in Collecting
  BY <1>3 DEF processFromOrphanPool, open, disk, Collecting
<1>4. CASE BuildItem
  BY <1>4 DEF BuildItem, buildCommit, buildIncreaseBalance, buildRevealEntry,
     buildRevealChain, buildFirstEntry, buildEndOfMinute, Building, open,
     disk, Writing
<1> QED BY <1>1, <1>2, <1>3, <1>4

LEMMA ListingStep ==
    ASSUME TypeInv, Listing, [Next]_vars PROVE Listing'
<1>1. CASE \/ Serve \/ EndOfMinute \/ EndOfMinute10 \/ EndProcessList
           \/ \E e \in Entries : processFromOrphanPool(e)
           \/ BuildItem
  <2>1. pc' \notin Sealing
    BY <1>1, QuietSteps DEF Sealing, Collecting, Writing
  <2> QED BY <1>1, <2>1, QuietSteps, QuietListing
<1>2. CASE SealBlock
  BY <1>2, SealListing
<1>3. CASE initProcessor
  <2>1. /\ nextHeight'.d = Len(dDB) /\ pc' \in {"serve", "panic"}
        /\ dNext'.e = <<>>
        /\ UNCHANGED <<dDB, ecDB, aDB, fDB, eDB>>
    BY <1>3 DEF initProcessor, EmptyDBlock, disk
  <2>2. ListsStoredBlocks'
    BY <2>1, ListingKept DEF Listing
  <2>3. OpenList'
    BY <2>1 DEF OpenList, Sealing
  <2> QED BY <2>1, <2>2, <2>3 DEF Listing
<1>4. CASE UNCHANGED vars
  BY <1>4, QuietListing DEF vars, open, disk
<1> QED BY <1>1, <1>2, <1>3, <1>4, NextGroups

\* An entry is stored before it enters an open block, and never leaves.
BodiesStored ==
    /\ \A c \in Chains : EntriesStored(eNext[c])
    /\ \A b \in eDB : EntriesStored(b)

LEMMA InitBodies == Init => BodiesStored
BY DEF Init, BodiesStored, EntriesStored, NewEBlock

LEMMA EntriesKept ==
    ASSUME entryDB \subseteq entryDB', NEW b, EntriesStored(b)
    PROVE  EntriesStored(b)'
BY DEF EntriesStored

\* A step that leaves the open bodies or empties them, and stores no block.
LEMMA QuietBodies ==
    ASSUME BodiesStored, eDB' = eDB, entryDB \subseteq entryDB',
           \A c \in Chains : eNext'[c].body = eNext[c].body
                               \/ eNext'[c].body = <<>>
    PROVE  BodiesStored'
BY DEF BodiesStored, EntriesStored

\* The body of a chain after an entry that is stored, or after a marker.
LEMMA AppendBody ==
    ASSUME NEW body \in Seq(EBEntries), NEW entry, NEW longer,
           longer = Append(body, entry), entry.entry \in entryDB' \cup {None},
           entryDB \subseteq entryDB',
           \A i \in DOMAIN body : body[i].entry \in entryDB \cup {None}
    PROVE  \A i \in DOMAIN longer : longer[i].entry \in entryDB' \cup {None}
<1>1. /\ DOMAIN longer = 1 .. (Len(body) + 1)
      /\ \A i \in 1 .. Len(body) : longer[i] = body[i]
      /\ longer[Len(body) + 1] = entry /\ DOMAIN body = 1 .. Len(body)
      /\ Len(body) \in Nat
  OBVIOUS
<1>2. \A i \in DOMAIN longer : i \in DOMAIN body \/ i = Len(body) + 1
  BY <1>1
<1> QED BY <1>1, <1>2

LEMMA EntryBodies ==
    ASSUME TypeInv, BodiesStored, buildRevealEntry \/ buildFirstEntry
    PROVE  BodiesStored'
<1> DEFINE item == plist[idx]
           entry == EBEntry(item.msg, item.by, item.at)
<1>1. /\ entryDB' = entryDB \cup {item.msg} /\ eDB' = eDB
      /\ eNext' = [eNext EXCEPT ![ChainOf[item.msg]].body = Append(@, entry)]
  BY DEF buildRevealEntry, buildFirstEntry, AddEBEntry
<1>2. entry.entry \in entryDB'
  BY <1>1 DEF EBEntry
<1> HIDE DEF item, entry
<1>3. ASSUME NEW c \in Chains PROVE EntriesStored(eNext[c])'
  <2>1. eNext[c].body \in Seq(EBEntries) /\ eNext \in [Chains -> OpenEBlocks]
    BY DEF TypeInv, TypeOK, OpenEBlocks
  <2>2. CASE c = ChainOf[item.msg]
    <3>1. eNext'[c].body = Append(eNext[c].body, entry)
      BY <1>1, <2>1, <2>2 DEF OpenEBlocks
    <3>2. \A i \in DOMAIN eNext[c].body : eNext[c].body[i].entry \in entryDB \cup {None}
      BY DEF BodiesStored, EntriesStored
    <3> QED BY <1>1, <1>2, <2>1, <3>1, <3>2, AppendBody DEF EntriesStored
  <2>3. CASE c # ChainOf[item.msg]
    BY <1>1, <2>1, <2>3 DEF BodiesStored, EntriesStored
  <2> QED BY <2>2, <2>3
<1> QED BY <1>1, <1>3, EntriesKept DEF BodiesStored

LEMMA MinuteBodies ==
    ASSUME TypeInv, BodiesStored, buildEndOfMinute PROVE BodiesStored'
<1>1. entryDB' = entryDB /\ eDB' = eDB
  BY DEF buildEndOfMinute, disk
<1>2. ASSUME NEW c \in Chains PROVE EntriesStored(eNext[c])'
  <2>1. eNext[c].body \in Seq(EBEntries) /\ eNext[c] \in OpenEBlocks
    BY DEF TypeInv, TypeOK, OpenEBlocks
  <2>2. PICK m : eNext'[c] = IF c \in TouchedChains(idx)
                             THEN [eNext[c] EXCEPT !.body =
                                      Append(@, EBEntry(None, None, m))]
                             ELSE eNext[c]
    BY DEF buildEndOfMinute
  <2>3. EntriesStored(eNext[c])
    BY DEF BodiesStored
  <2>4. CASE c \in TouchedChains(idx)
    <3>1. eNext'[c].body = Append(eNext[c].body, EBEntry(None, None, m))
      BY <2>1, <2>2, <2>4 DEF OpenEBlocks
    <3>2. EBEntry(None, None, m).entry = None
      BY DEF EBEntry
    <3>3. EntriesStored(eNext[c])' = (\A i \in DOMAIN eNext'[c].body :
                 eNext'[c].body[i].entry \in entryDB' \cup {None})
      BY DEF EntriesStored
    <3> QED BY <1>1, <2>1, <2>3, <3>1, <3>2, <3>3, AppendBody DEF EntriesStored
  <2>5. CASE c \notin TouchedChains(idx)
    BY <1>1, <2>2, <2>3, <2>5 DEF EntriesStored
  <2> QED BY <2>4, <2>5
<1> QED BY <1>1, <1>2, EntriesKept DEF BodiesStored

LEMMA SealBodies ==
    ASSUME TypeInv, BodiesStored, NEW c \in Chains, newEntryBlock(c)
    PROVE  BodiesStored'
<1>0. entryDB' = entryDB
  BY DEF newEntryBlock, VisitChain
<1>1. CASE eNext[c].body = <<>>
  BY <1>0, <1>1, QuietBodies DEF newEntryBlock
<1>2. CASE eNext[c].body # <<>>
  <2> DEFINE block == [chain |-> IF eNext[c].own THEN c ELSE ZeroChain,
                       seq |-> eNext[c].seq, height |-> nextHeight.d,
                       body |-> eNext[c].body]
  <2>1. /\ eDB' = eDB \cup {block}
        /\ eNext' = [eNext EXCEPT ![c] =
                        [own |-> TRUE, seq |-> eNext[c].seq + 1, body |-> <<>>]]
    BY <1>2 DEF newEntryBlock, StoreEntryBlock
  <2>2. EntriesStored(block)
    BY DEF BodiesStored, EntriesStored
  <2> HIDE DEF block
  <2>3. \A d \in Chains : EntriesStored(eNext[d])'
    <3>1. \A d \in Chains : eNext'[d].body = eNext[d].body \/ eNext'[d].body = <<>>
      BY <2>1 DEF TypeInv, TypeOK
    <3> QED BY <1>0, <3>1 DEF BodiesStored, EntriesStored
  <2> QED BY <1>0, <2>1, <2>2, <2>3, EntriesKept DEF BodiesStored
<1> QED BY <1>1, <1>2

\* A reveal adds at most an empty open block.
LEMMA RevealBodies ==
    ASSUME TypeInv, BodiesStored, NEW e \in Entries,
           processRevealEntry(e) \/ processFromOrphanPool(e)
    PROVE  BodiesStored'
<1>1. eDB' = eDB /\ entryDB' = entryDB
  BY DEF processRevealEntry, processFromOrphanPool, disk
<1>2. eNext' = eNext \/ eNext' = [eNext EXCEPT ![ChainOf[e]] = NewEBlock]
  BY DEF processRevealEntry, processFromOrphanPool, AcceptEntry, AcceptChain,
     RegisterOnly, AddChain, chains
<1>3. \A c \in Chains : eNext'[c].body = eNext[c].body \/ eNext'[c].body = <<>>
  BY <1>2 DEF NewEBlock, TypeInv, TypeOK
<1> QED BY <1>1, <1>3, QuietBodies

LEMMA BuildBodies ==
    ASSUME TypeInv, Control, BodiesStored, BuildItem PROVE BodiesStored'
<1>1. CASE buildCommit \/ buildIncreaseBalance
  <2>1. eDB' = eDB /\ entryDB' = entryDB /\ eNext' = eNext
    BY <1>1 DEF buildCommit, buildIncreaseBalance, disk, chains
  <2> QED BY <2>1, QuietBodies
<1>2. CASE buildRevealEntry
  BY <1>2, EntryBodies
<1>3. CASE buildFirstEntry
  BY <1>3, EntryBodies
<1>4. CASE buildRevealChain
  <2>1. /\ eDB' = eDB /\ entryDB' = entryDB
        /\ eNext' = [eNext EXCEPT ![ChainOf[plist[idx].msg]] =
                        initEChainFromDB(ChainOf[plist[idx].msg])]
    BY <1>4 DEF buildRevealChain
  <2>2. \A c : initEChainFromDB(c).body = <<>>
    BY DEF initEChainFromDB
  <2>3. \A c \in Chains : eNext'[c].body = eNext[c].body \/ eNext'[c].body = <<>>
    BY <2>1, <2>2 DEF TypeInv, TypeOK
  <2> QED BY <2>1, <2>3, QuietBodies
<1>5. CASE buildEndOfMinute
  BY <1>5, MinuteBodies
<1> QED BY <1>1, <1>2, <1>3, <1>4, <1>5 DEF BuildItem

LEMMA BodiesStep ==
    ASSUME TypeInv, Control, BodiesStored, [Next]_vars PROVE BodiesStored'
<1>1. CASE \/ \E c \in Commits : \/ processCommitEntry(c) \/ processCommitChain(c)
                               \/ RefuseCommit(c)
           \/ \E t \in Txs : processBuyEntryCredit(t) \/ RefuseFactoidTX(t)
           \/ EndOfMinute \/ EndOfMinute10 \/ EndProcessList
  <2>1. eDB' = eDB /\ entryDB' = entryDB /\ eNext' = eNext
    BY <1>1 DEF processCommitEntry, processCommitChain, RefuseCommit,
       processBuyEntryCredit, RefuseFactoidTX, EndOfMinute, EndOfMinute10,
       EndProcessList, disk, chains
  <2> QED BY <2>1, QuietBodies
<1>2. ASSUME NEW e \in Entries, processRevealEntry(e) \/ processFromOrphanPool(e)
      PROVE  BodiesStored'
  BY <1>2, RevealBodies
<1>3. CASE BuildItem
  BY <1>3, BuildBodies
<1>4. CASE newEntryCreditBlock \/ newAdminBlock \/ newFactoidBlock \/ newDirectoryBlock
  <2>1. eDB' = eDB /\ entryDB' = entryDB /\ eNext' = eNext
    BY <1>4 DEF newEntryCreditBlock, newAdminBlock, newFactoidBlock,
       newDirectoryBlock, chains
  <2> QED BY <2>1, QuietBodies
<1>5. ASSUME NEW c \in Chains, newEntryBlock(c) PROVE BodiesStored'
  BY <1>5, SealBodies
<1>6. CASE initProcessor
  <2>1. eDB' = eDB /\ entryDB' = entryDB
    BY <1>6 DEF initProcessor, disk
  <2>2. \A c \in Chains : eNext'[c].body = <<>>
    BY <1>6 DEF initProcessor, initEChainFromDB, NewEBlock
  <2> QED BY <2>1, <2>2, QuietBodies
<1>7. CASE UNCHANGED vars
  <2>1. eDB' = eDB /\ entryDB' = entryDB /\ eNext' = eNext
    BY <1>7 DEF vars, disk, chains
  <2> QED BY <2>1, QuietBodies
<1>8. Serve => \/ \E c \in Commits : \/ processCommitEntry(c) \/ processCommitChain(c)
                                     \/ RefuseCommit(c)
               \/ \E t \in Txs : processBuyEntryCredit(t) \/ RefuseFactoidTX(t)
               \/ \E e \in Entries : processRevealEntry(e)
  BY DEF Serve
<1> QED BY <1>1, <1>2, <1>3, <1>4, <1>5, <1>6, <1>7, <1>8, NextGroups DEF SealBlock

Directory == Listing /\ BodiesStored

LEMMA InitDirectory == Init => Directory
BY InitListing, InitBodies DEF Directory

LEMMA DirectoryStep ==
    ASSUME TypeInv, Control, Directory, [Next]_vars PROVE Directory'
BY ListingStep, BodiesStep DEF Directory

\* Whatever is written when the process dies, and at whichever point it dies, a
\* stored directory block lists stored blocks of its own height only.
THEOREM DirectoryIsComplete == Spec => []DirectoryListsStoredBlocks
<1>1. Init => IInv /\ Directory
  BY InitType, InitControl, InitLedger, InitDirectory DEF IInv
<1>2. (IInv /\ Directory) /\ [Next]_vars => (IInv /\ Directory)'
  BY TypeStep, ControlStep, LedgerStep, DirectoryStep DEF IInv
<1>3. IInv /\ Directory => DirectoryListsStoredBlocks
  BY DEF Directory, Listing, ListsStoredBlocks, BodiesStored,
     DirectoryListsStoredBlocks, validateDBlock, Listed
<1> QED BY <1>1, <1>2, <1>3, PTL DEF Spec

----------------------------------------------------------------------------
\* Minutes.  A reveal is accepted in some minute, and its entry is built into
\* an open block much later, item by item.  The invariant says what a built
\* entry waits for: the next end of minute of the process list, which carries
\* the minute of the reveal and reaches its chain.  All of it is stated for
\* any body, list and index, so that the lemmas are about values and not
\* about states.

Marked(body, i) ==
    \E j \in DOMAIN body :
        /\ j > i
        /\ body[j].entry = None /\ body[j].at = body[i].at
        /\ \A l \in i .. (j - 1) : body[l].entry # None

\* Every entry of the body is followed by its marker.
Closed(body) == \A i \in DOMAIN body : body[i].entry = None \/ Marked(body, i)

\* No end of minute lies between item n and item i of the list.
SameMinute(list, n, i) == \A l \in (n + 1) .. (i - 1) : list[l].type # "EOM"

\* Chain c was revealed into, in minute at, after the last end of minute
\* before item i.
Revealed(list, i, c, at) ==
    \E n \in 1 .. (i - 1) :
        /\ list[n].type \in Reveals /\ SameMinute(list, n, i)
        /\ ChainOf[list[n].msg] = c /\ list[n].at = at

\* The entries of c's open block that have no marker yet are its last ones,
\* and wait for the end of their minute.
OpenBody(body, list, i, c) ==
    \A k \in DOMAIN body :
        \/ body[k].entry = None
        \/ Marked(body, k)
        \/ /\ \A l \in k .. Len(body) : body[l].entry # None
           /\ Revealed(list, i, c, body[k].at)

\* An end of minute carries the minute of the reveals it ends.
MinutesListed(list) ==
    \A n, j \in DOMAIN list :
        /\ n < j /\ list[n].type \in Reveals /\ list[j].type = "EOM"
        /\ SameMinute(list, n, j)
        => list[n].at = list[j].at

\* The reveals after the last end of minute carry minute m.
MinuteOpen(list, m) ==
    \A n \in DOMAIN list :
        list[n].type \in Reveals /\ SameMinute(list, n, Len(list) + 1)
            => list[n].at = m

Minuted ==
    /\ EntriesKeepTheirMinute
    /\ pc \in Collecting \cup Sealing => \A c \in Chains : Closed(eNext[c].body)
    /\ pc \in Collecting \cup Writing => MinutesListed(plist)
    /\ pc \in Collecting => MinuteOpen(plist, minute)
    /\ pc = "orphans" => minute = LastMinute
    /\ pc \in Writing =>
          /\ idx <= Len(plist) + 1
          /\ plist # <<>> /\ plist[Len(plist)].type = "EOM"
          /\ \A c \in Chains : OpenBody(eNext[c].body, plist, idx, c)

LEMMA MinutesOfBlocks ==
    EntriesKeepTheirMinute <=> \A b \in eDB : Closed(b.body)
BY DEF EntriesKeepTheirMinute, Closed, Marked

LEMMA EmptyClosed == Closed(<<>>)
BY DEF Closed

\* A closed body waits for nothing.
LEMMA ClosedOpen ==
    ASSUME NEW body, Closed(body)
    PROVE  \A list, i, c : OpenBody(body, list, i, c)
BY DEF Closed, OpenBody

\* A marker stays where it is when the body grows.
LEMMA MarkedKept ==
    ASSUME NEW body \in Seq(EBEntries), NEW x \in EBEntries,
           NEW i \in DOMAIN body, Marked(body, i)
    PROVE  Marked(Append(body, x), i)
<1> DEFINE longer == Append(body, x)
<1>1. PICK j \in DOMAIN body :
          /\ j > i
          /\ body[j].entry = None /\ body[j].at = body[i].at
          /\ \A l \in i .. (j - 1) : body[l].entry # None
  BY DEF Marked
<1>2. j \in DOMAIN longer /\ \A l \in i .. j : longer[l] = body[l]
  OBVIOUS
<1>3. i \in i .. j /\ j \in i .. j /\ \A l \in i .. (j - 1) : l \in i .. j
  BY <1>1
<1> HIDE DEF longer
<1>4. Marked(longer, i)
  BY <1>1, <1>2, <1>3 DEF Marked
<1> QED BY <1>4 DEF longer

\* Building an item that ends no minute.
LEMMA RevealedNext ==
    ASSUME NEW list \in Seq(Items), NEW i \in 1 .. Len(list),
           list[i].type # "EOM"
    PROVE  \A c, at : Revealed(list, i, c, at) => Revealed(list, i + 1, c, at)
<1> SUFFICES ASSUME NEW c, NEW at, Revealed(list, i, c, at)
             PROVE  Revealed(list, i + 1, c, at)
  OBVIOUS
<1>1. PICK n \in 1 .. (i - 1) :
          /\ list[n].type \in Reveals /\ SameMinute(list, n, i)
          /\ ChainOf[list[n].msg] = c /\ list[n].at = at
  BY DEF Revealed
<1>2. n \in 1 .. ((i + 1) - 1)
  OBVIOUS
<1>3. SameMinute(list, n, i + 1)
  BY <1>1 DEF SameMinute
<1> QED BY <1>1, <1>2, <1>3 DEF Revealed

LEMMA BodyNext ==
    ASSUME NEW list \in Seq(Items), NEW i \in 1 .. Len(list),
           list[i].type # "EOM", NEW body, NEW c, OpenBody(body, list, i, c)
    PROVE  OpenBody(body, list, i + 1, c)
BY RevealedNext DEF OpenBody

\* Building a reveal: its entry waits for the end of the minute.
LEMMA BodyReveal ==
    ASSUME NEW list \in Seq(Items), NEW i \in 1 .. Len(list),
           list[i].type \in Reveals, NEW body \in Seq(EBEntries), NEW c,
           c = ChainOf[list[i].msg], OpenBody(body, list, i, c),
           NEW x \in EBEntries, x.entry # None, x.at = list[i].at
    PROVE  OpenBody(Append(body, x), list, i + 1, c)
<1> DEFINE longer == Append(body, x)
<1>1. list[i].type # "EOM"
  BY DEF Reveals
<1>2. /\ Len(longer) = Len(body) + 1 /\ Len(body) \in Nat
      /\ DOMAIN body = 1 .. Len(body) /\ DOMAIN longer = 1 .. Len(longer)
      /\ \A l \in DOMAIN body : longer[l] = body[l]
      /\ longer[Len(body) + 1] = x
  OBVIOUS
<1>3. Revealed(list, i + 1, c, x.at)
  <2>1. SameMinute(list, i, i + 1)
    BY DEF SameMinute
  <2>2. i \in 1 .. ((i + 1) - 1)
    OBVIOUS
  <2> QED BY <2>1, <2>2 DEF Revealed
<1> HIDE DEF longer
<1>4. ASSUME NEW k \in DOMAIN longer
      PROVE  \/ longer[k].entry = None
             \/ Marked(longer, k)
             \/ /\ \A l \in k .. Len(longer) : longer[l].entry # None
                /\ Revealed(list, i + 1, c, longer[k].at)
  <2>1. CASE k = Len(body) + 1
    <3>1. \A l \in k .. Len(longer) : l = k
      BY <1>2, <2>1
    <3> QED BY <1>2, <1>3, <2>1, <3>1
  <2>2. CASE k \in DOMAIN body
    <3>1. CASE body[k].entry = None
      BY <1>2, <2>2, <3>1
    <3>2. CASE Marked(body, k)
      BY <2>2, <3>2, MarkedKept DEF longer
    <3>3. CASE /\ \A l \in k .. Len(body) : body[l].entry # None
               /\ Revealed(list, i, c, body[k].at)
      <4>1. Revealed(list, i + 1, c, longer[k].at)
        BY <1>1, <1>2, <2>2, <3>3, RevealedNext
      <4>2. \A l \in k .. Len(longer) :
               (l \in k .. Len(body) /\ l \in DOMAIN body) \/ l = Len(body) + 1
        BY <1>2, <2>2
      <4> QED BY <1>2, <3>3, <4>1, <4>2
    <3> QED BY <2>2, <3>1, <3>2, <3>3 DEF OpenBody
  <2> QED BY <1>2, <1>4, <2>1, <2>2
<1>5. OpenBody(longer, list, i + 1, c)
  BY <1>4 DEF OpenBody
<1> QED BY <1>5 DEF longer

\* The minute an entry waits for is the one the next end of minute carries.
LEMMA AwaitedMinute ==
    ASSUME NEW list \in Seq(Items), NEW i \in 1 .. Len(list),
           list[i].type = "EOM", MinutesListed(list),
           NEW c, NEW at, Revealed(list, i, c, at)
    PROVE  at = list[i].at
<1>1. PICK n \in 1 .. (i - 1) :
          /\ list[n].type \in Reveals /\ SameMinute(list, n, i)
          /\ ChainOf[list[n].msg] = c /\ list[n].at = at
  BY DEF Revealed
<1>2. n \in DOMAIN list /\ i \in DOMAIN list /\ n < i
  OBVIOUS
<1> QED BY <1>1, <1>2 DEF MinutesListed

\* Building an end of minute closes the open blocks it reaches.
LEMMA BodyMinute ==
    ASSUME NEW list \in Seq(Items), NEW i \in 1 .. Len(list),
           list[i].type = "EOM", MinutesListed(list),
           NEW body \in Seq(EBEntries), NEW c, OpenBody(body, list, i, c),
           NEW x \in EBEntries, x.entry = None, x.at = list[i].at
    PROVE  Closed(Append(body, x))
<1> DEFINE longer == Append(body, x)
<1>1. /\ Len(longer) = Len(body) + 1 /\ Len(body) \in Nat
      /\ DOMAIN body = 1 .. Len(body) /\ DOMAIN longer = 1 .. Len(longer)
      /\ \A l \in DOMAIN body : longer[l] = body[l]
      /\ longer[Len(body) + 1] = x
  OBVIOUS
<1> HIDE DEF longer
<1>2. ASSUME NEW k \in DOMAIN longer
      PROVE  longer[k].entry = None \/ Marked(longer, k)
  <2>1. CASE k = Len(body) + 1
    BY <1>1, <2>1
  <2>2. CASE k \in DOMAIN body
    <3>1. CASE body[k].entry = None
      BY <1>1, <2>2, <3>1
    <3>2. CASE Marked(body, k)
      BY <2>2, <3>2, MarkedKept DEF longer
    <3>3. CASE /\ \A l \in k .. Len(body) : body[l].entry # None
               /\ Revealed(list, i, c, body[k].at)
      <4>1. body[k].at = list[i].at
        BY <3>3, AwaitedMinute
      <4> DEFINE j == Len(body) + 1
      <4>2. j \in DOMAIN longer /\ j > k
        BY <1>1, <2>2
      <4>3. \A l \in k .. (j - 1) : l \in k .. Len(body) /\ l \in DOMAIN body
        BY <1>1, <2>2
      <4>4. \A l \in k .. (j - 1) : longer[l].entry # None
        BY <1>1, <3>3, <4>3
      <4>5. longer[j].entry = None /\ longer[j].at = longer[k].at
        BY <1>1, <2>2, <4>1
      <4> HIDE DEF j
      <4> QED BY <4>2, <4>4, <4>5 DEF Marked
    <3> QED BY <2>2, <3>1, <3>2, <3>3 DEF OpenBody
  <2> QED BY <1>1, <1>2, <2>1, <2>2
<1>3. Closed(longer)
  BY <1>2 DEF Closed
<1> QED BY <1>3 DEF longer

\* A chain that nothing waits for is closed already.
LEMMA BodyUntouched ==
    ASSUME NEW body, NEW list, NEW i, NEW c, OpenBody(body, list, i, c),
           \A at : ~Revealed(list, i, c, at)
    PROVE  Closed(body)
BY DEF OpenBody, Closed

\* After the last end of minute nothing waits.
LEMMA BodyDone ==
    ASSUME NEW list \in Seq(Items), list # <<>>,
           list[Len(list)].type = "EOM",
           NEW body, NEW c, OpenBody(body, list, Len(list) + 1, c)
    PROVE  Closed(body)
<1>1. ASSUME NEW at, Revealed(list, Len(list) + 1, c, at) PROVE FALSE
  <2>1. PICK n \in 1 .. ((Len(list) + 1) - 1) :
            list[n].type \in Reveals /\ SameMinute(list, n, Len(list) + 1)
    BY <1>1 DEF Revealed
  <2>2. n # Len(list)
    BY <2>1 DEF Reveals
  <2>3. Len(list) \in (n + 1) .. ((Len(list) + 1) - 1)
    BY <2>1, <2>2
  <2> QED BY <2>1, <2>3 DEF SameMinute
<1> QED BY <1>1, BodyUntouched

\* A longer process list: a reveal carries the running minute, and so does
\* the end of minute that ends it.
LEMMA AppendMinutes ==
    ASSUME NEW list \in Seq(Items), NEW item \in Items, NEW m,
           MinutesListed(list), MinuteOpen(list, m),
           item.type \in Reveals \cup {"EOM"} => item.at = m
    PROVE  LET longer == Append(list, item) IN
           /\ MinutesListed(longer)
           /\ item.type # "EOM" => MinuteOpen(longer, m)
           /\ item.type = "EOM" => \A k : MinuteOpen(longer, k)
<1> DEFINE longer == Append(list, item)
<1>1. /\ Len(longer) = Len(list) + 1 /\ Len(list) \in Nat
      /\ DOMAIN list = 1 .. Len(list) /\ DOMAIN longer = 1 .. Len(longer)
      /\ \A l \in DOMAIN list : longer[l] = list[l]
      /\ longer[Len(list) + 1] = item
  OBVIOUS
<1> HIDE DEF longer
<1>2. ASSUME NEW n \in DOMAIN list, NEW j \in 1 .. (Len(list) + 1),
             SameMinute(longer, n, j)
      PROVE  SameMinute(list, n, j)
  <2>1. \A l \in (n + 1) .. (j - 1) : l \in DOMAIN list
    BY <1>1
  <2> QED BY <1>1, <1>2, <2>1 DEF SameMinute
<1>3. MinutesListed(longer)
  <2> SUFFICES ASSUME NEW n \in DOMAIN longer, NEW j \in DOMAIN longer, n < j,
                      longer[n].type \in Reveals, longer[j].type = "EOM",
                      SameMinute(longer, n, j)
               PROVE  longer[n].at = longer[j].at
    BY DEF MinutesListed
  <2>1. n \in DOMAIN list /\ j \in 1 .. (Len(list) + 1)
    BY <1>1
  <2>2. SameMinute(list, n, j) /\ longer[n] = list[n]
    BY <1>1, <1>2, <2>1
  <2>3. CASE j \in DOMAIN list
    BY <1>1, <2>1, <2>2, <2>3 DEF MinutesListed
  <2>4. CASE j = Len(list) + 1
    BY <1>1, <2>1, <2>2, <2>4 DEF MinuteOpen
  <2> QED BY <1>1, <2>1, <2>3, <2>4
<1>4. ASSUME item.type # "EOM" PROVE MinuteOpen(longer, m)
  <2> SUFFICES ASSUME NEW n \in DOMAIN longer, longer[n].type \in Reveals,
                      SameMinute(longer, n, Len(longer) + 1)
               PROVE  longer[n].at = m
    BY DEF MinuteOpen
  <2>1. CASE n = Len(list) + 1
    BY <1>1, <2>1
  <2>2. CASE n \in DOMAIN list
    <3>1. \A l \in (n + 1) .. ((Len(list) + 1) - 1) :
             l \in (n + 1) .. ((Len(longer) + 1) - 1)
      BY <1>1, <2>2
    <3>2. SameMinute(longer, n, Len(list) + 1)
      BY <3>1 DEF SameMinute
    <3>3. SameMinute(list, n, Len(list) + 1)
      BY <1>1, <1>2, <2>2, <3>2
    <3> QED BY <1>1, <2>2, <3>3 DEF MinuteOpen
  <2> QED BY <1>1, <2>1, <2>2
<1>5. ASSUME item.type = "EOM", NEW k PROVE MinuteOpen(longer, k)
  <2> SUFFICES ASSUME NEW n \in DOMAIN longer, longer[n].type \in Reveals,
                      SameMinute(longer, n, Len(longer) + 1)
               PROVE  FALSE
    BY DEF MinuteOpen
  <2>1. n # Len(list) + 1
    BY <1>1, <1>5 DEF Reveals
  <2>2. Len(list) + 1 \in (n + 1) .. ((Len(longer) + 1) - 1)
    BY <1>1, <2>1
  <2> QED BY <1>1, <1>5, <2>2 DEF SameMinute
<1> QED BY <1>3, <1>4, <1>5 DEF longer

LEMMA EmptyMinutes == MinutesListed(<<>>) /\ \A m : MinuteOpen(<<>>, m)
BY DEF MinutesListed, MinuteOpen

LEMMA InitMinuted == Init => Minuted
<1> SUFFICES ASSUME Init PROVE Minuted
  OBVIOUS
<1>1. EntriesKeepTheirMinute
  BY DEF Init, EntriesKeepTheirMinute
<1>2. \A c \in Chains : Closed(eNext[c].body)
  BY EmptyClosed DEF Init, NewEBlock
<1>3. pc = "serve" /\ plist = <<>>
  BY DEF Init
<1> QED BY <1>1, <1>2, <1>3, EmptyMinutes DEF Minuted, Writing

\* A step that accepts an item, in the minute it is accepted in.
LEMMA CollectMinuted ==
    ASSUME TypeInv, Minuted, pc \in Collecting, pc' = pc,
           NEW item, plist' = Append(plist, item), plist' \in Seq(Items),
           item.type \in Reveals => item.at = minute, item.type # "EOM",
           UNCHANGED <<minute, eDB>>,
           \A c \in Chains : eNext'[c].body \in {eNext[c].body, <<>>}
    PROVE  Minuted'
<1>1. item \in Items /\ plist \in Seq(Items)
  <2>1. plist \in Seq(Items)
    BY DEF TypeInv, TypeOK
  <2>2. item = plist'[Len(plist) + 1] /\ Len(plist) + 1 \in DOMAIN plist'
    BY <2>1
  <2> QED BY <2>1, <2>2
<1>2. MinutesListed(plist') /\ MinuteOpen(plist', minute)
  BY <1>1, AppendMinutes DEF Minuted
<1>3. \A c \in Chains : Closed(eNext'[c].body)
  BY EmptyClosed DEF Minuted
<1>4. EntriesKeepTheirMinute'
  BY DEF Minuted, EntriesKeepTheirMinute
<1>5. pc' \notin Writing
  BY DEF Writing, Collecting
<1> QED BY <1>2, <1>3, <1>4, <1>5 DEF Minuted

\* A step that leaves the list and the clock alone.
LEMMA QuietMinuted ==
    ASSUME Minuted, pc \in Collecting, pc' = pc,
           UNCHANGED <<minute, plist, eDB>>,
           \A c \in Chains : eNext'[c].body \in {eNext[c].body, <<>>}
    PROVE  Minuted'
<1>1. \A c \in Chains : Closed(eNext'[c].body)
  BY EmptyClosed DEF Minuted
<1>2. EntriesKeepTheirMinute'
  BY DEF Minuted, EntriesKeepTheirMinute
<1>3. pc' \notin Writing
  BY DEF Writing, Collecting
<1> QED BY <1>1, <1>2, <1>3 DEF Minuted

\* What the reveal outcomes do to the open blocks and the list.
LEMMA RevealOutcome ==
    ASSUME TypeInv, NEW e \in Entries,
           \/ AcceptEntry(e) \/ AcceptChain(e) \/ RegisterOnly(e)
           \/ UNCHANGED <<plist, commitEntryMap, commitChainMap, chains>>
    PROVE  /\ \A c \in Chains : eNext'[c].body \in {eNext[c].body, <<>>}
           /\ \/ UNCHANGED plist
              \/ \E type \in Reveals, by \in Commits \cup {None} :
                    plist' = Append(plist, Item(type, e, by, minute, eCreditMap))
<1>1. ASSUME AddChain(ChainOf[e])
      PROVE  \A c \in Chains : eNext'[c].body \in {eNext[c].body, <<>>}
  BY <1>1 DEF AddChain, NewEBlock, TypeInv, TypeOK
<1>2. CASE AcceptEntry(e)
  BY <1>2 DEF AcceptEntry, ListMessage, AddMyProcessListItem, Reveals, chains,
     TypeInv, TypeOK
<1>3. CASE AcceptChain(e)
  BY <1>1, <1>3 DEF AcceptChain, ListMessage, AddMyProcessListItem, Reveals,
     TypeInv, TypeOK
<1>4. CASE RegisterOnly(e)
  BY <1>1, <1>4 DEF RegisterOnly
<1>5. CASE UNCHANGED <<plist, commitEntryMap, commitChainMap, chains>>
  BY <1>5 DEF chains
<1> QED BY <1>2, <1>3, <1>4, <1>5

LEMMA RevealMinuted ==
    ASSUME TypeInv, Minuted, NEW e \in Entries, pc \in Collecting, pc' = pc,
           \/ AcceptEntry(e) \/ AcceptChain(e) \/ RegisterOnly(e)
           \/ UNCHANGED <<plist, commitEntryMap, commitChainMap, chains>>,
           plist' \in Seq(Items), UNCHANGED <<minute, eDB>>
    PROVE  Minuted'
<1>1. \A c \in Chains : eNext'[c].body \in {eNext[c].body, <<>>}
  BY RevealOutcome
<1>2. CASE UNCHANGED plist
  BY <1>1, <1>2, QuietMinuted
<1>3. ASSUME NEW type \in Reveals, NEW by \in Commits \cup {None},
             plist' = Append(plist, Item(type, e, by, minute, eCreditMap))
      PROVE  Minuted'
  <2> DEFINE item == Item(type, e, by, minute, eCreditMap)
  <2>1. item.type \in Reveals /\ item.at = minute /\ item.type # "EOM"
    BY <1>3 DEF Item, Reveals
  <2>2. plist' = Append(plist, item)
    BY <1>3
  <2> HIDE DEF item
  <2> QED BY <1>1, <2>1, <2>2, CollectMinuted
<1> QED BY <1>2, <1>3, RevealOutcome

LEMMA ServeMinuted ==
    ASSUME TypeInv, TypeInv', Minuted, Serve PROVE Minuted'
<1>0. plist' \in Seq(Items)
  BY DEF TypeInv, TypeOK
<1>1. ASSUME NEW c \in Commits, processCommitEntry(c) \/ processCommitChain(c)
      PROVE  Minuted'
  <2> DEFINE item == Item(CommitMsg[c].kind, c, None, 0, eCreditMap')
  <2>1. item.type \in CommitKinds
    BY ConstantTypes DEF Item
  <2>2. /\ plist' = Append(plist, item) /\ pc = "serve" /\ pc' = pc
        /\ UNCHANGED <<minute, eDB, eNext>>
    BY <1>1 DEF processCommitEntry, processCommitChain, ChargeCommit,
       ListMessage, AddMyProcessListItem, chains, disk
  <2> HIDE DEF item
  <2>3. item.type \notin Reveals \cup {"EOM"}
    BY <2>1 DEF CommitKinds, Reveals
  <2> QED BY <1>0, <2>2, <2>3, CollectMinuted DEF Collecting
<1>2. ASSUME NEW t \in Txs, processBuyEntryCredit(t) PROVE Minuted'
  <2> DEFINE item == Item("factoidTX", t, None, 0, eCreditMap')
  <2>1. item.type \notin Reveals \cup {"EOM"}
    BY DEF Item, Reveals
  <2>2. /\ plist' = Append(plist, item) /\ pc = "serve" /\ pc' = pc
        /\ UNCHANGED <<minute, eDB, eNext>>
    BY <1>2 DEF processBuyEntryCredit, ListMessage, AddMyProcessListItem,
       chains, disk
  <2> HIDE DEF item
  <2> QED BY <1>0, <2>1, <2>2, CollectMinuted DEF Collecting
<1>3. ASSUME \/ \E c \in Commits : RefuseCommit(c)
             \/ \E t \in Txs : RefuseFactoidTX(t)
      PROVE  Minuted'
  <2>1. /\ pc = "serve" /\ pc' = pc
        /\ UNCHANGED <<minute, plist, eDB, eNext>>
    BY <1>3 DEF RefuseCommit, RefuseFactoidTX, chains, ledger, disk
  <2> QED BY <2>1, QuietMinuted DEF Collecting
<1>4. ASSUME NEW e \in Entries, processRevealEntry(e) PROVE Minuted'
  <2>1. /\ pc = "serve" /\ pc' = pc /\ UNCHANGED <<minute, eDB>>
        /\ \/ AcceptEntry(e) \/ AcceptChain(e) \/ RegisterOnly(e)
           \/ UNCHANGED <<plist, commitEntryMap, commitChainMap, chains>>
    BY <1>4 DEF processRevealEntry, disk
  <2> QED BY <1>0, <2>1, RevealMinuted DEF Collecting
<1> QED BY <1>1, <1>2, <1>3, <1>4 DEF Serve

\* The ends of minute.
LEMMA ClockMinuted ==
    ASSUME TypeInv, Ledger, Minuted,
           EndOfMinute \/ EndOfMinute10 \/ EndProcessList
    PROVE  Minuted'
<1>0. plist \in Seq(Items) /\ minute \in Minutes
  BY DEF TypeInv, TypeOK
<1> DEFINE item == Item("EOM", None, None, minute, eCreditMap)
<1>1. item \in Items /\ item.type = "EOM" /\ item.at = minute
  BY <1>0 DEF Item, Items, TypeInv, TypeOK
<1>2. CASE EndOfMinute
  <2>1. /\ pc = "serve" /\ pc' = "serve" /\ plist' = Append(plist, item)
        /\ UNCHANGED <<eDB, eNext>>
    BY <1>2 DEF EndOfMinute, AddMyProcessListItem, chains, disk
  <2> HIDE DEF item
  <2>2. MinutesListed(plist') /\ MinuteOpen(plist', minute')
    BY <1>0, <1>1, <2>1, AppendMinutes DEF Minuted, Collecting
  <2>3. EntriesKeepTheirMinute'
    BY <2>1 DEF Minuted, EntriesKeepTheirMinute
  <2> QED BY <2>1, <2>2, <2>3 DEF Minuted, Writing, Collecting
<1>3. CASE EndOfMinute10
  <2>1. /\ pc = "serve" /\ pc' = "orphans" /\ minute = LastMinute
        /\ UNCHANGED <<eDB, eNext, plist, minute>>
    BY <1>3 DEF EndOfMinute10, chains, ledger, disk
  <2>2. EntriesKeepTheirMinute'
    BY <2>1 DEF Minuted, EntriesKeepTheirMinute
  <2> QED BY <2>1, <2>2 DEF Minuted, Writing, Collecting
<1>4. CASE EndProcessList
  <2>1. /\ pc = "orphans" /\ pc' = "build" /\ minute = LastMinute
        /\ plist' = Append(plist, Item("EOM", None, None, LastMinute, eCreditMap))
        /\ UNCHANGED <<eDB, eNext, idx>>
    BY <1>4 DEF EndProcessList, AddMyProcessListItem, chains, disk, Minuted
  <2>2. plist' = Append(plist, item)
    BY <2>1
  <2> HIDE DEF item
  <2>3. MinutesListed(plist')
    BY <1>0, <1>1, <2>1, <2>2, AppendMinutes DEF Minuted, Collecting
  <2>4. EntriesKeepTheirMinute'
    BY <2>1 DEF Minuted, EntriesKeepTheirMinute
  <2>5. /\ Len(plist') = Len(plist) + 1 /\ plist' # <<>>
        /\ plist'[Len(plist')].type = "EOM"
    BY <1>0, <1>1, <2>2
  <2>6. idx' = 1
    BY <2>1 DEF Ledger, Collecting
  <2>7. \A c \in Chains : OpenBody(eNext'[c].body, plist', idx', c)
    BY <2>1, ClosedOpen DEF Minuted, Collecting
  <2>8. idx' <= Len(plist') + 1
    BY <1>0, <2>5, <2>6
  <2> QED BY <2>1, <2>3, <2>4, <2>5, <2>7, <2>8 DEF Minuted, Sealing,
             Collecting, Writing
<1> QED BY <1>2, <1>3, <1>4

\* Building one item, whatever it does to the open entry blocks.
LEMMA WriteMinuted ==
    ASSUME Minuted, pc \in Writing, pc' \in Writing,
           UNCHANGED <<plist, eDB>>, idx' <= Len(plist) + 1,
           \A c \in Chains : OpenBody(eNext'[c].body, plist, idx', c)
    PROVE  Minuted'
<1>1. EntriesKeepTheirMinute'
  BY DEF Minuted, EntriesKeepTheirMinute
<1>2. pc' \notin Collecting \cup Sealing /\ pc' # "orphans"
  BY DEF Writing, Collecting, Sealing
<1> QED BY <1>1, <1>2 DEF Minuted

\* The goroutine has stopped.
LEMMA PanicMinuted ==
    ASSUME Minuted, pc' = "panic", eDB' = eDB PROVE Minuted'
<1>1. EntriesKeepTheirMinute'
  BY DEF Minuted, EntriesKeepTheirMinute
<1> QED BY <1>1 DEF Minuted, Writing, Collecting, Sealing

\* Building a reveal adds its entry to the open block of its chain.
LEMMA EntryMinuted ==
    ASSUME TypeInv, Minuted, pc \in Writing, pc' \in Writing,
           idx <= Len(plist), plist[idx].type \in Reveals, idx' = idx + 1,
           AddEBEntry(ChainOf[plist[idx].msg],
               EBEntry(plist[idx].msg, plist[idx].by, plist[idx].at)),
           UNCHANGED <<plist, eDB>>
    PROVE  Minuted'
<1> DEFINE x == EBEntry(plist[idx].msg, plist[idx].by, plist[idx].at)
<1>1. /\ plist \in Seq(Items) /\ idx \in 1 .. Len(plist)
      /\ Len(plist) \in Nat
  BY DEF TypeInv, TypeOK
<1>2. /\ plist[idx].msg \in Entries /\ ChainOf[plist[idx].msg] \in Chains
      /\ x \in EBEntries
  BY BuiltItem, ConstantTypes DEF Writing
<1>3. x.entry # None /\ x.at = plist[idx].at
  BY <1>2, ConstantTypes DEF EBEntry
<1>4. plist[idx].type # "EOM"
  BY DEF Reveals
<1> DEFINE d == ChainOf[plist[idx].msg]
<1>5. /\ eNext'[d].body = Append(eNext[d].body, x)
      /\ eNext[d].body \in Seq(EBEntries)
      /\ \A c \in Chains : c # d => eNext'[c] = eNext[c]
  BY <1>2 DEF AddEBEntry, TypeInv, TypeOK, OpenEBlocks
<1> HIDE DEF x, d
<1>6. ASSUME NEW c \in Chains
      PROVE  OpenBody(eNext'[c].body, plist, idx', c)
  <2>1. OpenBody(eNext[c].body, plist, idx, c)
    BY DEF Minuted
  <2>2. CASE c = d
    <3>1. OpenBody(Append(eNext[d].body, x), plist, idx + 1, d)
      BY <1>1, <1>2, <1>3, <1>5, <2>1, <2>2, BodyReveal DEF d
    <3> QED BY <1>5, <2>2, <3>1
  <2>3. CASE c # d
    <3>1. OpenBody(eNext[c].body, plist, idx + 1, c)
      BY <1>1, <1>4, <2>1, BodyNext
    <3> QED BY <1>5, <2>3, <3>1
  <2> QED BY <2>2, <2>3
<1>7. idx' <= Len(plist) + 1
  BY <1>1
<1> QED BY <1>6, <1>7, WriteMinuted

LEMMA BuildMinuted ==
    ASSUME TypeInv, Control, Minuted, BuildItem PROVE Minuted'
<1>0. /\ plist \in Seq(Items) /\ idx \in Nat \ {0} /\ Len(plist) \in Nat
      /\ eNext \in [Chains -> OpenEBlocks]
  BY DEF TypeInv, TypeOK
<1>1. CASE buildCommit \/ buildIncreaseBalance
  <2>1. /\ pc = "build" /\ pc' = "build" /\ idx <= Len(plist) /\ idx' = idx + 1
        /\ plist[idx].type \in CommitKinds \cup {"factoidTX"}
        /\ UNCHANGED <<plist, eDB, eNext>>
    BY <1>1 DEF buildCommit, buildIncreaseBalance, Building, chains, ledger,
       disk
  <2>2. plist[idx].type # "EOM" /\ idx \in 1 .. Len(plist)
    BY <1>0, <2>1 DEF CommitKinds
  <2>3. ASSUME NEW c \in Chains
        PROVE  OpenBody(eNext'[c].body, plist, idx', c)
    <3>1. OpenBody(eNext[c].body, plist, idx, c)
      BY <2>1 DEF Minuted, Writing
    <3> QED BY <1>0, <2>1, <2>2, <3>1, BodyNext
  <2>4. idx' <= Len(plist) + 1
    BY <1>0, <2>1
  <2> QED BY <2>1, <2>3, <2>4, WriteMinuted DEF Writing
<1>2. CASE buildRevealEntry \/ buildFirstEntry
  <2>1. /\ pc \in Writing /\ pc' = "build" /\ idx <= Len(plist)
        /\ plist[idx].type \in Reveals /\ idx' = idx + 1
        /\ AddEBEntry(ChainOf[plist[idx].msg],
               EBEntry(plist[idx].msg, plist[idx].by, plist[idx].at))
        /\ UNCHANGED <<plist, eDB>>
    BY <1>2 DEF buildRevealEntry, buildFirstEntry, Building, ledger, Writing,
       Control, Reveals
  <2> QED BY <2>1, EntryMinuted DEF Writing
<1>3. CASE buildRevealChain
  <2> DEFINE d == ChainOf[plist[idx].msg]
  <2>1. /\ pc = "build" /\ pc' \in {"first", "panic"} /\ idx' = idx
        /\ eNext' = [eNext EXCEPT ![d] = initEChainFromDB(d)]
        /\ UNCHANGED <<plist, eDB>>
    BY <1>3 DEF buildRevealChain, Building, ledger
  <2>2. \A c \in Chains : eNext'[c].body \in {eNext[c].body, <<>>}
    BY <1>0, <2>1 DEF initEChainFromDB
  <2>3. \A c \in Chains : OpenBody(eNext'[c].body, plist, idx', c)
    <3>1. \A c \in Chains : OpenBody(eNext[c].body, plist, idx, c)
      BY <2>1 DEF Minuted, Writing
    <3> QED BY <2>1, <2>2, <3>1, EmptyClosed, ClosedOpen
  <2>4. idx' <= Len(plist) + 1
    BY <2>1 DEF Minuted, Writing
  <2> QED BY <2>1, <2>3, <2>4, WriteMinuted, PanicMinuted DEF Writing
<1>4. CASE buildEndOfMinute
  <2> DEFINE x == EBEntry(None, None, plist[idx].at)
  <2>1. /\ pc = "build" /\ pc' = "build" /\ idx <= Len(plist) /\ idx' = idx + 1
        /\ plist[idx].type = "EOM" /\ UNCHANGED <<plist, eDB>>
        /\ eNext' = [c \in Chains |->
                IF c \in TouchedChains(idx)
                THEN [eNext[c] EXCEPT !.body = Append(@, x)]
                ELSE eNext[c]]
    BY <1>4 DEF buildEndOfMinute, Building, ledger, disk
  <2>2. idx \in 1 .. Len(plist) /\ MinutesListed(plist)
    BY <1>0, <2>1 DEF Minuted, Writing
  <2>3. x \in EBEntries /\ x.entry = None /\ x.at = plist[idx].at
    BY <2>1, BuiltItem DEF EBEntry, EBEntries
  <2> HIDE DEF x
  <2>4. ASSUME NEW c \in Chains
        PROVE  OpenBody(eNext'[c].body, plist, idx', c)
    <3>1. /\ OpenBody(eNext[c].body, plist, idx, c)
          /\ eNext[c].body \in Seq(EBEntries)
      BY <1>0, <2>1 DEF Minuted, Writing, OpenEBlocks
    <3>2. CASE c \in TouchedChains(idx)
      <4>1. eNext'[c].body = Append(eNext[c].body, x)
        BY <1>0, <2>1, <3>2 DEF OpenEBlocks
      <4>2. Closed(Append(eNext[c].body, x))
        BY <1>0, <2>1, <2>2, <2>3, <3>1, BodyMinute
      <4> QED BY <4>1, <4>2, ClosedOpen
    <3>3. CASE c \notin TouchedChains(idx)
      <4>1. ASSUME NEW at, Revealed(plist, idx, c, at) PROVE FALSE
        <5>1. PICK n \in 1 .. (idx - 1) :
                  /\ plist[n].type \in Reveals /\ SameMinute(plist, n, idx)
                  /\ ChainOf[plist[n].msg] = c
          BY <4>1 DEF Revealed
        <5> QED BY <3>3, <5>1 DEF TouchedChains, SameMinute
      <4>2. Closed(eNext[c].body)
        BY <3>1, <4>1, BodyUntouched
      <4>3. eNext'[c] = eNext[c]
        BY <2>1, <3>3
      <4> QED BY <4>2, <4>3, ClosedOpen
    <3> QED BY <3>2, <3>3
  <2>5. idx' <= Len(plist) + 1
    BY <1>0, <2>1
  <2> QED BY <2>1, <2>4, <2>5, WriteMinuted DEF Writing
<1> QED BY <1>1, <1>2, <1>3, <1>4 DEF BuildItem

LEMMA SealMinuted ==
    ASSUME TypeInv, Minuted, SealBlock PROVE Minuted'
<1>1. CASE newEntryCreditBlock
  <2>1. /\ pc = "build" /\ pc' = "admin" /\ idx > Len(plist)
        /\ UNCHANGED <<eNext, eDB>>
    BY <1>1 DEF newEntryCreditBlock, chains
  <2>2. plist \in Seq(Items) /\ idx = Len(plist) + 1
    <3>1. plist \in Seq(Items) /\ idx \in Nat /\ Len(plist) \in Nat
      BY DEF TypeInv, TypeOK
    <3>2. idx <= Len(plist) + 1
      BY <2>1 DEF Minuted, Writing
    <3> QED BY <2>1, <3>1, <3>2
  <2>3. \A c \in Chains : Closed(eNext[c].body)
    <3>1. /\ \A c \in Chains :
                OpenBody(eNext[c].body, plist, Len(plist) + 1, c)
          /\ plist # <<>> /\ plist[Len(plist)].type = "EOM"
      BY <2>1, <2>2 DEF Minuted, Writing
    <3> QED BY <2>2, <3>1, BodyDone
  <2>4. EntriesKeepTheirMinute'
    BY <2>1 DEF Minuted, EntriesKeepTheirMinute
  <2> QED BY <2>1, <2>3, <2>4 DEF Minuted, Collecting, Writing
<1>2. CASE newAdminBlock \/ newFactoidBlock
  <2>1. /\ pc \in Sealing /\ pc' \in {"fct", "entry", "panic"}
        /\ UNCHANGED <<eNext, eDB>>
    BY <1>2 DEF newAdminBlock, newFactoidBlock, chains, Sealing
  <2>2. EntriesKeepTheirMinute'
    BY <2>1 DEF Minuted, EntriesKeepTheirMinute
  <2> QED BY <2>1, <2>2 DEF Minuted, Collecting, Writing, Sealing
<1>3. CASE newDirectoryBlock
  <2>1. /\ pc = "entry" /\ pc' = "serve" /\ plist' = <<>>
        /\ UNCHANGED <<eNext, eDB>>
    BY <1>3 DEF newDirectoryBlock, chains
  <2>2. EntriesKeepTheirMinute'
    BY <2>1 DEF Minuted, EntriesKeepTheirMinute
  <2> QED BY <2>1, <2>2, EmptyMinutes DEF Minuted, Writing, Sealing
<1>4. ASSUME NEW d \in Chains, newEntryBlock(d) PROVE Minuted'
  <2>1. pc = "entry" /\ pc' = "entry"
    BY <1>4 DEF newEntryBlock, VisitChain
  <2>2. Closed(eNext[d].body)
    BY <2>1 DEF Minuted, Sealing
  <2>3. \A b \in eDB' : b \in eDB \/ b.body = eNext[d].body
    BY <1>4 DEF newEntryBlock, StoreEntryBlock
  <2>4. \A c \in Chains : eNext'[c].body \in {eNext[c].body, <<>>}
    <3>1. eNext' \in {eNext, [eNext EXCEPT ![d] =
                        [own |-> TRUE, seq |-> eNext[d].seq + 1, body |-> <<>>]]}
      BY <1>4 DEF newEntryBlock, StoreEntryBlock
    <3>2. eNext \in [Chains -> OpenEBlocks]
      BY DEF TypeInv, TypeOK
    <3> QED BY <3>1, <3>2
  <2>5. \A b \in eDB' : Closed(b.body)
    <3>1. \A b \in eDB : Closed(b.body)
      BY MinutesOfBlocks DEF Minuted
    <3> QED BY <2>2, <2>3, <3>1
  <2>6. EntriesKeepTheirMinute'
    BY <2>5 DEF EntriesKeepTheirMinute, Closed, Marked
  <2>7. \A c \in Chains : Closed(eNext'[c].body)
    BY <2>1, <2>4, EmptyClosed DEF Minuted, Sealing
  <2> QED BY <2>1, <2>6, <2>7 DEF Minuted, Collecting, Writing
<1> QED BY <1>1, <1>2, <1>3, <1>4 DEF SealBlock

LEMMA MinutedStep ==
    ASSUME IInv, TypeInv', Minuted, [Next]_vars PROVE Minuted'
<1>0. TypeInv /\ Control /\ Ledger
  BY DEF IInv
<1>1. CASE Serve
  BY <1>0, <1>1, ServeMinuted
<1>2. CASE EndOfMinute \/ EndOfMinute10 \/ EndProcessList
  BY <1>0, <1>2, ClockMinuted
<1>3. ASSUME NEW e \in Entries, processFromOrphanPool(e) PROVE Minuted'
  <2>1. /\ pc = "orphans" /\ pc' = pc /\ UNCHANGED <<minute, eDB>>
        /\ \/ AcceptEntry(e) \/ AcceptChain(e) \/ RegisterOnly(e)
           \/ UNCHANGED <<plist, commitEntryMap, commitChainMap, chains>>
    BY <1>3 DEF processFromOrphanPool, disk
  <2>2. plist' \in Seq(Items)
    BY DEF TypeInv, TypeOK
  <2> QED BY <1>0, <2>1, <2>2, RevealMinuted DEF Collecting
<1>4. CASE BuildItem
  BY <1>0, <1>4, BuildMinuted
<1>5. CASE SealBlock
  BY <1>0, <1>5, SealMinuted
<1>6. CASE initProcessor
  <2>1. /\ pc' \in {"serve", "panic"} /\ plist' = <<>> /\ eDB' = eDB
        /\ \A c \in Chains : eNext'[c].body = <<>>
    BY <1>6 DEF initProcessor, initEChainFromDB, NewEBlock, disk
  <2>2. EntriesKeepTheirMinute'
    BY <2>1 DEF Minuted, EntriesKeepTheirMinute
  <2>3. \A c \in Chains : Closed(eNext'[c].body)
    BY <2>1, EmptyClosed
  <2> QED BY <2>1, <2>2, <2>3, EmptyMinutes DEF Minuted, Writing, Sealing
<1>7. CASE UNCHANGED vars
  BY <1>7 DEF vars, chains, ledger, disk, Minuted, EntriesKeepTheirMinute
<1> QED BY <1>1, <1>2, <1>3, <1>4, <1>5, <1>6, <1>7, NextGroups

\* An entry keeps its minute on the way from the reveal through the orphan
\* pool, the process list and the open block to the database, with any number
\* of chains and minutes and wherever the process dies.
THEOREM MinutesSurvive == Spec => []EntriesKeepTheirMinute
<1>1. Init => IInv /\ Minuted
  BY InitType, InitControl, InitLedger, InitMinuted DEF IInv
<1>2. (IInv /\ Minuted) /\ [Next]_vars => (IInv /\ Minuted)'
  BY TypeStep, ControlStep, LedgerStep, MinutedStep DEF IInv
<1>3. IInv /\ Minuted => EntriesKeepTheirMinute
  BY DEF Minuted
<1> QED BY <1>1, <1>2, <1>3, PTL DEF Spec

----------------------------------------------------------------------------
\* What a start on the stored blocks can rely on when the process died outside
\* of the block building, that is while it served messages or emptied the
\* orphan pool.  That hypothesis is on CrashAt and is needed: the run
\* startup_panics dies between two writes and does panic.

CleanCrashes == CrashAt \subseteq Collecting

----------------------------------------------------------------------------
\* The chains of blocks advance together.  The invariant says, for every
\* program point, which of the four chains are one block ahead of the
\* directory, and that a stored block is listed by a stored directory block
\* or by the open one.

Ahead(stages) == IF pc \in stages THEN nextHeight.d + 1 ELSE nextHeight.d

InStep ==
    /\ nextHeight.ec = Ahead(Sealing)
    /\ nextHeight.a = Ahead({"fct", "entry"})
    /\ nextHeight.f = Ahead({"entry"})
    /\ pc \in Sealing => dNext.ec.height = nextHeight.d
    /\ \A i \in DOMAIN dDB : dDB[i].ec.height = i - 1

ListedEC(list, b) == \E i \in DOMAIN list : list[i].ec = b /\ b.height = i - 1
ListedA(list, b)  == \E i \in DOMAIN list : list[i].a = b /\ b.height = i - 1
ListedF(list, b)  == \E i \in DOMAIN list : list[i].f = b /\ b.height = i - 1
ListedE(list, b)  ==
    \E i \in DOMAIN list :
        b.height = i - 1 /\ \E j \in DOMAIN list[i].e : list[i].e[j] = b

StoredOnce ==
    /\ \A b \in ecDB : ListedEC(dDB, b) \/ (pc \in Sealing /\ dNext.ec = b)
    /\ \A b \in aDB : ListedA(dDB, b) \/ (pc \in {"fct", "entry"} /\ dNext.a = b)
    /\ \A b \in fDB : ListedF(dDB, b) \/ (pc = "entry" /\ dNext.f = b)
    /\ \A b \in eDB : \/ ListedE(dDB, b)
                      \/ pc = "entry" /\ \E j \in DOMAIN dNext.e : dNext.e[j] = b

Clean == InStep /\ StoredOnce

LEMMA InitClean == Init => Clean
<1> SUFFICES ASSUME Init PROVE Clean
  OBVIOUS
<1>1. InStep
  BY DEF Init, InStep, Ahead, Sealing, GenesisEC
<1>2. StoredOnce
  BY DEF Init, StoredOnce, ListedEC, ListedA, ListedF, GenesisEC, GenesisA,
     GenesisF
<1> QED BY <1>1, <1>2 DEF Clean

\* f lists the blocks of S, the one of height 0 first.
Enumerates(f, n, S) ==
    /\ \A i \in 1 .. n : f[i] \in S /\ f[i].height = i - 1
    /\ \A x \in S : \E i \in 1 .. n : x = f[i]

\* A set with exactly one block of each height below n has n blocks.
LEMMA Enumerated ==
    ASSUME NEW S, NEW n \in Nat, NEW f, Enumerates(f, n, S)
    PROVE  IsFiniteSet(S) /\ Cardinality(S) = n
<1> USE DEF Enumerates
<1> DEFINE g == [i \in 1 .. n |-> f[i]]
<1>1. g \in [1 .. n -> S]
  OBVIOUS
<1>2. \A i, j \in 1 .. n : g[i] = g[j] => i = j
  OBVIOUS
<1>3. \A x \in S : \E i \in 1 .. n : g[i] = x
  OBVIOUS
<1> HIDE DEF g
<1>4. g \in Bijection(1 .. n, S)
  BY <1>1, <1>2, <1>3 DEF Bijection, Injection, Surjection, IsInjective
<1>5. ExistsBijection(1 .. n, S)
  BY <1>4 DEF ExistsBijection
<1> QED BY <1>5, FS_NatBijection, FS_CountingElements

\* Outside of buildBlocks, there is one block of each height below that of the
\* open directory block, in each of the three chains.
LEMMA OneOfEachHeight ==
    ASSUME TypeInv, Directory, Clean, pc \in Collecting
    PROVE  /\ Cardinality(aDB) = Len(dDB)
           /\ {b.height : b \in aDB} = 0 .. (Len(dDB) - 1)
           /\ Cardinality(fDB) = Len(dDB)
           /\ {b.height : b \in fDB} = 0 .. (Len(dDB) - 1)
           /\ \A prev \in ecDB : IsECBlockAt(prev, Len(dDB) - 1)
                  => prev.height = Len(dDB) - 1
<1> DEFINE n == Len(dDB)
<1>0. n \in Nat /\ DOMAIN dDB = 1 .. n /\ pc \notin Sealing
      /\ pc \notin {"fct", "entry"}
  BY DEF TypeInv, TypeOK, Sealing, Collecting
<1>1. \A i \in 1 .. n : /\ dDB[i].ec \in ecDB /\ dDB[i].a \in aDB
                        /\ dDB[i].f \in fDB
                        /\ dDB[i].ec.height = i - 1
                        /\ dDB[i].a.height = i - 1
                        /\ dDB[i].f.height = i - 1
  BY <1>0 DEF Directory, Listing, ListsStoredBlocks, Listed, Clean, InStep
<1>2. /\ \A b \in ecDB : \E i \in 1 .. n : dDB[i].ec = b /\ b.height = i - 1
      /\ \A b \in aDB : \E i \in 1 .. n : dDB[i].a = b /\ b.height = i - 1
      /\ \A b \in fDB : \E i \in 1 .. n : dDB[i].f = b /\ b.height = i - 1
  BY <1>0 DEF Clean, StoredOnce, ListedEC, ListedA, ListedF
<1> HIDE DEF n
<1>3. Cardinality(aDB) = n
  <2> DEFINE f == [i \in 1 .. n |-> dDB[i].a]
  <2>1. Enumerates(f, n, aDB)
    BY <1>1, <1>2 DEF Enumerates
  <2> HIDE DEF f
  <2> QED BY <1>0, <2>1, Enumerated
<1>4. Cardinality(fDB) = n
  <2> DEFINE f == [i \in 1 .. n |-> dDB[i].f]
  <2>1. Enumerates(f, n, fDB)
    BY <1>1, <1>2 DEF Enumerates
  <2> HIDE DEF f
  <2> QED BY <1>0, <2>1, Enumerated
<1>5. /\ {b.height : b \in aDB} = 0 .. (n - 1)
      /\ {b.height : b \in fDB} = 0 .. (n - 1)
  <2>1. \A h \in 0 .. (n - 1) : h + 1 \in 1 .. n /\ (h + 1) - 1 = h
    BY <1>0
  <2>2. \A i \in 1 .. n : i - 1 \in 0 .. (n - 1)
    BY <1>0
  <2>3. \A b \in aDB \cup fDB : b.height \in 0 .. (n - 1)
    BY <1>2, <2>2
  <2>4. \A h \in 0 .. (n - 1) : /\ \E b \in aDB : b.height = h
                                /\ \E b \in fDB : b.height = h
    BY <1>1, <2>1
  <2> QED BY <2>3, <2>4
<1>6. ASSUME NEW prev \in ecDB, IsECBlockAt(prev, n - 1)
      PROVE  prev.height = n - 1
  <2> DEFINE S == {x \in ecDB : x.height <= prev.height}
             m == prev.height + 1
             f == [i \in 1 .. m |-> dDB[i].ec]
  <2>1. /\ prev.height \in 0 .. (n - 1) /\ m \in Nat /\ m <= n
        /\ m = prev.height + 1
    <3>1. PICK i \in 1 .. n : prev.height = i - 1
      BY <1>2
    <3> QED BY <1>0, <3>1
  <2>2. \A i \in 1 .. m : f[i] \in S /\ f[i].height = i - 1
    BY <1>0, <1>1, <2>1
  <2>3. \A x \in S : \E i \in 1 .. m : x = f[i]
    <3> SUFFICES ASSUME NEW x \in S PROVE \E i \in 1 .. m : x = f[i]
      OBVIOUS
    <3>1. PICK i \in 1 .. n : dDB[i].ec = x /\ x.height = i - 1
      BY <1>2
    <3>2. i \in 1 .. m
      BY <1>0, <2>1, <3>1
    <3> QED BY <3>1, <3>2
  <2>4. n - 1 < Cardinality(S)
    BY <1>6 DEF IsECBlockAt
  <2> HIDE DEF S, m, f
  <2>5. Cardinality(S) = m
    <3>1. m \in Nat /\ Enumerates(f, m, S)
      BY <2>1, <2>2, <2>3 DEF Enumerates
    <3> QED BY <3>1, Enumerated
  <2> QED BY <1>0, <2>1, <2>4, <2>5
<1> QED BY <1>3, <1>4, <1>5, <1>6 DEF n

\* Listed blocks stay listed, and a new directory block lists its own.
LEMMA AppendListed ==
    ASSUME NEW list \in Seq(DBlocks), NEW d \in DBlocks
    PROVE  LET longer == Append(list, d) IN
           /\ \A b : ListedEC(list, b) \/ (d.ec = b /\ b.height = Len(list))
                  => ListedEC(longer, b)
           /\ \A b : ListedA(list, b) \/ (d.a = b /\ b.height = Len(list))
                  => ListedA(longer, b)
           /\ \A b : ListedF(list, b) \/ (d.f = b /\ b.height = Len(list))
                  => ListedF(longer, b)
           /\ \A b : \/ ListedE(list, b)
                     \/ b.height = Len(list) /\ \E j \in DOMAIN d.e : d.e[j] = b
                  => ListedE(longer, b)
<1> DEFINE longer == Append(list, d)
<1>1. /\ \A i \in DOMAIN list : i \in DOMAIN longer /\ longer[i] = list[i]
      /\ Len(list) + 1 \in DOMAIN longer /\ longer[Len(list) + 1] = d
      /\ (Len(list) + 1) - 1 = Len(list)
  OBVIOUS
<1> HIDE DEF longer
<1>2. ASSUME NEW b, ListedEC(list, b) \/ (d.ec = b /\ b.height = Len(list))
      PROVE  ListedEC(longer, b)
  BY <1>1, <1>2 DEF ListedEC
<1>3. ASSUME NEW b, ListedA(list, b) \/ (d.a = b /\ b.height = Len(list))
      PROVE  ListedA(longer, b)
  BY <1>1, <1>3 DEF ListedA
<1>4. ASSUME NEW b, ListedF(list, b) \/ (d.f = b /\ b.height = Len(list))
      PROVE  ListedF(longer, b)
  BY <1>1, <1>4 DEF ListedF
<1>5. ASSUME NEW b, \/ ListedE(list, b)
                    \/ b.height = Len(list) /\ \E j \in DOMAIN d.e : d.e[j] = b
      PROVE  ListedE(longer, b)
  BY <1>1, <1>5 DEF ListedE
<1> QED BY <1>2, <1>3, <1>4, <1>5 DEF longer

LEMMA SealClean ==
    ASSUME TypeInv, TypeInv', Directory, Clean, SealBlock PROVE Clean'
<1>0. /\ dNext \in OpenDBlocks /\ nextHeight \in Heights /\ dDB \in Seq(DBlocks)
      /\ nextHeight.d \in Nat
  BY DEF TypeInv, TypeOK, Heights
<1>1. CASE newEntryCreditBlock
  <2> DEFINE block == [height |-> nextHeight.ec, entries |-> ecNext]
  <2>1. /\ pc = "build" /\ pc' = "admin" /\ dNext'.ec = block
        /\ nextHeight'.ec = nextHeight.ec + 1
        /\ nextHeight'.a = nextHeight.a /\ nextHeight'.f = nextHeight.f
        /\ nextHeight'.d = nextHeight.d /\ ecDB' = ecDB \cup {block}
        /\ UNCHANGED <<aDB, fDB, eDB, dDB>>
    BY <1>0, <1>1 DEF newEntryCreditBlock, OpenDBlocks, Heights
  <2>2. /\ nextHeight.ec = nextHeight.d /\ nextHeight.a = nextHeight.d
        /\ nextHeight.f = nextHeight.d /\ block.height = nextHeight.d
    BY <2>1 DEF Clean, InStep, Ahead, Sealing
  <2> HIDE DEF block
  <2>3. InStep'
    BY <2>1, <2>2 DEF Clean, InStep, Ahead, Sealing
  <2>4. StoredOnce'
    BY <2>1 DEF Clean, StoredOnce, Sealing
  <2> QED BY <2>3, <2>4 DEF Clean
<1>2. CASE newAdminBlock
  <2> DEFINE block == [height |-> nextHeight.a, entries |-> aNext]
  <2>0. nextHeight.a = nextHeight.d
    BY <1>2 DEF newAdminBlock, Clean, InStep, Ahead
  <2>1. /\ pc = "admin" /\ pc' = "fct" /\ dNext'.a = block
        /\ dNext'.ec = dNext.ec /\ nextHeight'.a = nextHeight.a + 1
        /\ nextHeight'.ec = nextHeight.ec /\ nextHeight'.f = nextHeight.f
        /\ nextHeight'.d = nextHeight.d /\ aDB' = aDB \cup {block}
        /\ UNCHANGED <<ecDB, fDB, eDB, dDB>>
    BY <1>0, <1>2, <2>0 DEF newAdminBlock, OpenDBlocks, Heights
  <2> HIDE DEF block
  <2>3. InStep'
    BY <2>0, <2>1 DEF Clean, InStep, Ahead, Sealing
  <2>4. StoredOnce'
    BY <2>1 DEF Clean, StoredOnce, Sealing
  <2> QED BY <2>3, <2>4 DEF Clean
<1>3. CASE newFactoidBlock
  <2> DEFINE block == [height |-> nextHeight.f, rate |-> rate, boot |-> boots]
  <2>0. nextHeight.f = nextHeight.d
    BY <1>3 DEF newFactoidBlock, Clean, InStep, Ahead
  <2>1. /\ pc = "fct" /\ pc' = "entry" /\ dNext'.f = block
        /\ dNext'.ec = dNext.ec /\ dNext'.a = dNext.a
        /\ nextHeight'.f = nextHeight.f + 1
        /\ nextHeight'.ec = nextHeight.ec /\ nextHeight'.a = nextHeight.a
        /\ nextHeight'.d = nextHeight.d /\ fDB' = fDB \cup {block}
        /\ UNCHANGED <<ecDB, aDB, eDB, dDB>>
    BY <1>0, <1>3, <2>0 DEF newFactoidBlock, OpenDBlocks, Heights
  <2> HIDE DEF block
  <2>3. InStep'
    BY <2>0, <2>1 DEF Clean, InStep, Ahead, Sealing
  <2>4. StoredOnce'
    BY <2>1 DEF Clean, StoredOnce, Sealing
  <2> QED BY <2>3, <2>4 DEF Clean
<1>4. CASE newDirectoryBlock
  <2>1. /\ pc = "entry" /\ pc' = "serve" /\ dDB' = Append(dDB, dNext)
        /\ nextHeight'.d = nextHeight.d + 1
        /\ nextHeight'.ec = nextHeight.ec /\ nextHeight'.a = nextHeight.a
        /\ nextHeight'.f = nextHeight.f
        /\ UNCHANGED <<ecDB, aDB, fDB, eDB>>
    BY <1>0, <1>4 DEF newDirectoryBlock, Heights
  <2>2. dNext \in DBlocks
    <3>1. dDB' \in Seq(DBlocks)
      BY DEF TypeInv, TypeOK
    <3>2. Len(dDB) + 1 \in DOMAIN dDB' /\ dDB'[Len(dDB) + 1] = dNext
      BY <1>0, <2>1
    <3> QED BY <3>1, <3>2
  <2>3. /\ dNext.ec.height = Len(dDB) /\ dNext.a.height = Len(dDB)
        /\ dNext.f.height = Len(dDB)
        /\ \A j \in DOMAIN dNext.e : dNext.e[j].height = Len(dDB)
    BY <2>1 DEF Clean, InStep, Directory, Listing, OpenList, Sealing
  <2>4. /\ \A b \in ecDB' : ListedEC(dDB', b)
        /\ \A b \in aDB' : ListedA(dDB', b)
        /\ \A b \in fDB' : ListedF(dDB', b)
        /\ \A b \in eDB' : ListedE(dDB', b)
    <3>1. /\ \A b \in ecDB : ListedEC(dDB, b) \/ (dNext.ec = b)
          /\ \A b \in aDB : ListedA(dDB, b) \/ (dNext.a = b)
          /\ \A b \in fDB : ListedF(dDB, b) \/ (dNext.f = b)
          /\ \A b \in eDB : \/ ListedE(dDB, b)
                            \/ \E j \in DOMAIN dNext.e : dNext.e[j] = b
      BY DEF Clean, StoredOnce
    <3> QED BY <1>0, <2>1, <2>2, <2>3, <3>1, AppendListed
  <2>5. StoredOnce'
    BY <2>4 DEF StoredOnce
  <2>6. \A i \in DOMAIN dDB' : dDB'[i].ec.height = i - 1
    <3>1. /\ \A i \in DOMAIN dDB : dDB'[i] = dDB[i]
          /\ \A i \in DOMAIN dDB' : i \in DOMAIN dDB \/ i = Len(dDB) + 1
          /\ dDB'[Len(dDB) + 1] = dNext /\ (Len(dDB) + 1) - 1 = Len(dDB)
      BY <1>0, <2>1
    <3> QED BY <2>3, <3>1 DEF Clean, InStep
  <2>7. InStep'
    BY <2>1, <2>6 DEF Clean, InStep, Ahead, Sealing
  <2> QED BY <2>5, <2>7 DEF Clean
<1>5. ASSUME NEW c \in Chains, newEntryBlock(c) PROVE Clean'
  <2>1. /\ pc = "entry" /\ pc' = "entry"
        /\ UNCHANGED <<nextHeight, dDB, ecDB, aDB, fDB>>
    BY <1>5 DEF newEntryBlock, VisitChain
  <2>2. CASE eNext[c].body = <<>>
    <3>1. dNext' = dNext /\ eDB' = eDB
      BY <1>5, <2>2 DEF newEntryBlock
    <3> QED BY <2>1, <3>1 DEF Clean, InStep, Ahead, StoredOnce
  <2>3. CASE eNext[c].body # <<>>
    <3>1. PICK block : /\ dNext' = [dNext EXCEPT !.e = Append(@, block)]
                       /\ eDB' = eDB \cup {block}
      BY <1>5, <2>3 DEF newEntryBlock, StoreEntryBlock
    <3>2. /\ dNext'.ec = dNext.ec /\ dNext'.a = dNext.a /\ dNext'.f = dNext.f
          /\ dNext'.e = Append(dNext.e, block) /\ dNext.e \in Seq(EBlocks)
      BY <1>0, <3>1 DEF OpenDBlocks
    <3>3. /\ \A j \in DOMAIN dNext.e :
                j \in DOMAIN dNext'.e /\ dNext'.e[j] = dNext.e[j]
          /\ \E j \in DOMAIN dNext'.e : dNext'.e[j] = block
      <4>1. dNext'.e[Len(dNext.e) + 1] = block
            /\ Len(dNext.e) + 1 \in DOMAIN dNext'.e
        BY <3>2
      <4> QED BY <3>2, <4>1
    <3>4. InStep'
      BY <2>1, <3>2 DEF Clean, InStep, Ahead
    <3>5. \A b \in eDB' : \/ ListedE(dDB', b)
                          \/ \E j \in DOMAIN dNext'.e : dNext'.e[j] = b
      BY <2>1, <3>1, <3>3 DEF Clean, StoredOnce
    <3>6. StoredOnce'
      BY <2>1, <3>2, <3>5 DEF Clean, StoredOnce
    <3> QED BY <3>4, <3>6 DEF Clean
  <2> QED BY <2>2, <2>3
<1> QED BY <1>1, <1>2, <1>3, <1>4, <1>5 DEF SealBlock

\* The steps of QuietSteps begin outside of buildBlocks.
LEMMA QuietFrom ==
    ASSUME \/ Serve \/ EndOfMinute \/ EndOfMinute10 \/ EndProcessList
           \/ \E e \in Entries : processFromOrphanPool(e)
           \/ BuildItem
    PROVE  pc \in Collecting \cup Writing
BY DEF Serve, processCommitEntry, processCommitChain, RefuseCommit,
   processBuyEntryCredit, RefuseFactoidTX, processRevealEntry, EndOfMinute,
   EndOfMinute10, EndProcessList, processFromOrphanPool, BuildItem,
   buildCommit, buildIncreaseBalance, buildRevealEntry, buildRevealChain,
   buildFirstEntry, buildEndOfMinute, Building, Collecting, Writing

LEMMA CleanStep ==
    ASSUME CleanCrashes, TypeInv, TypeInv', Directory, Clean, [Next]_vars
    PROVE  Clean'
<1>1. ASSUME pc' \notin Sealing, pc \notin Sealing,
             UNCHANGED <<dNext, nextHeight, dDB, ecDB, aDB, fDB, eDB>>
      PROVE  Clean'
  BY <1>1 DEF Clean, InStep, Ahead, StoredOnce, Sealing
<1>2. CASE \/ Serve \/ EndOfMinute \/ EndOfMinute10 \/ EndProcessList
           \/ \E e \in Entries : processFromOrphanPool(e)
           \/ BuildItem
  <2>1. pc' \notin Sealing /\ pc \notin Sealing
    BY <1>2, QuietSteps, QuietFrom DEF Sealing, Collecting, Writing
  <2> QED BY <1>1, <1>2, <2>1, QuietSteps
<1>3. CASE SealBlock
  BY <1>3, SealClean
<1>4. CASE initProcessor
  <2>1. /\ pc \in Collecting /\ pc' \in {"serve", "panic"}
        /\ UNCHANGED <<dDB, ecDB, aDB, fDB, eDB>>
    BY <1>4 DEF initProcessor, CleanCrashes, disk
  <2>2. PICK prev \in ecDB :
            /\ IsECBlockAt(prev, Len(dDB) - 1)
            /\ nextHeight' = [d |-> Len(dDB), ec |-> prev.height + 1,
                              a |-> Len(dDB), f |-> Len(dDB)]
    BY <1>4 DEF initProcessor
  <2>3. prev.height = Len(dDB) - 1 /\ Len(dDB) \in Nat
    <3>1. \A b \in ecDB : IsECBlockAt(b, Len(dDB) - 1)
             => b.height = Len(dDB) - 1
      BY <2>1, OneOfEachHeight
    <3>2. Len(dDB) \in Nat
      BY DEF TypeInv, TypeOK
    <3> QED BY <2>2, <3>1, <3>2
  <2>4. InStep'
    BY <2>1, <2>2, <2>3 DEF Clean, InStep, Ahead, Sealing
  <2>5. StoredOnce'
    BY <2>1 DEF Clean, StoredOnce, Sealing, Collecting
  <2> QED BY <2>4, <2>5 DEF Clean
<1>5. CASE UNCHANGED vars
  BY <1>5 DEF vars, open, disk, Clean, InStep, Ahead, StoredOnce
<1> QED BY <1>2, <1>3, <1>4, <1>5, NextGroups

BlocksInv == IInv /\ Directory /\ Clean

LEMMA BlocksInductive ==
    ASSUME CleanCrashes PROVE Spec => []BlocksInv
<1>1. Init => BlocksInv
  BY InitType, InitControl, InitLedger, InitDirectory, InitClean
     DEF IInv, BlocksInv
<1>2. BlocksInv /\ [Next]_vars => BlocksInv'
  BY CleanCrashes, TypeStep, ControlStep, LedgerStep, DirectoryStep, CleanStep
     DEF IInv, BlocksInv
<1> QED BY <1>1, <1>2, PTL DEF Spec

\* If the process dies only between two block buildings, every stored block is
\* listed, once, by the directory block of its height: a reader of the
\* directory misses nothing that is stored.
THEOREM EveryBlockIsListed ==
    ASSUME CleanCrashes PROVE Spec => []StoredBlocksAreListed
<1>1. BlocksInv => StoredBlocksAreListed
  <2> SUFFICES ASSUME BlocksInv, pc \notin Sealing
               PROVE  /\ \A b \in ecDB : ListedEC(dDB, b)
                      /\ \A b \in aDB : ListedA(dDB, b)
                      /\ \A b \in fDB : ListedF(dDB, b)
                      /\ \A b \in eDB : ListedE(dDB, b)
    BY DEF StoredBlocksAreListed, ListedEC, ListedA, ListedF, ListedE
  <2> QED BY DEF BlocksInv, Clean, StoredOnce, Sealing
<1> QED BY <1>1, BlocksInductive, PTL

=============================================================================
