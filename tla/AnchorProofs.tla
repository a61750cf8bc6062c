---------------------------- MODULE AnchorProofs ----------------------------
(***************************************************************************)
(* Proofs about Anchor, for any wallet, any number of blocks, senders,     *)
(* faults and starts:                                                      *)
(*                                                                         *)
(*   TypeCorrect          the goroutines and the map speak of stored       *)
(*                        blocks, and every value has its type;            *)
(*   RecordsFormChain     the records submitted implement AnchorChain;     *)
(*   NoBlockIsForgotten   a block stays known until it is confirmed;       *)
(*   CleanRunsNeverPanic  a lone sender with a complete wallet indexes no  *)
(*                        empty list and misses no key.                    *)
(*                                                                         *)
(* The first is the base of the others: Types, one conjunct per part of    *)
(* the state. RecordsFormChain adds that bitcoin spends an output once and *)
(* that a mined transaction is in one place at a time; CleanRunsNeverPanic *)
(* adds what the only sender relies on at each of its steps.               *)
(***************************************************************************)
EXTENDS Anchor, FiniteSetTheorems, TLAPS

\* What the wallet lists: outputs worth more than the fee.
Payable == {o \in Outputs : o[2] > 1}

\* An element of balances.
Keyed == [out : Payable, addr : Outputs \cup {None}, wif : Outputs \cup {None}]

\* What a sender holds, or nothing yet.
Held == [out : Payable \cup {None}, addr : Outputs \cup {None},
         wif : Outputs \cup {None}]

PCs == {"idle", "check", "clear", "list", "addr", "wif", "look", "take", "drop",
        "send", "record"}

SenderStates ==
    [pc : PCs, h : Heights, b : Held, scan : Seq(Outputs), i : Nat]

Infos == [tx : Tx \cup {None}, confirmed : BOOLEAN]

Stored == 0 .. (nextHeight - 1)

\* The type invariant, part by part.
FlagsOK ==
    /\ proc \in {"down", "up", "panic"}
    /\ clients \in BOOLEAN /\ tickerOn \in BOOLEAN
    /\ defaultAddress \in BOOLEAN /\ clean \in BOOLEAN

HeightsOK ==
    /\ faults \in 0 .. MaxFaults /\ boots \in 0 .. MaxBoots
    /\ nextHeight \in 0 .. (MaxHeight + 1)
    /\ old \in 0 .. nextHeight /\ base \in 0 .. nextHeight
    /\ infoDB = <<>>

\* The transaction of an info carries its block and is not a mutated one.
InfoOK(h, info) ==
    /\ info \in Infos
    /\ info.tx # None => info.tx.h = h /\ ~info.tx.mutated

MapOK ==
    /\ DOMAIN dirBlockInfoMap \subseteq Stored
    /\ \A h \in DOMAIN dirBlockInfoMap : InfoOK(h, dirBlockInfoMap[h])

SaversOK ==
    savers \subseteq [h : Stored, tx : Tx, pc : {"insert", "submit"}]

BalancesOK == balances \in Seq(Keyed)

\* Past doTransaction a sender has an output to spend.
Carries(s) == s.pc \in {"drop", "send", "record"}

\* Where a sender can be: at a stored block, with an index inside of its scan.
Placed(s) ==
    /\ s.pc # "idle" => s.h \in Stored
    /\ Carries(s) => s.b.out \in Payable
    /\ s.pc \in {"addr", "wif"} => s.i >= 1
    /\ s.pc = "wif" => s.i <= Len(s.scan)

SenderOK ==
    /\ sender \in [Threads -> SenderStates]
    /\ \A t \in Threads : Placed(sender[t])

BitcoinOK ==
    /\ mempool \subseteq [out : Payable, h : Heights, mutated : {FALSE}]
    /\ mined \subseteq Tx /\ notif \subseteq Tx
    /\ unspent \subseteq Outputs /\ IsFiniteSet(unspent)
    /\ watched \subseteq Outputs

RecordsOK == records \in [Heights -> Seq(Tx)]

Types ==
    /\ FlagsOK /\ HeightsOK /\ MapOK /\ SaversOK /\ BalancesOK /\ SenderOK
    /\ BitcoinOK /\ RecordsOK

\* A listing in any order is a sequence of what was listed.
LEMMA OrderType ==
    ASSUME NEW outs, IsFiniteSet(outs), NEW s \in Orders(outs)
    PROVE  s \in Seq(outs)
BY FS_CardinalityType DEF Orders, SetToSeqs

\* The process before its first start.
LEMMA InitTypes == Init => Types
<1> SUFFICES ASSUME Init PROVE Types
  OBVIOUS
<1>0. FlagsOK
  BY DEF Init, FlagsOK
<1>1. HeightsOK
  BY AnchorAssumption DEF Init, HeightsOK
<1>2. MapOK /\ SaversOK
  BY DEF Init, MapOK, SaversOK
<1>3. BalancesOK
  BY DEF Init, BalancesOK
<1>4. Idle \in SenderStates
  BY AnchorAssumption DEF Idle, Bare, SenderStates, PCs, Held, Heights
<1>5. SenderOK
  BY <1>4 DEF Init, SenderOK, Placed, Carries, Idle
<1>6. BitcoinOK
  <2>1. unspent \subseteq Outputs
    BY AnchorAssumption DEF Init, Outputs
  <2>2. IsFiniteSet(unspent)
    <3> DEFINE f == [c \in Coins |-> <<c, Amount[c]>>]
    <3>1. f \in Surjection(Coins, unspent)
      BY DEF Init, Surjection
    <3> QED BY <3>1, AnchorAssumption, FS_Surjection
  <2> QED BY <2>1, <2>2 DEF Init, BitcoinOK
<1>7. RecordsOK
  BY DEF Init, RecordsOK
<1> QED BY <1>0, <1>1, <1>2, <1>3, <1>5, <1>6, <1>7 DEF Types

\* Each part of the type invariant is kept by every step.

LEMMA FlagsStep ==
    ASSUME FlagsOK, [Next]_vars PROVE FlagsOK'
<1> USE DEF FlagsOK
<1>1. CASE InitAnchor
  BY <1>1 DEF InitAnchor, Boot
<1>2. CASE InitAnchorFails \/ InitWalletFails
  BY <1>2 DEF InitAnchorFails, InitWalletFails, Boot
<1>3. CASE Crash \/ Age \/ checkForReAnchor
  BY <1>3 DEF Crash, Age, checkForReAnchor, memory
<1>4. CASE newDirectoryBlock \/ ReAnchor
  BY <1>4 DEF newDirectoryBlock, ReAnchor, StartSender
<1>5. ASSUME NEW t \in Threads, SendRawTransactionToBTC(t) PROVE FlagsOK'
  <2>1. CASE sanityCheck(t) \/ updateUTXO(t) \/ LookAgain(t) \/ ListUnspent(t)
             \/ sendRawTransaction(t) \/ SetBTCTxHash(t)
    BY <2>1 DEF sanityCheck, updateUTXO, LookAgain, ListUnspent, sendRawTransaction, SetBTCTxHash, KeepInSender
  <2>2. CASE DecodeAddress(t) \/ DumpPrivKey(t) \/ TakeBalance(t)
    BY <2>2 DEF DecodeAddress, DumpPrivKey, TakeBalance, KeepInSender, Panic
  <2>3. CASE DropBalance(t)
    BY <2>3 DEF DropBalance, createRawTransaction, KeepInSender, Panic
  <2> QED BY <1>5, <2>1, <2>2, <2>3 DEF SendRawTransactionToBTC
<1>6. ASSUME NEW t \in Threads, SenderFails(t) PROVE FlagsOK'
  BY <1>6 DEF SenderFails, ListUnspentFails, DumpPrivKeyFails, SendRawTransactionFails,
    KeepInSender
<1>7. ASSUME NEW tx \in mempool, Mine(tx) \/ Mutate(tx) \/ Evict(tx) PROVE FlagsOK'
  BY <1>7 DEF Mine, Mutate, Evict, KeepInBitcoin
<1>8. ASSUME NEW tx \in notif, saveDirBlockInfo(tx) PROVE FlagsOK'
  BY <1>8 DEF saveDirBlockInfo
<1>9. ASSUME NEW s \in savers, InsertConfirmed(s) \/ submitEntryToAnchorChain(s)
      PROVE FlagsOK'
  BY <1>9 DEF InsertConfirmed, submitEntryToAnchorChain
<1>10. CASE UNCHANGED vars
  BY <1>10 DEF vars, memory
<1> QED BY <1>1, <1>2, <1>3, <1>4, <1>5, <1>6, <1>7, <1>8, <1>9, <1>10 DEF Next

LEMMA HeightsStep ==
    ASSUME HeightsOK, [Next]_vars PROVE HeightsOK'
<1> USE AnchorAssumption DEF HeightsOK
<1>1. CASE InitAnchor
  BY <1>1 DEF InitAnchor, Boot, store, Listing, Fault
<1>2. CASE InitAnchorFails \/ InitWalletFails
  BY <1>2 DEF InitAnchorFails, InitWalletFails, Boot, store, Fault
<1>3. CASE Crash \/ checkForReAnchor \/ ReAnchor
  BY <1>3 DEF Crash, checkForReAnchor, ReAnchor, others, store, history
<1>4. CASE newDirectoryBlock
  BY <1>4 DEF newDirectoryBlock, InsertDirBlockInfo, history
<1>5. CASE Age
  BY <1>5 DEF Age, store, history
<1>6. ASSUME NEW t \in Threads, SendRawTransactionToBTC(t) PROVE HeightsOK'
  <2>1. CASE ListUnspent(t)
    BY <2>1 DEF ListUnspent, Listing, Fault, KeepInSender, store, history
  <2>2. CASE \/ sanityCheck(t) \/ updateUTXO(t) \/ LookAgain(t) \/ DecodeAddress(t)
             \/ DumpPrivKey(t)
    BY <2>2 DEF sanityCheck, updateUTXO, LookAgain, DecodeAddress, DumpPrivKey, KeepInSender, store, history
  <2>3. CASE TakeBalance(t) \/ DropBalance(t) \/ sendRawTransaction(t) \/ SetBTCTxHash(t)
    BY <2>3 DEF TakeBalance, DropBalance, createRawTransaction, NotifySpent, Fault,
      sendRawTransaction, SetBTCTxHash, KeepInSender, others, store, history
  <2> QED BY <1>6, <2>1, <2>2, <2>3 DEF SendRawTransactionToBTC
<1>7. ASSUME NEW t \in Threads, SenderFails(t) PROVE HeightsOK'
  BY <1>7 DEF SenderFails, ListUnspentFails, DumpPrivKeyFails,
    SendRawTransactionFails, KeepInSender, Fault, store, history
<1>8. ASSUME NEW tx \in mempool, Mine(tx) \/ Mutate(tx) \/ Evict(tx)
      PROVE  HeightsOK'
  BY <1>8 DEF Mine, Mutate, Evict, KeepInBitcoin, Fault, store, history
<1>9. ASSUME NEW tx \in notif, saveDirBlockInfo(tx) PROVE HeightsOK'
  BY <1>9 DEF saveDirBlockInfo, others, store, history
<1>10. ASSUME NEW s \in savers, InsertConfirmed(s) \/ submitEntryToAnchorChain(s)
       PROVE  HeightsOK'
  BY <1>10 DEF InsertConfirmed, submitEntryToAnchorChain, InsertDirBlockInfo, store, history
<1>11. CASE UNCHANGED vars
  BY <1>11 DEF vars, store, history
<1> QED BY <1>1, <1>2, <1>3, <1>4, <1>5, <1>6, <1>7, <1>8, <1>9, <1>10, <1>11 DEF Next

\* Directory blocks are never removed.
LEMMA StoredGrows ==
    ASSUME HeightsOK, [Next]_vars PROVE Stored \subseteq Stored'
<1>1. nextHeight' \in {nextHeight, nextHeight + 1}
  BY DEF Next, vars, InitAnchor, InitAnchorFails, InitWalletFails, Boot, Crash, newDirectoryBlock,
     Age, checkForReAnchor, ReAnchor, SendRawTransactionToBTC, sanityCheck, updateUTXO, LookAgain, ListUnspent,
     DecodeAddress, DumpPrivKey, TakeBalance, DropBalance, sendRawTransaction,
     SetBTCTxHash, SenderFails, ListUnspentFails, DumpPrivKeyFails,
     SendRawTransactionFails, KeepInSender, Mine, Mutate, Evict, KeepInBitcoin, saveDirBlockInfo,
     InsertConfirmed, submitEntryToAnchorChain, others, store
<1>2. nextHeight \in Nat
  BY AnchorAssumption DEF HeightsOK
<1>3. nextHeight' = nextHeight \/ nextHeight' = nextHeight + 1
  BY <1>1
<1> QED BY <1>2, <1>3 DEF Stored

LEMMA MapStep ==
    ASSUME Types, [Next]_vars PROVE MapOK'
<1>0. Stored \subseteq Stored' /\ nextHeight \in Nat
  BY StoredGrows, AnchorAssumption DEF Types, HeightsOK
<1>1. CASE InitAnchor \/ InitAnchorFails \/ InitWalletFails
  <2>1. infoDB = <<>> /\ dirBlockInfoMap' = FetchAllUnconfirmedDirBlockInfo(infoDB)
    BY <1>1 DEF InitAnchor, InitAnchorFails, InitWalletFails, Boot, Types, HeightsOK
  <2>2. DOMAIN dirBlockInfoMap' = {}
    BY <2>1 DEF FetchAllUnconfirmedDirBlockInfo
  <2> QED BY <2>2 DEF MapOK
<1>2. CASE newDirectoryBlock
  <2>1. InfoOK(nextHeight, NewDirBlockInfo)
    BY DEF NewDirBlockInfo, Infos, InfoOK
  <2>2. nextHeight \in Stored'
    BY <1>0, <1>2 DEF newDirectoryBlock, Stored
  <2>3. dirBlockInfoMap' =
          [h \in DOMAIN dirBlockInfoMap \cup {nextHeight} |->
              IF h = nextHeight THEN NewDirBlockInfo ELSE dirBlockInfoMap[h]]
    BY <1>2 DEF newDirectoryBlock
  <2> QED BY <1>0, <2>1, <2>2, <2>3 DEF Types, MapOK
<1>3. ASSUME NEW t \in Threads, SetBTCTxHash(t) PROVE MapOK'
  <2> DEFINE h == sender[t].h
             tx == TxOf(t)
  <2>1. dirBlockInfoMap' =
            IF h \in DOMAIN dirBlockInfoMap
            THEN [dirBlockInfoMap EXCEPT ![h].tx = tx]
            ELSE dirBlockInfoMap
    BY <1>3 DEF SetBTCTxHash
  <2>2. sender[t].b.out \in Payable /\ h \in Heights
    BY <1>3 DEF SetBTCTxHash, At, Types, SenderOK, Placed, Carries, SenderStates
  <2>3. tx \in Tx /\ tx.h = h /\ ~tx.mutated
    BY <2>2 DEF TxOf, RawTransaction, Tx, Payable
  <2> HIDE DEF h, tx
  <2>4. CASE h \notin DOMAIN dirBlockInfoMap
    BY <1>0, <2>1, <2>4 DEF Types, MapOK
  <2>5. CASE h \in DOMAIN dirBlockInfoMap
    <3>1. /\ DOMAIN dirBlockInfoMap' = DOMAIN dirBlockInfoMap
          /\ dirBlockInfoMap'[h] = [dirBlockInfoMap[h] EXCEPT !.tx = tx]
          /\ \A g \in DOMAIN dirBlockInfoMap : g # h => dirBlockInfoMap'[g] = dirBlockInfoMap[g]
      BY <2>1, <2>5
    <3>2. InfoOK(h, dirBlockInfoMap'[h])
      BY <2>3, <2>5, <3>1 DEF Types, MapOK, InfoOK, Infos
    <3> QED BY <1>0, <3>1, <3>2 DEF Types, MapOK
  <2> QED BY <2>4, <2>5
<1>4. ASSUME NEW tx \in notif, saveDirBlockInfo(tx) PROVE MapOK'
  <2>1. CASE dirBlockInfoMap' = dirBlockInfoMap
    BY <1>0, <2>1 DEF Types, MapOK
  <2>2. ASSUME NEW h \in Match(tx),
               dirBlockInfoMap' = [dirBlockInfoMap EXCEPT ![h].confirmed = TRUE]
        PROVE  MapOK'
    <3>0. h \in DOMAIN dirBlockInfoMap
      BY DEF Match
    <3>1. /\ DOMAIN dirBlockInfoMap' = DOMAIN dirBlockInfoMap
          /\ dirBlockInfoMap'[h] = [dirBlockInfoMap[h] EXCEPT !.confirmed = TRUE]
          /\ \A g \in DOMAIN dirBlockInfoMap : g # h => dirBlockInfoMap'[g] = dirBlockInfoMap[g]
      BY <2>2, <3>0
    <3>2. InfoOK(h, dirBlockInfoMap[h])
      BY <3>0 DEF Types, MapOK
    <3>3. /\ dirBlockInfoMap'[h] \in Infos
          /\ dirBlockInfoMap'[h].tx = dirBlockInfoMap[h].tx
      BY <3>1, <3>2 DEF InfoOK, Infos
    <3>4. InfoOK(h, dirBlockInfoMap'[h])
      BY <3>2, <3>3 DEF InfoOK
    <3> QED BY <1>0, <3>0, <3>1, <3>4 DEF Types, MapOK
  <2> QED BY <1>4, <2>1, <2>2 DEF saveDirBlockInfo
<1>5. ASSUME NEW s \in savers, InsertConfirmed(s) PROVE MapOK'
  <2>1. dirBlockInfoMap' =
            [h \in DOMAIN dirBlockInfoMap \ {s.h} |-> dirBlockInfoMap[h]]
    BY <1>5 DEF InsertConfirmed
  <2> QED BY <1>0, <2>1 DEF Types, MapOK
<1>6. CASE UNCHANGED dirBlockInfoMap
  BY <1>0, <1>6 DEF Types, MapOK
<1>7. CASE Crash \/ Age \/ checkForReAnchor \/ ReAnchor
  BY <1>6, <1>7 DEF Crash, Age, checkForReAnchor, ReAnchor, memory
<1>8. ASSUME NEW t \in Threads, SendRawTransactionToBTC(t) PROVE MapOK'
  BY <1>3, <1>6, <1>8 DEF SendRawTransactionToBTC, sanityCheck, updateUTXO, LookAgain, ListUnspent,
     DecodeAddress, DumpPrivKey, TakeBalance, DropBalance, sendRawTransaction, KeepInSender
<1>9. ASSUME NEW t \in Threads, SenderFails(t) PROVE MapOK'
  BY <1>6, <1>9 DEF SenderFails, ListUnspentFails, DumpPrivKeyFails,
     SendRawTransactionFails, KeepInSender
<1>10. ASSUME NEW tx \in mempool, Mine(tx) \/ Mutate(tx) \/ Evict(tx) PROVE MapOK'
  BY <1>6, <1>10 DEF Mine, Mutate, Evict, KeepInBitcoin
<1>11. ASSUME NEW s \in savers, submitEntryToAnchorChain(s) PROVE MapOK'
  BY <1>6, <1>11 DEF submitEntryToAnchorChain
<1>12. CASE UNCHANGED vars
  BY <1>6, <1>12 DEF vars, memory
<1> QED BY <1>1, <1>2, <1>4, <1>5, <1>7, <1>8, <1>9, <1>10, <1>11, <1>12 DEF Next

LEMMA SaversStep ==
    ASSUME Types, [Next]_vars PROVE SaversOK'
<1>0. Stored \subseteq Stored'
  BY StoredGrows DEF Types
<1>1. CASE savers' = {}
  BY <1>1 DEF SaversOK
<1>2. CASE savers' \subseteq savers
  BY <1>0, <1>2 DEF Types, SaversOK
<1>3. CASE InitAnchor \/ InitAnchorFails \/ InitWalletFails
  BY <1>1, <1>3 DEF InitAnchor, InitAnchorFails, InitWalletFails, Boot
<1>4. ASSUME NEW tx \in notif, saveDirBlockInfo(tx) PROVE SaversOK'
  <2>1. ASSUME NEW h \in Match(tx), savers' = savers \cup {[h |-> h, tx |-> tx, pc |-> "insert"]}
        PROVE  SaversOK'
    <3>1. h \in Stored /\ tx \in Tx
      BY DEF Match, Types, MapOK, BitcoinOK
    <3> QED BY <1>0, <2>1, <3>1 DEF Types, SaversOK
  <2> QED BY <1>2, <1>4, <2>1 DEF saveDirBlockInfo
<1>5. ASSUME NEW s \in savers, InsertConfirmed(s) PROVE SaversOK'
  BY <1>0, <1>5 DEF InsertConfirmed, Types, SaversOK
<1>6. ASSUME NEW s \in savers, submitEntryToAnchorChain(s) PROVE SaversOK'
  BY <1>2, <1>6 DEF submitEntryToAnchorChain
<1>7. CASE Crash \/ newDirectoryBlock \/ Age \/ checkForReAnchor \/ ReAnchor
  BY <1>2, <1>7 DEF Crash, newDirectoryBlock, Age, checkForReAnchor, ReAnchor, memory
<1>8. ASSUME NEW t \in Threads, SendRawTransactionToBTC(t) \/ SenderFails(t)
      PROVE  SaversOK'
  BY <1>2, <1>8 DEF SendRawTransactionToBTC, sanityCheck, updateUTXO, LookAgain, ListUnspent,
     DecodeAddress, DumpPrivKey, TakeBalance, DropBalance, sendRawTransaction, SetBTCTxHash,
     SenderFails, ListUnspentFails, DumpPrivKeyFails, SendRawTransactionFails, KeepInSender
<1>9. ASSUME NEW tx \in mempool, Mine(tx) \/ Mutate(tx) \/ Evict(tx) PROVE SaversOK'
  BY <1>2, <1>9 DEF Mine, Mutate, Evict, KeepInBitcoin
<1>10. CASE UNCHANGED vars
  BY <1>2, <1>10 DEF vars, memory
<1> QED BY <1>3, <1>4, <1>5, <1>6, <1>7, <1>8, <1>9, <1>10 DEF Next

\* What the wallet lists can be spent.
LEMMA ListedPayable ==
    ASSUME BitcoinOK, NEW outs \in SUBSET Spendable, NEW s \in Orders(outs)
    PROVE  s \in Seq(Payable)
<1>1. outs \subseteq Payable /\ IsFiniteSet(outs)
  BY FS_Subset DEF BitcoinOK, Spendable, Payable
<1>2. s \in Seq(outs)
  BY <1>1, OrderType
<1> QED BY <1>1, <1>2

LEMMA BalancesStep ==
    ASSUME Types, [Next]_vars PROVE BalancesOK'
<1> USE DEF BalancesOK
<1>0. \A o \in Payable : Bare(o) \in Keyed /\ Filled(o) \in Keyed
  BY DEF Payable, Bare, Filled, Keyed
<1>1. CASE InitAnchor
  <2>1. PICK outs \in SUBSET Spendable : \E s \in Orders(outs) :
            balances' = [i \in DOMAIN s |-> Filled(s[i])]
    BY <1>1 DEF InitAnchor
  <2>2. PICK s \in Orders(outs) : balances' = [i \in DOMAIN s |-> Filled(s[i])]
    BY <2>1
  <2>3. s \in Seq(Payable)
    BY ListedPayable DEF Types
  <2> QED BY <1>0, <2>2, <2>3
<1>2. CASE InitAnchorFails
  BY <1>2 DEF InitAnchorFails
<1>3. CASE InitWalletFails
  <2>1. PICK s \in Orders(Spendable \ InFlight) : \E k \in DOMAIN s :
          balances' = [i \in DOMAIN s |->
            IF i < k THEN Filled(s[i])
            ELSE [Bare(s[i]) EXCEPT !.addr = IF i = k THEN s[i] ELSE None]]
    BY <1>3 DEF InitWalletFails
  <2>2. s \in Seq(Payable)
    BY ListedPayable DEF Types
  <2>3. \A o \in Payable : \A a \in {o, None} : [Bare(o) EXCEPT !.addr = a] \in Keyed
    BY DEF Bare, Keyed, Payable
  <2>4. PICK k \in DOMAIN s :
          balances' = [i \in DOMAIN s |->
            IF i < k THEN Filled(s[i])
            ELSE [Bare(s[i]) EXCEPT !.addr = IF i = k THEN s[i] ELSE None]]
    BY <2>1
  <2>5. \A i \in DOMAIN s : s[i] \in Payable
    BY <2>2
  <2>6. \A i \in DOMAIN s : balances'[i] \in Keyed
    BY <1>0, <2>3, <2>4, <2>5
  <2>7. DOMAIN balances' = 1 .. Len(s) /\ Len(s) \in Nat /\ balances' = [i \in 1 .. Len(s) |-> balances'[i]]
    BY <2>2, <2>4
  <2> QED BY <2>6, <2>7
<1>4. ASSUME NEW t \in Threads, ListUnspent(t) PROVE BalancesOK'
  <2>1. PICK outs \in SUBSET Spendable : \E s \in Orders(outs) :
            balances' = balances \o [i \in DOMAIN s |-> Bare(s[i])]
    BY <1>4 DEF ListUnspent
  <2>2. PICK s \in Orders(outs) : balances' = balances \o [i \in DOMAIN s |-> Bare(s[i])]
    BY <2>1
  <2>3. s \in Seq(Payable)
    BY ListedPayable DEF Types
  <2>4. [i \in DOMAIN s |-> Bare(s[i])] \in Seq(Keyed)
    BY <1>0, <2>3
  <2> QED BY <2>2, <2>4 DEF Types
<1>5. ASSUME NEW t \in Threads, DecodeAddress(t) PROVE BalancesOK'
  <2>1. CASE UNCHANGED balances
    BY <2>1 DEF Types
  <2>2. CASE /\ sender[t].i \leq Len(sender[t].scan) /\ sender[t].i \leq Len(balances)
             /\ balances' = [balances EXCEPT ![sender[t].i].addr = sender[t].scan[sender[t].i]]
    <3>1. sender[t].scan \in Seq(Outputs) /\ sender[t].i \in Nat /\ sender[t].i >= 1
      BY <1>5 DEF DecodeAddress, At, Types, SenderOK, Placed, SenderStates
    <3>2. sender[t].scan[sender[t].i] \in Outputs
      BY <2>2, <3>1
    <3>3. \A b \in Keyed : [b EXCEPT !.addr = sender[t].scan[sender[t].i]] \in Keyed
      BY <3>2 DEF Keyed
    <3> QED BY <2>2, <3>1, <3>3 DEF Types
  <2>3. sender[t].i \in Nat /\ Len(sender[t].scan) \in Nat /\ Len(balances) \in Nat
    BY DEF Types, SenderOK, SenderStates
  <2> QED BY <1>5, <2>1, <2>2, <2>3 DEF DecodeAddress, Panic
<1>6. ASSUME NEW t \in Threads, DumpPrivKey(t) PROVE BalancesOK'
  <2>1. CASE UNCHANGED balances
    BY <2>1 DEF Types
  <2>2. CASE /\ sender[t].i \leq Len(balances)
             /\ balances' = [balances EXCEPT ![sender[t].i].wif = sender[t].scan[sender[t].i]]
    <3>1. /\ sender[t].scan \in Seq(Outputs) /\ sender[t].i \in Nat /\ sender[t].i >= 1
          /\ sender[t].i <= Len(sender[t].scan)
      BY <1>6 DEF DumpPrivKey, At, Types, SenderOK, Placed, SenderStates
    <3>2. sender[t].scan[sender[t].i] \in Outputs
      BY <2>2, <3>1
    <3>3. \A b \in Keyed : [b EXCEPT !.wif = sender[t].scan[sender[t].i]] \in Keyed
      BY <3>2 DEF Keyed
    <3> QED BY <2>2, <3>1, <3>3 DEF Types
  <2>3. sender[t].i \in Nat /\ Len(balances) \in Nat
    BY DEF Types, SenderOK, SenderStates
  <2> QED BY <1>6, <2>1, <2>2, <2>3 DEF DumpPrivKey, Panic
<1>7. ASSUME NEW t \in Threads, DropBalance(t) PROVE BalancesOK'
  <2>1. CASE UNCHANGED balances
    BY <2>1 DEF Types
  <2>2. CASE balances # <<>> /\ balances' = Tail(balances)
    BY <2>2 DEF Types
  <2> QED BY <1>7, <2>1, <2>2 DEF DropBalance, Panic
<1>8. CASE UNCHANGED balances
  BY <1>8 DEF Types
<1>9. ASSUME NEW t \in Threads, SendRawTransactionToBTC(t) PROVE BalancesOK'
  <2>1. CASE balances' = <<>>
    BY <2>1
  <2> QED
    BY <1>4, <1>5, <1>6, <1>7, <1>8, <1>9, <2>1 DEF SendRawTransactionToBTC, sanityCheck,
       updateUTXO, LookAgain, TakeBalance, sendRawTransaction, SetBTCTxHash, Panic
<1>10. ASSUME NEW t \in Threads, SenderFails(t) PROVE BalancesOK'
  BY <1>8, <1>10 DEF SenderFails, ListUnspentFails, DumpPrivKeyFails, SendRawTransactionFails
<1>11. CASE Crash \/ newDirectoryBlock \/ Age \/ checkForReAnchor \/ ReAnchor
  BY <1>8, <1>11 DEF Crash, newDirectoryBlock, Age, checkForReAnchor, ReAnchor, memory
<1>12. ASSUME NEW tx \in mempool, Mine(tx) \/ Mutate(tx) \/ Evict(tx) PROVE BalancesOK'
  BY <1>8, <1>12 DEF Mine, Mutate, Evict, KeepInBitcoin
<1>13. ASSUME NEW tx \in notif, saveDirBlockInfo(tx) PROVE BalancesOK'
  BY <1>8, <1>13 DEF saveDirBlockInfo
<1>14. ASSUME NEW s \in savers, InsertConfirmed(s) \/ submitEntryToAnchorChain(s)
       PROVE  BalancesOK'
  BY <1>8, <1>14 DEF InsertConfirmed, submitEntryToAnchorChain
<1>15. CASE UNCHANGED vars
  BY <1>8, <1>15 DEF vars, memory
<1> QED BY <1>1, <1>2, <1>3, <1>9, <1>10, <1>11, <1>12, <1>13, <1>14, <1>15 DEF Next

\* A goroutine that has returned is well placed.
LEMMA IdlePlaced == Idle \in SenderStates /\ Placed(Idle)
BY AnchorAssumption DEF Idle, Bare, SenderStates, PCs, Held, Heights, Placed, Carries

\* A step of one sender.
LEMMA OneSender ==
    ASSUME SenderOK, Stored \subseteq Stored', NEW t \in Threads,
           NEW s \in SenderStates, Placed(s),
           sender' = [sender EXCEPT ![t] = s]
    PROVE  SenderOK'
<1>1. \A x : Placed(x) => Placed(x)'
  BY DEF Placed, Carries
<1>2. sender' \in [Threads -> SenderStates]
  BY DEF SenderOK
<1>3. \A u \in Threads : Placed(sender'[u])
  BY DEF SenderOK
<1> QED BY <1>1, <1>2, <1>3 DEF SenderOK

LEMMA SenderStep ==
    ASSUME Types, [Next]_vars PROVE SenderOK'
<1>0. Stored \subseteq Stored' /\ SenderOK
  BY StoredGrows DEF Types
<1>1. CASE InitAnchor \/ InitAnchorFails \/ InitWalletFails
  <2>1. sender' = [t \in Threads |-> Idle]
    BY <1>1 DEF InitAnchor, InitAnchorFails, InitWalletFails, Boot
  <2> QED BY <2>1, IdlePlaced DEF SenderOK, Placed, Carries, Idle
<1>2. CASE UNCHANGED sender
  BY <1>0, <1>2 DEF SenderOK, Placed, Carries
<1>3. ASSUME NEW t \in Threads, Return(t) PROVE SenderOK'
  BY <1>0, <1>3, IdlePlaced, OneSender DEF Return
<1>4. ASSUME NEW t \in Threads, NEW h \in Stored',  StartSender(t, h) PROVE SenderOK'
  <2> DEFINE s == [Idle EXCEPT !.pc = "check", !.h = h]
  <2>1. h \in Heights
    BY HeightsStep, AnchorAssumption DEF Types, Stored, HeightsOK, Heights
  <2>2. s \in SenderStates /\ s.pc = "check" /\ s.h = h
    BY <2>1, IdlePlaced DEF Idle, SenderStates, PCs
  <2>3. sender' = [sender EXCEPT ![t] = s]
    BY <1>4 DEF StartSender
  <2> HIDE DEF s
  <2>4. Placed(s)'
    BY <2>2 DEF Placed, Carries
  <2>5. \A x : Placed(x) => Placed(x)'
    BY <1>0 DEF Placed, Carries
  <2> QED BY <1>0, <2>2, <2>3, <2>4, <2>5 DEF SenderOK
<1>5. CASE newDirectoryBlock
  <2>1. nextHeight \in Stored' /\ nextHeight \in Threads
    BY <1>5, AnchorAssumption DEF newDirectoryBlock, Stored, Types, HeightsOK, Threads, Heights
  <2> QED BY <1>4, <1>5, <2>1 DEF newDirectoryBlock
<1>6. CASE ReAnchor
  <2>1. \A h \in DOMAIN dirBlockInfoMap : h \in Stored'
    BY <1>0 DEF Types, MapOK
  <2> QED BY <1>2, <1>4, <1>6, <2>1 DEF ReAnchor, Threads
<1>7. CASE Crash \/ Age \/ checkForReAnchor
  BY <1>2, <1>7 DEF Crash, Age, checkForReAnchor, memory
<1>8. ASSUME NEW t \in Threads, Recheck(t, balances),
             At(t, "list") \/ At(t, "addr") \/ At(t, "wif") \/ At(t, "look")
      PROVE  SenderOK'
  <2> DEFINE s == [Idle EXCEPT !.pc = "take", !.h = sender[t].h]
  <2>1. sender[t].h \in Heights /\ sender[t].h \in Stored
    BY <1>0, <1>8 DEF At, SenderOK, SenderStates, Placed
  <2>2. s \in SenderStates /\ s.pc = "take" /\ s.h = sender[t].h
    BY <2>1, IdlePlaced DEF Idle, SenderStates, PCs
  <2>3. CASE sender' = [sender EXCEPT ![t] = s]
    <3> HIDE DEF s
    <3>1. Placed(s)
      BY <2>1, <2>2 DEF Placed, Carries
    <3> QED BY <1>0, <2>2, <2>3, <3>1, OneSender
  <2> QED BY <1>3, <1>8, <2>3 DEF Recheck
<1>9. ASSUME NEW t \in Threads, At(t, "check") \/ At(t, "clear"),
             Goto(t, "clear") \/ Goto(t, "look") \/ Goto(t, "list")
      PROVE  SenderOK'
  <2>1. \A pc \in {"clear", "look", "list"} : [sender[t] EXCEPT !.pc = pc] \in SenderStates
                                   /\ Placed([sender[t] EXCEPT !.pc = pc])
    BY <1>0, <1>9 DEF SenderOK, SenderStates, PCs, Placed, Carries, At
  <2> QED BY <1>0, <1>9, <2>1, OneSender DEF Goto
<1>10. ASSUME NEW t \in Threads, sanityCheck(t) \/ updateUTXO(t) \/ LookAgain(t)
       PROVE  SenderOK'
  BY <1>3, <1>8, <1>9, <1>10 DEF sanityCheck, updateUTXO, LookAgain
<1>11. ASSUME NEW t \in Threads, ListUnspent(t) PROVE SenderOK'
  <2>1. PICK scan : /\ scan = [j \in DOMAIN balances' |-> balances'[j].out]
                    /\ sender' = [sender EXCEPT ![t].pc = "addr", ![t].i = 1, ![t].scan = scan]
    BY <1>11 DEF ListUnspent
  <2>2. scan \in Seq(Outputs)
    <3>1. balances' \in Seq(Keyed)
      BY BalancesStep DEF BalancesOK
    <3>2. \A b \in Keyed : b.out \in Outputs
      BY DEF Keyed, Payable
    <3> QED BY <2>1, <3>1, <3>2
  <2> DEFINE s == [sender[t] EXCEPT !.pc = "addr", !.i = 1, !.scan = scan]
  <2>3. s \in SenderStates /\ Placed(s)
    <3>1. sender[t] \in SenderStates /\ sender[t].h \in Stored
      BY <1>0, <1>11 DEF SenderOK, Placed, At, ListUnspent
    <3>2. /\ s \in SenderStates
          /\ s.pc = "addr" /\ s.i = 1 /\ s.h = sender[t].h
      BY <2>2, <3>1 DEF SenderStates, PCs
    <3> QED BY <3>1, <3>2 DEF Placed, Carries
  <2>4. sender' = [sender EXCEPT ![t] = s]
    BY <2>1
  <2> QED BY <1>0, <2>3, <2>4, OneSender
<1>12. ASSUME NEW t \in Threads, DecodeAddress(t) PROVE SenderOK'
  <2>1. CASE ~(sender[t].i > Len(sender[t].scan)) /\ Goto(t, "wif")
    <3> DEFINE s == [sender[t] EXCEPT !.pc = "wif"]
    <3>1. /\ sender[t] \in SenderStates /\ Placed(sender[t]) /\ sender[t].pc = "addr"
          /\ sender[t].i \in Nat /\ Len(sender[t].scan) \in Nat
      BY <1>0, <1>12 DEF SenderOK, SenderStates, At, DecodeAddress
    <3>2. /\ s \in SenderStates /\ s.pc = "wif" /\ s.h = sender[t].h
          /\ s.i = sender[t].i /\ s.scan = sender[t].scan
      BY <3>1 DEF SenderStates, PCs
    <3>3. s.i <= Len(s.scan)
      BY <2>1, <3>1, <3>2
    <3>4. Placed(s)
      BY <3>1, <3>2, <3>3 DEF Placed, Carries
    <3> QED BY <1>0, <2>1, <3>2, <3>4, OneSender DEF Goto
  <2> QED BY <1>2, <1>8, <1>12, <2>1 DEF DecodeAddress, Panic
<1>13. ASSUME NEW t \in Threads, DumpPrivKey(t) PROVE SenderOK'
  <2> DEFINE n == sender[t].i + 1
             s == [sender[t] EXCEPT !.pc = "addr", !.i = n]
  <2>1. s \in SenderStates /\ Placed(s)
    <3>1. sender[t] \in SenderStates /\ sender[t].h \in Stored /\ sender[t].i \in Nat
      BY <1>0, <1>13 DEF SenderOK, Placed, SenderStates, At, DumpPrivKey
    <3>2. n \in Nat /\ n >= 1
      BY <3>1
    <3>3. /\ s \in SenderStates
          /\ s.pc = "addr" /\ s.i = n /\ s.h = sender[t].h
      <4> HIDE DEF n
      <4> QED BY <3>1, <3>2 DEF SenderStates, PCs
    <3> QED BY <3>1, <3>2, <3>3 DEF Placed, Carries
  <2>2. CASE sender' = [sender EXCEPT ![t] = s]
    BY <1>0, <2>1, <2>2, OneSender
  <2> QED BY <1>2, <1>13, <2>2 DEF DumpPrivKey, Panic
<1>14. ASSUME NEW t \in Threads, TakeBalance(t) PROVE SenderOK'
  <2> DEFINE s == [sender[t] EXCEPT !.pc = "drop", !.b = balances[1]]
  <2>1. CASE balances # <<>> /\ sender' = [sender EXCEPT ![t] = s]
    <3>1. balances[1] \in Keyed
      BY <2>1 DEF Types, BalancesOK
    <3>2. balances[1] \in Held /\ balances[1].out \in Payable
      BY <3>1 DEF Keyed, Held
    <3>3. s \in SenderStates /\ Placed(s)
      BY <1>0, <1>14, <3>2 DEF SenderOK, SenderStates, PCs, Placed, Carries, At, TakeBalance
    <3> QED BY <1>0, <2>1, <3>3, OneSender
  <2> QED BY <1>2, <1>14, <2>1 DEF TakeBalance, Panic
<1>15. ASSUME NEW t \in Threads, Goto(t, "send") \/ Goto(t, "record"), At(t, "drop") \/ At(t, "send")
       PROVE  SenderOK'
  <2>1. \A pc \in {"send", "record"} : [sender[t] EXCEPT !.pc = pc] \in SenderStates
                                   /\ Placed([sender[t] EXCEPT !.pc = pc])
    BY <1>0, <1>15 DEF SenderOK, SenderStates, PCs, Placed, Carries, At
  <2> QED BY <1>0, <1>15, <2>1, OneSender DEF Goto
<1>16. ASSUME NEW t \in Threads, DropBalance(t) PROVE SenderOK'
  BY <1>2, <1>3, <1>15, <1>16 DEF DropBalance, createRawTransaction, Panic
<1>17. ASSUME NEW t \in Threads, sendRawTransaction(t) \/ SetBTCTxHash(t) PROVE SenderOK'
  BY <1>3, <1>15, <1>17 DEF sendRawTransaction, SetBTCTxHash
<1>18. ASSUME NEW t \in Threads, SenderFails(t) PROVE SenderOK'
  BY <1>3, <1>8, <1>18 DEF SenderFails, ListUnspentFails, DumpPrivKeyFails, SendRawTransactionFails
<1>19. ASSUME NEW tx \in mempool, Mine(tx) \/ Mutate(tx) \/ Evict(tx) PROVE SenderOK'
  BY <1>2, <1>19 DEF Mine, Mutate, Evict, KeepInBitcoin
<1>20. ASSUME NEW tx \in notif, saveDirBlockInfo(tx) PROVE SenderOK'
  BY <1>2, <1>20 DEF saveDirBlockInfo
<1>21. ASSUME NEW s \in savers, InsertConfirmed(s) \/ submitEntryToAnchorChain(s)
       PROVE  SenderOK'
  BY <1>2, <1>21 DEF InsertConfirmed, submitEntryToAnchorChain
<1>22. CASE UNCHANGED vars
  BY <1>2, <1>22 DEF vars, memory
<1> QED
  BY <1>1, <1>5, <1>6, <1>7, <1>10, <1>11, <1>12, <1>13, <1>14, <1>16, <1>17, <1>18,
     <1>19, <1>20, <1>21, <1>22 DEF Next, SendRawTransactionToBTC

LEMMA BitcoinStep ==
    ASSUME Types, [Next]_vars PROVE BitcoinOK'
<1> USE DEF BitcoinOK
<1>0. BitcoinOK
  BY DEF Types
<1>1. CASE watched' \subseteq watched /\ notif' \subseteq notif /\ UNCHANGED bitcoin
  BY <1>0, <1>1 DEF bitcoin
<1>2. CASE InitAnchor \/ InitAnchorFails \/ InitWalletFails
  BY <1>1, <1>2 DEF InitAnchor, InitAnchorFails, InitWalletFails, Boot
<1>3. CASE Crash \/ newDirectoryBlock \/ Age \/ checkForReAnchor \/ ReAnchor
  BY <1>1, <1>3 DEF Crash, newDirectoryBlock, Age, checkForReAnchor, ReAnchor, memory, others
<1>4. ASSUME NEW t \in Threads, DropBalance(t) PROVE BitcoinOK'
  <2>1. notif' = notif /\ UNCHANGED bitcoin
    BY <1>4 DEF DropBalance, KeepInSender
  <2>2. watched' \in {watched, watched \cup {sender[t].b.out}}
    BY <1>4 DEF DropBalance, createRawTransaction, NotifySpent
  <2>3. sender[t].b.out \in Outputs
    BY <1>4 DEF DropBalance, At, Types, SenderOK, Placed, Carries, Payable
  <2> QED BY <1>0, <2>1, <2>2, <2>3 DEF bitcoin
<1>5. ASSUME NEW t \in Threads, sendRawTransaction(t) \/ SendRawTransactionFails(t)
      PROVE  BitcoinOK'
  <2>1. TxOf(t) \in [out : Payable, h : Heights, mutated : {FALSE}]
    BY <1>5 DEF sendRawTransaction, SendRawTransactionFails, At, Types, SenderOK, Placed,
       Carries, SenderStates, TxOf, RawTransaction
  <2>2. /\ mempool' \in {mempool, mempool \cup {TxOf(t)}}
        /\ UNCHANGED <<mined, unspent, notif, watched>>
    BY <1>5 DEF sendRawTransaction, SendRawTransactionFails, KeepInSender
  <2> QED BY <1>0, <2>1, <2>2
<1>6. ASSUME NEW t \in Threads, SendRawTransactionToBTC(t) PROVE BitcoinOK'
  BY <1>1, <1>4, <1>5, <1>6 DEF SendRawTransactionToBTC, sanityCheck, updateUTXO, LookAgain, ListUnspent,
     DecodeAddress, DumpPrivKey, TakeBalance, SetBTCTxHash, KeepInSender, others
<1>7. ASSUME NEW t \in Threads, SenderFails(t) PROVE BitcoinOK'
  BY <1>1, <1>5, <1>7 DEF SenderFails, ListUnspentFails, DumpPrivKeyFails, KeepInSender
<1>8. ASSUME NEW tx \in mempool, NEW as \in Tx, Enters(tx, as), UNCHANGED watched
      PROVE  BitcoinOK'
  <2>1. tx.out \in Payable
    BY <1>0
  <2>2. <<tx.out[1], tx.out[2] - 1>> \in Outputs
    BY <2>1 DEF Payable, Outputs
  <2>3. IsFiniteSet((unspent \ {tx.out}) \cup {<<tx.out[1], tx.out[2] - 1>>})
    BY <1>0, FS_RemoveElement, FS_AddElement
  <2> QED BY <1>0, <1>8, <2>2, <2>3 DEF Enters
<1>9. ASSUME NEW tx \in mempool, Mine(tx) \/ Mutate(tx) \/ Evict(tx) PROVE BitcoinOK'
  <2>1. tx \in Tx /\ [tx EXCEPT !.mutated = TRUE] \in Tx
    BY <1>0 DEF Tx, Payable
  <2>2. CASE Evict(tx)
    BY <1>0, <2>2 DEF Evict, KeepInBitcoin
  <2> QED BY <1>8, <1>9, <2>1, <2>2 DEF Mine, Mutate, KeepInBitcoin
<1>10. ASSUME NEW tx \in notif, saveDirBlockInfo(tx) PROVE BitcoinOK'
  BY <1>1, <1>10 DEF saveDirBlockInfo, others
<1>11. ASSUME NEW s \in savers, InsertConfirmed(s) \/ submitEntryToAnchorChain(s)
       PROVE  BitcoinOK'
  BY <1>1, <1>11 DEF InsertConfirmed, submitEntryToAnchorChain
<1>12. CASE UNCHANGED vars
  BY <1>1, <1>12 DEF vars, memory
<1> QED BY <1>2, <1>3, <1>6, <1>7, <1>9, <1>10, <1>11, <1>12 DEF Next

\* Only submitEntryToAnchorChain writes records.
LEMMA RecordsFrame ==
    ASSUME [Next]_vars, ~\E s \in savers : submitEntryToAnchorChain(s)
    PROVE  records' = records
BY DEF Next, vars, InitAnchor, InitAnchorFails, InitWalletFails, Boot, Crash, newDirectoryBlock,
     Age, checkForReAnchor, ReAnchor, SendRawTransactionToBTC, sanityCheck, updateUTXO, LookAgain, ListUnspent,
     DecodeAddress, DumpPrivKey, TakeBalance, DropBalance, sendRawTransaction,
     SetBTCTxHash, SenderFails, ListUnspentFails, DumpPrivKeyFails,
     SendRawTransactionFails, KeepInSender, Mine, Mutate, Evict, KeepInBitcoin, saveDirBlockInfo,
     InsertConfirmed, others, history

LEMMA RecordsStep ==
    ASSUME Types, [Next]_vars PROVE RecordsOK'
<1>1. ASSUME NEW s \in savers, submitEntryToAnchorChain(s) PROVE RecordsOK'
  <2>1. s.h \in Heights /\ s.tx \in Tx
    BY AnchorAssumption DEF Types, SaversOK, Stored, HeightsOK, Heights
  <2>2. Append(records[s.h], s.tx) \in Seq(Tx)
    BY <2>1 DEF Types, RecordsOK
  <2>3. records' \in {records, [records EXCEPT ![s.h] = Append(records[s.h], s.tx)]}
    BY <1>1 DEF submitEntryToAnchorChain
  <2> QED BY <2>1, <2>2, <2>3 DEF Types, RecordsOK
<1> QED BY <1>1, RecordsFrame DEF Types, RecordsOK

LEMMA TypesStep ==
    ASSUME Types, [Next]_vars PROVE Types'
BY FlagsStep, HeightsStep, MapStep, SaversStep, BalancesStep, SenderStep, BitcoinStep,
   RecordsStep DEF Types

LEMMA TypesInv == Spec => []Types
<1>1. Types /\ [Next]_vars => Types'
  BY TypesStep
<1> QED BY <1>1, InitTypes, PTL DEF Spec

LEMMA TypesImply == Types => TypeOK
<1> SUFFICES ASSUME Types PROVE TypeOK
  OBVIOUS
<1>1. proc \in {"down", "up", "panic"} /\ {clients, tickerOn, defaultAddress, clean} \subseteq BOOLEAN
  BY DEF Types, FlagsOK
<1>2. \A i \in DOMAIN balances : balances[i] \in Balances
  <2>1. Keyed \subseteq Balances
    BY DEF Keyed, Payable, Balances
  <2> QED BY <2>1 DEF Types, BalancesOK
<1>3. /\ DOMAIN dirBlockInfoMap \subseteq 0 .. (nextHeight - 1)
      /\ \A h \in DOMAIN dirBlockInfoMap :
            /\ dirBlockInfoMap[h].confirmed \in BOOLEAN
            /\ dirBlockInfoMap[h].tx \in Tx \cup {None}
  BY DEF Types, MapOK, InfoOK, Infos, Stored
<1>4. \A t \in Threads : Active(t) => sender[t].h \in 0 .. (nextHeight - 1)
  BY DEF Types, SenderOK, Placed, Active, Stored
<1>5. /\ nextHeight \in 0 .. (MaxHeight + 1) /\ old \in 0 .. nextHeight
      /\ faults \in 0 .. MaxFaults /\ boots \in 0 .. MaxBoots
  BY DEF Types, HeightsOK
<1>6. mempool \cup mined \cup notif \subseteq Tx /\ unspent \cup watched \subseteq Outputs
  BY DEF Types, BitcoinOK, Tx, Payable
<1>7. \A h \in Heights : \A i \in DOMAIN records[h] : records[h][i] \in Tx
  BY DEF Types, RecordsOK
<1> QED BY <1>1, <1>2, <1>3, <1>4, <1>5, <1>6, <1>7 DEF TypeOK

\* Type correctness: whatever the goroutines of anchor.go interleave, the map,
\* the senders and the savers speak of stored blocks only, and every balance,
\* transaction and record has its type.
THEOREM TypeCorrect == Spec => []TypeOK
BY TypesInv, TypesImply, PTL

----------------------------------------------------------------------------

\* Bitcoin: every coin is one output, worth less than when it was spent.
Ledger ==
    /\ \A o, p \in unspent : o[1] = p[1] => o = p
    /\ \A tx \in mined, o \in unspent : tx.out[1] = o[1] => o[2] < tx.out[2]
    /\ \A tx \in mempool : tx.out \in unspent
    /\ \A tx, ty \in mempool : tx.out = ty.out => tx = ty

InRecords(tx) == \E h \in Heights : \E i \in DOMAIN records[h] : records[h][i] = tx

\* A mined transaction is in one place: its callback is outstanding, one
\* goroutine saves it, or it is recorded.
OnePlace ==
    /\ notif \subseteq mined
    /\ \A s \in savers : s.tx \in mined /\ s.tx.h = s.h
    /\ \A tx : InRecords(tx) => tx \in mined
    /\ \A s \in savers : s.tx \notin notif /\ ~InRecords(s.tx)
    /\ \A s, r \in savers : s.tx = r.tx => s = r
    /\ \A tx \in notif : ~InRecords(tx)

ChainInv == Ledger /\ OnePlace

\* Nothing is sent, mined or recorded at first.
LEMMA InitChain == Init => ChainInv
<1> SUFFICES ASSUME Init PROVE ChainInv
  OBVIOUS
<1>1. Ledger
  BY DEF Init, Ledger
<1>2. OnePlace
  BY DEF Init, OnePlace, InRecords
<1> QED BY <1>1, <1>2 DEF ChainInv

\* A transaction enters a bitcoin block, as it is or mutated.
LEMMA EntersStep ==
    ASSUME Types, ChainInv, NEW tx \in mempool, NEW as, as.out = tx.out, Enters(tx, as),
           UNCHANGED <<savers, records>>
    PROVE  ChainInv'
<1> DEFINE o == tx.out
           new == <<o[1], o[2] - 1>>
<1>1. o \in unspent /\ o \in Outputs /\ o[2] \in Nat
  BY DEF ChainInv, Ledger, Types, BitcoinOK, Outputs
<1>2. /\ mempool' = mempool \ {tx} /\ mined' = mined \cup {as}
      /\ unspent' = (unspent \ {o}) \cup {new}
      /\ notif' \in {notif, notif \cup {as}}
  BY DEF Enters
<1>3. as \notin mined
  <2> SUFFICES ASSUME as \in mined PROVE FALSE
    OBVIOUS
  <2>1. as.out[1] = o[1] => o[2] < as.out[2]
    BY <1>1 DEF ChainInv, Ledger
  <2>2. o[2] < o[2]
    BY <2>1
  <2> QED BY <1>1, <2>2
<1>4. new[1] = o[1] /\ new[2] = o[2] - 1 /\ new[2] \in Int
  BY <1>1
<1>5. \A p \in unspent : p # o => p[1] # o[1]
  BY <1>1 DEF ChainInv, Ledger
<1>6. \A ty \in mined : ty.out[2] \in Nat
  BY DEF Types, BitcoinOK, Tx, Outputs
<1>9. as.out = o
  OBVIOUS
<1> HIDE DEF o, new
<1>7. Ledger'
  <2>1. \A p, q \in unspent' : p[1] = q[1] => p = q
    BY <1>2, <1>4, <1>5 DEF ChainInv, Ledger
  <2>2. \A ty \in mined', p \in unspent' : ty.out[1] = p[1] => p[2] < ty.out[2]
    <3> SUFFICES ASSUME NEW ty \in mined', NEW p \in unspent', ty.out[1] = p[1]
                 PROVE  p[2] < ty.out[2]
      OBVIOUS
    <3>1. CASE ty \in mined /\ p \in unspent
      BY <3>1 DEF ChainInv, Ledger
    <3>2. CASE ty \in mined /\ p = new
      <4>1. o[2] < ty.out[2]
        BY <1>1, <1>4, <3>2 DEF ChainInv, Ledger
      <4> QED BY <1>1, <1>4, <1>6, <3>2, <4>1
    <3>3. CASE ty = as /\ p = new
      <4>1. ty.out = o /\ p[2] = o[2] - 1
        BY <1>4, <1>9, <3>3
      <4>2. p[2] < o[2]
        BY <1>1, <4>1
      <4> QED BY <4>1, <4>2
    <3>4. CASE ty = as /\ p \in unspent \ {o}
      BY <1>5, <1>9, <3>4
    <3> QED BY <1>2, <3>1, <3>2, <3>3, <3>4
  <2>3. \A ty \in mempool' : ty.out \in unspent'
    BY <1>2 DEF ChainInv, Ledger, o
  <2>4. \A ty, tz \in mempool' : ty.out = tz.out => ty = tz
    BY <1>2 DEF ChainInv, Ledger
  <2> QED BY <2>1, <2>2, <2>3, <2>4 DEF Ledger
<1>8. OnePlace'
  <2>1. \A ty : InRecords(ty)' = InRecords(ty)
    BY DEF InRecords
  <2> QED BY <1>2, <1>3, <2>1 DEF ChainInv, OnePlace
<1> QED BY <1>7, <1>8 DEF ChainInv

\* Every step keeps the ledger and the one place of a mined transaction.
LEMMA ChainStep ==
    ASSUME Types, ChainInv, [Next]_vars PROVE ChainInv'
<1>0. \A tx : records' = records => InRecords(tx)' = InRecords(tx)
  BY DEF InRecords
<1>1. CASE UNCHANGED bitcoin /\ records' = records /\ notif' \subseteq notif /\ savers' \subseteq savers
  <2>1. Ledger'
    BY <1>1 DEF bitcoin, ChainInv, Ledger
  <2>2. OnePlace'
    BY <1>0, <1>1 DEF bitcoin, ChainInv, OnePlace
  <2> QED BY <2>1, <2>2 DEF ChainInv
<1>2. CASE InitAnchor \/ InitAnchorFails \/ InitWalletFails
  BY <1>1, <1>2 DEF InitAnchor, InitAnchorFails, InitWalletFails, Boot
<1>3. CASE Crash \/ newDirectoryBlock \/ Age \/ checkForReAnchor \/ ReAnchor
  BY <1>1, <1>3 DEF Crash, newDirectoryBlock, Age, checkForReAnchor, ReAnchor, memory, others,
     history
<1>4. ASSUME NEW t \in Threads, sendRawTransaction(t) \/ SendRawTransactionFails(t)
      PROVE  ChainInv'
  <2>1. UNCHANGED <<unspent, mined, notif, savers, records>>
    BY <1>4 DEF sendRawTransaction, SendRawTransactionFails, KeepInSender, history
  <2>2. CASE mempool' = mempool
    BY <1>1, <2>1, <2>2 DEF bitcoin
  <2>3. CASE Accepted(TxOf(t)) /\ mempool' = mempool \cup {TxOf(t)}
    <3>1. TxOf(t).out \in unspent /\ \A tx \in mempool : tx.out # TxOf(t).out
      BY <2>3 DEF Accepted, InFlight
    <3>2. Ledger'
      BY <2>1, <2>3, <3>1 DEF ChainInv, Ledger
    <3>3. OnePlace'
      BY <1>0, <2>1 DEF ChainInv, OnePlace
    <3> QED BY <3>2, <3>3 DEF ChainInv
  <2> QED BY <1>4, <2>2, <2>3 DEF sendRawTransaction, SendRawTransactionFails
<1>5. ASSUME NEW t \in Threads, SendRawTransactionToBTC(t) PROVE ChainInv'
  BY <1>1, <1>4, <1>5 DEF SendRawTransactionToBTC, sanityCheck, updateUTXO, LookAgain, ListUnspent,
     DecodeAddress, DumpPrivKey, TakeBalance, DropBalance, SetBTCTxHash, KeepInSender,
     others, history
<1>6. ASSUME NEW t \in Threads, SenderFails(t) PROVE ChainInv'
  BY <1>1, <1>4, <1>6 DEF SenderFails, ListUnspentFails, DumpPrivKeyFails, KeepInSender, history
<1>7. ASSUME NEW tx \in mempool, Mine(tx) \/ Mutate(tx) \/ Evict(tx) PROVE ChainInv'
  <2>1. UNCHANGED <<savers, records>>
    BY <1>7 DEF Mine, Mutate, Evict, KeepInBitcoin, history
  <2>2. CASE Mine(tx)
    BY <2>1, <2>2, EntersStep DEF Mine
  <2>3. CASE Mutate(tx)
    <3>1. [tx EXCEPT !.mutated = TRUE].out = tx.out
      BY DEF Types, BitcoinOK
    <3> QED BY <2>1, <2>3, <3>1, EntersStep DEF Mutate
  <2>4. CASE Evict(tx)
    <3>1. mempool' \subseteq mempool /\ UNCHANGED <<unspent, mined, notif>>
      BY <2>4 DEF Evict
    <3>2. Ledger'
      BY <3>1 DEF ChainInv, Ledger
    <3>3. OnePlace'
      BY <1>0, <2>1, <3>1 DEF ChainInv, OnePlace
    <3> QED BY <3>2, <3>3 DEF ChainInv
  <2> QED BY <1>7, <2>2, <2>3, <2>4
<1>8. ASSUME NEW tx \in notif, saveDirBlockInfo(tx) PROVE ChainInv'
  <2>1. notif' = notif \ {tx} /\ UNCHANGED bitcoin /\ records' = records
    BY <1>8 DEF saveDirBlockInfo, others, history
  <2>2. CASE savers' = savers
    BY <1>1, <2>1, <2>2
  <2>3. ASSUME NEW h \in Match(tx), savers' = savers \cup {[h |-> h, tx |-> tx, pc |-> "insert"]}
        PROVE  ChainInv'
    <3>1. tx.h = h
      <4>1. InfoOK(h, dirBlockInfoMap[h]) /\ dirBlockInfoMap[h].tx = tx
        BY DEF Match, Types, MapOK
      <4>2. tx # None
        BY NoneAssumption DEF Types, BitcoinOK
      <4> QED BY <4>1, <4>2 DEF InfoOK
    <3>2. Ledger'
      BY <2>1 DEF bitcoin, ChainInv, Ledger
    <3>3. OnePlace'
      BY <1>0, <2>1, <2>3, <3>1 DEF bitcoin, ChainInv, OnePlace
    <3> QED BY <3>2, <3>3 DEF ChainInv
  <2> QED BY <1>8, <2>2, <2>3 DEF saveDirBlockInfo
<1>9. ASSUME NEW s \in savers, InsertConfirmed(s) PROVE ChainInv'
  <2> DEFINE r == [s EXCEPT !.pc = "submit"]
  <2>1. /\ UNCHANGED <<bitcoin, records, notif>>
        /\ savers' = (savers \ {s}) \cup {r}
    BY <1>9 DEF InsertConfirmed, history
  <2>2. r.tx = s.tx /\ r.h = s.h
    BY DEF Types, SaversOK
  <2> HIDE DEF r
  <2>3. Ledger'
    BY <2>1 DEF bitcoin, ChainInv, Ledger
  <2>4. OnePlace'
    BY <1>0, <2>1, <2>2 DEF bitcoin, ChainInv, OnePlace
  <2> QED BY <2>3, <2>4 DEF ChainInv
<1>10. ASSUME NEW s \in savers, submitEntryToAnchorChain(s) PROVE ChainInv'
  <2>1. UNCHANGED <<bitcoin, notif>>
    BY <1>10 DEF submitEntryToAnchorChain
  <2>2. CASE UNCHANGED <<records, savers>>
    BY <1>1, <2>1, <2>2
  <2>3. CASE /\ records' = [records EXCEPT ![s.h] = Append(@, s.tx)]
             /\ savers' = savers \ {s}
    <3>1. s.h \in Heights /\ records \in [Heights -> Seq(Tx)]
      BY AnchorAssumption DEF Types, SaversOK, Stored, HeightsOK, Heights, RecordsOK
    <3>2. ASSUME NEW tx, InRecords(tx)' PROVE InRecords(tx) \/ tx = s.tx
      <4>1. PICK h \in Heights : \E i \in DOMAIN records'[h] : records'[h][i] = tx
        BY <3>2 DEF InRecords
      <4>2. PICK i \in DOMAIN records'[h] : records'[h][i] = tx
        BY <4>1
      <4>3. CASE h # s.h
        BY <2>3, <3>1, <4>2, <4>3 DEF InRecords
      <4>4. CASE h = s.h
        <5>1. records'[h] = Append(records[h], s.tx) /\ records[h] \in Seq(Tx)
          BY <2>3, <3>1, <4>4
        <5>2. i \in 1 .. (Len(records[h]) + 1) /\ Len(records[h]) \in Nat
          BY <4>2, <5>1
        <5>3. i \in DOMAIN records[h] => records[h][i] = tx
          BY <4>2, <5>1
        <5>4. i \notin DOMAIN records[h] => tx = s.tx
          BY <4>2, <5>1, <5>2
        <5> QED BY <5>3, <5>4 DEF InRecords
      <4> QED BY <4>3, <4>4
    <3>3. Ledger'
      BY <2>1 DEF bitcoin, ChainInv, Ledger
    <3>4. OnePlace'
      BY <2>1, <2>3, <3>2 DEF bitcoin, ChainInv, OnePlace
    <3> QED BY <3>3, <3>4 DEF ChainInv
  <2> QED BY <1>10, <2>2, <2>3 DEF submitEntryToAnchorChain
<1>11. CASE UNCHANGED vars
  BY <1>1, <1>11 DEF vars, memory, history
<1> QED BY <1>2, <1>3, <1>5, <1>6, <1>7, <1>8, <1>9, <1>10, <1>11 DEF Next

\* The invariant that the refinement needs.
LEMMA ChainInvariant == Spec => [](Types /\ ChainInv)
<1>1. Types /\ ChainInv /\ [Next]_vars => Types' /\ ChainInv'
  BY TypesStep, ChainStep
<1> QED BY <1>1, InitTypes, InitChain, PTL DEF Spec

\* Only bitcoin's steps write mined.
LEMMA MinedFrame ==
    ASSUME [Next]_vars, ~\E tx \in mempool : Mine(tx) \/ Mutate(tx)
    PROVE  mined' = mined
BY DEF Next, vars, InitAnchor, InitAnchorFails, InitWalletFails, Boot, Crash, newDirectoryBlock,
     Age, checkForReAnchor, ReAnchor, SendRawTransactionToBTC, sanityCheck, updateUTXO, LookAgain, ListUnspent,
     DecodeAddress, DumpPrivKey, TakeBalance, DropBalance, sendRawTransaction,
     SetBTCTxHash, SenderFails, ListUnspentFails, DumpPrivKeyFails,
     SendRawTransactionFails, KeepInSender, Evict, saveDirBlockInfo,
     InsertConfirmed, submitEntryToAnchorChain, others, bitcoin

\* The anchor records that submitEntryToAnchorChain submits implement
\* AnchorChain: a record names a mined transaction that carries its block, and
\* none is submitted twice, with any number of concurrent senders, callbacks,
\* retries, mutated and lost transactions and restarts.
THEOREM RecordsFormChain == Spec => RecordsFormAnchorChain
<1>1. Init => Chain!Init
  BY DEF Init, Chain!Init
<1>2. ASSUME Types, ChainInv, [Next]_vars
      PROVE  [Chain!Next]_<<records, mined>>
  <2>1. ASSUME NEW tx \in mempool, Mine(tx) \/ Mutate(tx)
        PROVE  Chain!Next
    <3>1. PICK as : mined' = mined \cup {as}
      BY <2>1 DEF Mine, Mutate, Enters
    <3>2. records' = records
      BY <2>1 DEF Mine, Mutate, KeepInBitcoin, history
    <3> QED BY <3>1, <3>2 DEF Chain!Next, Chain!Mine
  <2>2. ASSUME NEW s \in savers, submitEntryToAnchorChain(s)
        PROVE  [Chain!Next]_<<records, mined>>
    <3>1. mined' = mined
      BY <2>2 DEF submitEntryToAnchorChain, bitcoin
    <3>2. CASE records' = records
      BY <3>1, <3>2
    <3>3. CASE records' = [records EXCEPT ![s.h] = Append(@, s.tx)]
      <4>1. s.h \in Heights
        BY <1>2, AnchorAssumption DEF Types, SaversOK, Stored, HeightsOK, Heights
      <4>2. /\ s.tx \in mined /\ s.tx.h = s.h
            /\ \A i \in DOMAIN records[s.h] : records[s.h][i] # s.tx
        BY <1>2, <4>1 DEF ChainInv, OnePlace, InRecords
      <4> QED BY <3>1, <3>3, <4>1, <4>2 DEF Chain!Next, Chain!Record
    <3> QED BY <2>2, <3>2, <3>3 DEF submitEntryToAnchorChain
  <2> QED BY <1>2, <2>1, <2>2, RecordsFrame, MinedFrame
<1> QED BY <1>1, <1>2, ChainInvariant, PTL DEF Spec, RecordsFormAnchorChain, Chain!Spec

----------------------------------------------------------------------------

\* InsertConfirmed is the only step that takes an info out of the map, and its
\* goroutine goes on to submit the record.
LEMMA TrackedStep ==
    ASSUME Types, TrackedUntilConfirmed, [Next]_vars PROVE TrackedUntilConfirmed'
<1>1. ASSUME UNCHANGED <<nextHeight, base, records>>, proc' = "up" => proc = "up",
             DOMAIN dirBlockInfoMap \subseteq DOMAIN dirBlockInfoMap',
             savers \subseteq savers'
      PROVE  TrackedUntilConfirmed'
  BY <1>1 DEF TrackedUntilConfirmed, Known
<1>2. CASE InitAnchor \/ InitAnchorFails \/ InitWalletFails
  <2>1. base' = nextHeight /\ nextHeight' = nextHeight /\ nextHeight \in Nat
    BY <1>2, AnchorAssumption DEF InitAnchor, InitAnchorFails, InitWalletFails, Boot, store,
       Types, HeightsOK
  <2>2. base' .. (nextHeight' - 1) = {}
    BY <2>1
  <2> QED BY <2>2 DEF TrackedUntilConfirmed
<1>3. CASE Crash \/ Age \/ checkForReAnchor \/ ReAnchor
  BY <1>1, <1>3 DEF Crash, Age, checkForReAnchor, ReAnchor, memory, others, history, store
<1>4. CASE newDirectoryBlock
  <2>1. /\ nextHeight' = nextHeight + 1 /\ nextHeight \in Nat /\ base \in Nat
        /\ DOMAIN dirBlockInfoMap' = DOMAIN dirBlockInfoMap \cup {nextHeight}
        /\ UNCHANGED <<proc, base, records, savers>>
    BY <1>4, AnchorAssumption DEF newDirectoryBlock, Types, HeightsOK, history
  <2> SUFFICES ASSUME proc = "up", NEW h \in base .. nextHeight
               PROVE  Known(h)'
    BY <2>1 DEF TrackedUntilConfirmed
  <2>2. CASE h = nextHeight
    BY <2>1, <2>2 DEF Known
  <2>3. CASE h \in base .. (nextHeight - 1)
    BY <2>1, <2>3 DEF TrackedUntilConfirmed, Known
  <2> QED BY <2>1, <2>2, <2>3
<1>5. ASSUME NEW t \in Threads, SetBTCTxHash(t) PROVE TrackedUntilConfirmed'
  <2>1. DOMAIN dirBlockInfoMap' = DOMAIN dirBlockInfoMap
    BY <1>5 DEF SetBTCTxHash
  <2> QED BY <1>1, <1>5, <2>1 DEF SetBTCTxHash, others, history, store
<1>6. ASSUME NEW t \in Threads, SendRawTransactionToBTC(t) PROVE TrackedUntilConfirmed'
  BY <1>1, <1>5, <1>6 DEF SendRawTransactionToBTC, sanityCheck, updateUTXO, LookAgain, ListUnspent, At,
     DecodeAddress, DumpPrivKey, TakeBalance, DropBalance, sendRawTransaction, KeepInSender,
     history, store
<1>7. ASSUME NEW t \in Threads, SenderFails(t) PROVE TrackedUntilConfirmed'
  BY <1>1, <1>7 DEF SenderFails, ListUnspentFails, DumpPrivKeyFails, At,
     SendRawTransactionFails, KeepInSender, history, store
<1>8. ASSUME NEW tx \in mempool, Mine(tx) \/ Mutate(tx) \/ Evict(tx)
      PROVE  TrackedUntilConfirmed'
  BY <1>1, <1>8 DEF Mine, Mutate, Evict, KeepInBitcoin, history, store
<1>9. ASSUME NEW tx \in notif, saveDirBlockInfo(tx) PROVE TrackedUntilConfirmed'
  <2>1. DOMAIN dirBlockInfoMap' = DOMAIN dirBlockInfoMap /\ savers \subseteq savers'
    BY <1>9 DEF saveDirBlockInfo
  <2> QED BY <1>1, <1>9, <2>1 DEF saveDirBlockInfo, others, history, store
<1>10. ASSUME NEW s \in savers, InsertConfirmed(s) PROVE TrackedUntilConfirmed'
  <2>1. /\ DOMAIN dirBlockInfoMap' = DOMAIN dirBlockInfoMap \ {s.h}
        /\ savers' = (savers \ {s}) \cup {[s EXCEPT !.pc = "submit"]}
        /\ UNCHANGED <<proc, nextHeight, base, records>>
    BY <1>10 DEF InsertConfirmed, history
  <2>2. [s EXCEPT !.pc = "submit"].h = s.h
    BY DEF Types, SaversOK
  <2>3. \A h : Known(h) => Known(h)'
    BY <2>1, <2>2 DEF Known
  <2> QED BY <2>1, <2>3 DEF TrackedUntilConfirmed
<1>11. ASSUME NEW s \in savers, submitEntryToAnchorChain(s) PROVE TrackedUntilConfirmed'
  <2>1. CASE proc' = "panic"
    BY <2>1 DEF TrackedUntilConfirmed
  <2>2. CASE /\ records' = [records EXCEPT ![s.h] = Append(@, s.tx)]
             /\ savers' = savers \ {s}
             /\ UNCHANGED proc
    <3>1. UNCHANGED <<nextHeight, base, dirBlockInfoMap>>
      BY <1>11 DEF submitEntryToAnchorChain, store
    <3>2. s.h \in Heights /\ records \in [Heights -> Seq(Tx)] /\ s.tx \in Tx
      BY AnchorAssumption DEF Types, SaversOK, Stored, HeightsOK, Heights, RecordsOK
    <3>3. records'[s.h] = Append(records[s.h], s.tx) /\ records[s.h] \in Seq(Tx)
      BY <2>2, <3>2
    <3>4. records'[s.h] # <<>>
      BY <3>2, <3>3
    <3>5. ASSUME NEW h \in Heights, Known(h) PROVE Known(h)'
      <4>1. CASE h = s.h
        BY <3>4, <4>1 DEF Known
      <4>2. CASE h # s.h
        BY <2>2, <3>1, <3>2, <3>5, <4>2 DEF Known
      <4> QED BY <4>1, <4>2
    <3>6. base .. (nextHeight - 1) \subseteq Heights
      BY AnchorAssumption DEF Types, HeightsOK, Heights
    <3> QED BY <2>2, <3>1, <3>5, <3>6 DEF TrackedUntilConfirmed
  <2> QED BY <1>11, <2>1, <2>2 DEF submitEntryToAnchorChain
<1>12. CASE UNCHANGED vars
  BY <1>1, <1>12 DEF vars, memory, history, store
<1> QED BY <1>2, <1>3, <1>4, <1>6, <1>7, <1>8, <1>9, <1>10, <1>11, <1>12 DEF Next

\* Every block this process built is in dirBlockInfoMap, or a goroutine of
\* saveDirBlockInfo works on it, or its record was submitted: checkForReAnchor
\* can find every block that is not confirmed.
THEOREM NoBlockIsForgotten == Spec => []TrackedUntilConfirmed
<1>1. Init => TrackedUntilConfirmed
  BY DEF Init, TrackedUntilConfirmed
<1>2. Types /\ TrackedUntilConfirmed /\ [Next]_vars => TrackedUntilConfirmed'
  BY TrackedStep
<1> QED BY <1>1, <1>2, TypesInv, PTL DEF Spec

----------------------------------------------------------------------------

\* What a sender relies on when it is the only one: outside of the loop of
\* updateUTXO every balance has its address and its key, inside of it the ones
\* that were visited do, and the list it runs over is still the list.
Scanning(s, bs) ==
    /\ Len(s.scan) = Len(bs)
    /\ \A j \in DOMAIN bs :
        /\ s.scan[j] = bs[j].out
        /\ j < s.i => bs[j] = Filled(bs[j].out)
        /\ s.pc = "wif" /\ j = s.i => bs[j].addr = bs[j].out

AllFilled(bs) == \A j \in DOMAIN bs : bs[j] = Filled(bs[j].out)

Ready(s, bs) ==
    /\ s.pc \in {"addr", "wif"} => Scanning(s, bs)
    /\ s.pc \notin {"addr", "wif"} => AllFilled(bs)
    /\ s.pc = "list" => bs = <<>>
    /\ s.pc \in {"take", "drop"} => bs # <<>>
    /\ s.pc = "drop" => s.b = Filled(s.b.out)

Alone(t) == \A u \in Threads : u # t => sender[u].pc = "idle"

Sequential ==
    /\ defaultAddress
    /\ \E t \in Threads : Alone(t) /\ Ready(sender[t], balances)

CleanInv == clean => proc # "panic" /\ (proc = "up" => Sequential)

\* A thread that takes a step in a clean run is alone.
LEMMA TheSender ==
    ASSUME Types, CleanInv, clean, NEW t \in Threads, proc = "up", sender[t].pc # "idle"
    PROVE  defaultAddress /\ Alone(t) /\ Ready(sender[t], balances)
BY DEF CleanInv, Sequential, Alone

\* The sender of a clean run takes a step, and keeps what it relies on.
LEMMA SenderKeeps ==
    ASSUME Types, NEW t \in Threads, Alone(t), defaultAddress', proc' # "panic", NEW s,
           sender' = [sender EXCEPT ![t] = s], Ready(s, balances')
    PROVE  CleanInv'
<1>1. sender'[t] = s /\ \A u \in Threads : u # t => sender'[u] = sender[u]
  BY DEF Types, SenderOK
<1>2. Alone(t)'
  BY <1>1 DEF Alone
<1> QED BY <1>1, <1>2 DEF CleanInv, Sequential

\* A sender that returns leaves complete balances behind.
LEMMA IdleReady == \A bs : Ready(Idle, bs) <=> AllFilled(bs)
BY DEF Ready, Idle

\* Every step keeps a clean run sequential and alive.
LEMMA CleanStep ==
    ASSUME Types, CleanInv, [Next]_vars PROVE CleanInv'
<1>0. CASE ~clean'
  BY <1>0 DEF CleanInv
<1>1. CASE /\ clean' => clean /\ UNCHANGED <<sender, balances, defaultAddress>>
           /\ proc' = proc \/ proc' = "down"
  BY <1>1 DEF CleanInv, Sequential, Alone
<1>2. CASE InitAnchor
  <2>1. /\ proc' = "up" /\ sender' = [t \in Threads |-> Idle]
    BY <1>2 DEF InitAnchor, Boot
  <2>2. PICK outs \in SUBSET Spendable : \E s \in Orders(outs) :
            /\ balances' = [i \in DOMAIN s |-> Filled(s[i])]
            /\ defaultAddress' = (outs # {})
            /\ clean' = (clean /\ outs # {})
    BY <1>2 DEF InitAnchor
  <2>3. AllFilled(balances')
    BY <2>2 DEF AllFilled, Filled
  <2>4. clean' => defaultAddress'
    BY <2>2
  <2>5. Ticker \in Threads
    BY DEF Threads
  <2>6. sender'[Ticker] = Idle /\ \A u \in Threads : sender'[u].pc = "idle"
    BY <2>1, <2>5 DEF Idle
  <2> QED BY <2>1, <2>3, <2>4, <2>5, <2>6, IdleReady DEF CleanInv, Sequential, Alone
<1>3. CASE InitAnchorFails \/ InitWalletFails
  BY <1>0, <1>3 DEF InitAnchorFails, InitWalletFails
<1>4. CASE Crash \/ Age \/ checkForReAnchor
  BY <1>1, <1>4 DEF Crash, Age, checkForReAnchor, memory
<1>5. ASSUME NEW t \in Threads, NEW h, StartSender(t, h), proc = "up",
             UNCHANGED <<proc, balances, defaultAddress>>
      PROVE  CleanInv'
  <2> SUFFICES ASSUME clean' PROVE CleanInv'
    BY <1>0
  <2> DEFINE s == [Idle EXCEPT !.pc = "check", !.h = h]
  <2>1. sender' = [sender EXCEPT ![t] = s] /\ clean /\ \A u \in Threads : ~Active(u)
    BY <1>5 DEF StartSender
  <2>2. Alone(t) /\ defaultAddress' /\ AllFilled(balances')
    BY <1>5, <2>1 DEF CleanInv, Sequential, Alone, Active, Ready
  <2>3. s.pc = "check"
    BY DEF Idle
  <2> HIDE DEF s
  <2>4. Ready(s, balances')
    BY <2>2, <2>3 DEF Ready
  <2> QED BY <1>5, <2>1, <2>2, <2>4, SenderKeeps
<1>6. CASE newDirectoryBlock
  <2>1. nextHeight \in Threads
    BY <1>6, AnchorAssumption DEF newDirectoryBlock, Types, HeightsOK, Threads, Heights
  <2> QED BY <1>5, <1>6, <2>1 DEF newDirectoryBlock
<1>7. CASE ReAnchor
  <2>1. Ticker \in Threads
    BY DEF Threads
  <2> QED BY <1>1, <1>5, <1>7, <2>1 DEF ReAnchor
<1>8. ASSUME NEW t \in Threads, SendRawTransactionToBTC(t) \/ SenderFails(t), clean, clean'
      PROVE  CleanInv'
  <2>1. /\ proc = "up" /\ sender[t].pc # "idle"
        /\ defaultAddress' = defaultAddress
    BY <1>8 DEF SendRawTransactionToBTC, sanityCheck, updateUTXO, LookAgain, ListUnspent, At,
       DecodeAddress, DumpPrivKey, TakeBalance, DropBalance, sendRawTransaction, SetBTCTxHash,
       SenderFails, ListUnspentFails, DumpPrivKeyFails, SendRawTransactionFails, KeepInSender
  <2>2. defaultAddress' /\ Alone(t) /\ Ready(sender[t], balances)
    BY <1>8, <2>1, TheSender
  <2>3. /\ sender[t] \in SenderStates /\ Placed(sender[t])
        /\ balances \in Seq(Keyed) /\ sender \in [Threads -> SenderStates]
    BY DEF Types, SenderOK, BalancesOK
  <2>4. ASSUME Return(t), AllFilled(balances'), proc' = "up" PROVE CleanInv'
    BY <2>2, <2>4, IdleReady, SenderKeeps DEF Return
  <2>5. ASSUME NEW pc, Goto(t, pc), Ready([sender[t] EXCEPT !.pc = pc], balances'), proc' = "up"
        PROVE  CleanInv'
    BY <2>2, <2>5, SenderKeeps DEF Goto
  <2>6. ASSUME Recheck(t, balances'), AllFilled(balances'), proc' = "up" PROVE CleanInv'
    <3> DEFINE s == [Idle EXCEPT !.pc = "take", !.h = sender[t].h]
    <3>1. CASE balances' # <<>> /\ sender' = [sender EXCEPT ![t] = s]
      <4>1. s.pc = "take"
        BY DEF Idle
      <4> HIDE DEF s
      <4>2. Ready(s, balances')
        BY <2>6, <3>1, <4>1 DEF Ready
      <4> QED BY <2>2, <2>6, <3>1, <4>2, SenderKeeps
    <3> QED BY <2>4, <2>6, <3>1 DEF Recheck
  <2>7. CASE sanityCheck(t)
    <3>1. AllFilled(balances) /\ balances' = balances /\ proc' = "up"
      BY <2>1, <2>2, <2>7 DEF sanityCheck, At, Ready
    <3>2. \A pc \in {"clear", "look"} : [sender[t] EXCEPT !.pc = pc].pc = pc
      BY <2>3 DEF SenderStates
    <3>3. ASSUME NEW pc \in {"clear", "look"}, Goto(t, pc) PROVE CleanInv'
      BY <2>5, <3>1, <3>2, <3>3 DEF Ready
    <3> QED BY <2>4, <2>7, <3>1, <3>3 DEF sanityCheck
  <2>16. CASE updateUTXO(t)
    <3>1. balances' = <<>> /\ Goto(t, "list") /\ proc' = "up"
      BY <2>1, <2>16 DEF updateUTXO
    <3>2. [sender[t] EXCEPT !.pc = "list"].pc = "list"
      BY <2>3 DEF SenderStates
    <3>3. Ready([sender[t] EXCEPT !.pc = "list"], balances')
      BY <3>1, <3>2 DEF Ready, AllFilled
    <3> QED BY <2>5, <3>1, <3>3
  <2>17. CASE LookAgain(t)
    <3>1. AllFilled(balances) /\ balances' = balances /\ proc' = "up"
      BY <2>1, <2>2, <2>17 DEF LookAgain, At, Ready
    <3> QED BY <2>6, <2>17, <3>1 DEF LookAgain
  <2>8. CASE ListUnspent(t)
    <3>1. balances = <<>> /\ proc' = "up"
      BY <2>1, <2>2, <2>8 DEF ListUnspent, At, Ready
    <3>2. PICK scan : /\ scan = [j \in DOMAIN balances' |-> balances'[j].out]
                      /\ sender' = [sender EXCEPT ![t].pc = "addr", ![t].i = 1, ![t].scan = scan]
      BY <2>8 DEF ListUnspent
    <3>3. balances' \in Seq(Keyed)
      BY BalancesStep DEF BalancesOK
    <3> DEFINE s == [sender[t] EXCEPT !.pc = "addr", !.i = 1, !.scan = scan]
    <3>4. s.pc = "addr" /\ s.i = 1 /\ s.scan = scan
      BY <2>3 DEF SenderStates
    <3>5. sender' = [sender EXCEPT ![t] = s]
      BY <3>2
    <3> HIDE DEF s
    <3>6. Scanning(s, balances')
      BY <3>2, <3>3, <3>4 DEF Scanning
    <3>7. Ready(s, balances')
      BY <3>4, <3>6 DEF Ready
    <3> QED BY <2>2, <3>1, <3>5, <3>7, SenderKeeps
  <2>9. CASE DecodeAddress(t)
    <3> DEFINE i == sender[t].i
               o == sender[t].scan[i]
    <3>1. /\ Scanning(sender[t], balances)
          /\ i \in Nat /\ i >= 1 /\ sender[t].scan \in Seq(Outputs)
      BY <2>2, <2>3, <2>9 DEF DecodeAddress, At, Ready, SenderStates, Placed
    <3>2. CASE i > Len(sender[t].scan)
      <4>1. AllFilled(balances)
        BY <2>3, <3>1, <3>2 DEF Scanning, AllFilled
      <4>2. Recheck(t, balances) /\ UNCHANGED <<proc, balances>>
        BY <2>9, <3>2 DEF DecodeAddress
      <4> QED BY <2>1, <2>6, <4>1, <4>2
    <3>3. CASE ~(i > Len(sender[t].scan))
      <4>1. i \in DOMAIN balances /\ ~(i > Len(balances)) /\ o = balances[i].out
        BY <2>3, <3>1, <3>3 DEF Scanning
      <4>2. /\ balances' = [balances EXCEPT ![i].addr = o] /\ Goto(t, "wif")
            /\ proc' = "up"
        BY <2>1, <2>9, <3>3, <4>1 DEF DecodeAddress
      <4> DEFINE s == [sender[t] EXCEPT !.pc = "wif"]
      <4>3. s.pc = "wif" /\ s.i = i /\ s.scan = sender[t].scan
        BY <2>3 DEF SenderStates
      <4>4. /\ DOMAIN balances' = DOMAIN balances /\ Len(balances') = Len(balances)
            /\ \A j \in DOMAIN balances : j # i => balances'[j] = balances[j]
            /\ balances'[i].addr = o /\ balances'[i].out = balances[i].out
        <5>1. balances[i] \in Keyed
          BY <2>3, <4>1
        <5>2. [balances[i] EXCEPT !.addr = o].addr = o
              /\ [balances[i] EXCEPT !.addr = o].out = balances[i].out
          BY <5>1 DEF Keyed
        <5> HIDE DEF o, i
        <5>3. /\ DOMAIN balances' = DOMAIN balances
              /\ \A j \in DOMAIN balances : j # i => balances'[j] = balances[j]
              /\ balances'[i] = [balances[i] EXCEPT !.addr = o]
          BY <2>3, <4>1, <4>2
        <5>4. balances' \in Seq(Keyed)
          BY BalancesStep DEF BalancesOK
        <5>5. Len(balances') = Len(balances)
          BY <2>3, <5>3, <5>4
        <5> QED BY <5>2, <5>3, <5>5
      <4> HIDE DEF s, i, o
      <4>5. Scanning(s, balances')
        <5> SUFFICES ASSUME NEW j \in DOMAIN balances
                     PROVE  /\ s.scan[j] = balances'[j].out
                            /\ j < i => balances'[j] = Filled(balances'[j].out)
                            /\ j = i => balances'[j].addr = balances'[j].out
          BY <3>1, <4>3, <4>4 DEF Scanning
        <5>1. CASE j = i
          BY <2>3, <3>1, <4>1, <4>3, <4>4, <5>1 DEF Scanning
        <5>2. CASE j # i
          BY <3>1, <4>3, <4>4, <5>2 DEF Scanning, i
        <5> QED BY <5>1, <5>2
      <4>6. Ready(s, balances')
        BY <4>3, <4>5 DEF Ready
      <4> QED BY <2>5, <4>2, <4>6 DEF s
    <3> QED BY <3>2, <3>3
  <2>10. CASE DumpPrivKey(t)
    <3> DEFINE i == sender[t].i
               o == sender[t].scan[i]
               n == i + 1
    <3>1. /\ Scanning(sender[t], balances) /\ sender[t].pc = "wif"
          /\ i \in Nat /\ i >= 1 /\ sender[t].scan \in Seq(Outputs)
          /\ i <= Len(sender[t].scan)
      BY <2>2, <2>3, <2>10 DEF DumpPrivKey, At, Ready, SenderStates, Placed
    <3>2. /\ i \in DOMAIN balances /\ ~(i > Len(balances)) /\ o = balances[i].out
          /\ balances[i].addr = o
      BY <2>3, <3>1 DEF Scanning
    <3>3. /\ balances' = [balances EXCEPT ![i].wif = o]
          /\ sender' = [sender EXCEPT ![t].pc = "addr", ![t].i = n]
          /\ proc' = "up"
      BY <2>1, <2>10, <3>2 DEF DumpPrivKey
    <3> DEFINE s == [sender[t] EXCEPT !.pc = "addr", !.i = n]
    <3>4. s.pc = "addr" /\ s.i = n /\ s.scan = sender[t].scan
      BY <2>3 DEF SenderStates
    <3>5. /\ DOMAIN balances' = DOMAIN balances /\ Len(balances') = Len(balances)
          /\ \A j \in DOMAIN balances : j # i => balances'[j] = balances[j]
          /\ balances'[i] = Filled(o) /\ balances'[i].out = balances[i].out
      <4>1. balances[i] \in Keyed
        BY <2>3, <3>2
      <4>2. [balances[i] EXCEPT !.wif = o] = Filled(o)
            /\ [balances[i] EXCEPT !.wif = o].out = balances[i].out
        BY <3>2, <4>1 DEF Keyed, Filled
      <4> HIDE DEF o, i
      <4>3. /\ DOMAIN balances' = DOMAIN balances
            /\ \A j \in DOMAIN balances : j # i => balances'[j] = balances[j]
            /\ balances'[i] = [balances[i] EXCEPT !.wif = o]
        BY <2>3, <3>2, <3>3
      <4>4. balances' \in Seq(Keyed)
        BY BalancesStep DEF BalancesOK
      <4>5. Len(balances') = Len(balances)
        BY <2>3, <4>3, <4>4
      <4> QED BY <4>2, <4>3, <4>5
    <3>6. sender' = [sender EXCEPT ![t] = s]
      BY <3>3
    <3> HIDE DEF s, i, o
    <3>7. Scanning(s, balances')
      <4> SUFFICES ASSUME NEW j \in DOMAIN balances
                   PROVE  /\ s.scan[j] = balances'[j].out
                          /\ j < s.i => balances'[j] = Filled(balances'[j].out)
        BY <3>1, <3>4, <3>5 DEF Scanning
      <4>1. s.scan[j] = balances'[j].out
        BY <3>1, <3>4, <3>5 DEF Scanning
      <4>2. CASE j = i
        BY <3>2, <3>5, <4>1, <4>2
      <4>3. CASE j # i
        <5>1. j < s.i => j < i
          BY <2>3, <3>1, <3>4, <4>3
        <5> QED BY <3>1, <3>5, <4>1, <4>3, <5>1 DEF Scanning, i
      <4> QED BY <4>1, <4>2, <4>3
    <3>8. Ready(s, balances')
      BY <3>4, <3>7 DEF Ready
    <3> QED BY <2>2, <3>3, <3>6, <3>8, SenderKeeps
  <2>11. CASE TakeBalance(t)
    <3>1. AllFilled(balances) /\ balances # <<>>
      BY <2>2, <2>11 DEF TakeBalance, At, Ready
    <3> DEFINE s == [sender[t] EXCEPT !.pc = "drop", !.b = balances[1]]
    <3>2. sender' = [sender EXCEPT ![t] = s] /\ UNCHANGED <<proc, balances>>
      BY <2>11, <3>1 DEF TakeBalance
    <3>3. s.pc = "drop" /\ s.b = balances[1]
      BY <2>3 DEF SenderStates
    <3>4. balances[1] = Filled(balances[1].out)
      BY <2>3, <3>1 DEF AllFilled
    <3> HIDE DEF s
    <3>5. Ready(s, balances')
      BY <3>1, <3>2, <3>3, <3>4 DEF Ready
    <3> QED BY <2>1, <2>2, <3>2, <3>5, SenderKeeps
  <2>12. CASE DropBalance(t)
    <3> DEFINE b == sender[t].b
    <3>1. /\ AllFilled(balances) /\ balances # <<>> /\ b = Filled(b.out)
          /\ b.out \in Outputs
      BY <2>2, <2>3, <2>12 DEF DropBalance, At, Ready, Placed, Carries, Payable
    <3>2. balances' = Tail(balances) /\ createRawTransaction(t, b)
      BY <2>12, <3>1 DEF DropBalance
    <3>3. b.addr = b.out /\ b.wif = b.out /\ b.out # None
      <4>1. b.addr = b.out /\ b.wif = b.out
        BY <3>1 DEF Filled
      <4>2. b.out # None
        BY <3>1, AnchorAssumption DEF Outputs
      <4> QED BY <4>1, <4>2
    <3>4. Goto(t, "send") /\ proc' = "up"
      BY <2>1, <3>2, <3>3 DEF createRawTransaction
    <3>5. AllFilled(balances')
      BY <2>3, <3>1, <3>2 DEF AllFilled
    <3>6. [sender[t] EXCEPT !.pc = "send"].pc = "send"
      BY <2>3 DEF SenderStates
    <3>7. Ready([sender[t] EXCEPT !.pc = "send"], balances')
      BY <3>5, <3>6 DEF Ready
    <3> QED BY <2>5, <3>4, <3>7
  <2>13. CASE sendRawTransaction(t) \/ SetBTCTxHash(t) \/ SendRawTransactionFails(t)
    <3>1. AllFilled(balances) /\ balances' = balances /\ proc' = "up"
      BY <2>1, <2>2, <2>13
         DEF sendRawTransaction, SetBTCTxHash, SendRawTransactionFails, At, Ready
    <3>2. [sender[t] EXCEPT !.pc = "record"].pc = "record"
      BY <2>3 DEF SenderStates
    <3>3. Ready([sender[t] EXCEPT !.pc = "record"], balances')
      BY <3>1, <3>2 DEF Ready
    <3> QED BY <2>4, <2>5, <2>13, <3>1, <3>3
            DEF sendRawTransaction, SetBTCTxHash, SendRawTransactionFails
  <2>14. CASE ListUnspentFails(t)
    <3>1. AllFilled(balances) /\ balances' = balances /\ proc' = "up"
      BY <2>1, <2>2, <2>14 DEF ListUnspentFails, At, Ready
    <3> QED BY <2>6, <2>14, <3>1 DEF ListUnspentFails
  <2>15. CASE DumpPrivKeyFails(t)
    BY <1>8, <2>15 DEF DumpPrivKeyFails
  <2> QED BY <1>8, <2>7, <2>8, <2>9, <2>10, <2>11, <2>12, <2>13, <2>14, <2>15,
             <2>16, <2>17
          DEF SendRawTransactionToBTC, SenderFails
<1>9. ASSUME NEW t \in Threads, SendRawTransactionToBTC(t) \/ SenderFails(t)
      PROVE  CleanInv'
  <2>1. clean' => clean
    BY <1>9 DEF SendRawTransactionToBTC, sanityCheck, updateUTXO, LookAgain, ListUnspent,
       DecodeAddress, DumpPrivKey, TakeBalance, DropBalance, sendRawTransaction, SetBTCTxHash,
       SenderFails, ListUnspentFails, DumpPrivKeyFails, SendRawTransactionFails, Panic
  <2> QED BY <1>0, <1>8, <1>9, <2>1
<1>10. ASSUME NEW tx \in mempool, Mine(tx) \/ Mutate(tx) \/ Evict(tx) PROVE CleanInv'
  BY <1>1, <1>10 DEF Mine, Mutate, Evict, KeepInBitcoin
<1>11. ASSUME NEW tx \in notif, saveDirBlockInfo(tx) PROVE CleanInv'
  BY <1>1, <1>11 DEF saveDirBlockInfo
<1>12. ASSUME NEW s \in savers, InsertConfirmed(s) PROVE CleanInv'
  BY <1>1, <1>12 DEF InsertConfirmed
<1>13. ASSUME NEW s \in savers, submitEntryToAnchorChain(s) PROVE CleanInv'
  <2>1. clean => defaultAddress
    BY <1>13 DEF submitEntryToAnchorChain, CleanInv, Sequential
  <2>2. clean' = clean /\ UNCHANGED <<sender, balances, defaultAddress>>
    BY <1>13 DEF submitEntryToAnchorChain
  <2>3. CASE defaultAddress
    BY <1>1, <1>13, <2>2, <2>3 DEF submitEntryToAnchorChain
  <2> QED BY <1>0, <2>1, <2>2, <2>3
<1>14. CASE UNCHANGED vars
  BY <1>1, <1>14 DEF vars, memory
<1> QED BY <1>2, <1>3, <1>4, <1>6, <1>7, <1>9, <1>10, <1>11, <1>12, <1>13, <1>14 DEF Next

\* The panics of anchor.go (balances[0] of an empty list, an index of the loop
\* in updateUTXO past the end, a nil key or a nil defaultAddress) need two
\* senders at a time or a wallet that was read in part: a run without those
\* never panics.
THEOREM CleanRunsNeverPanic == Spec => []SequentialNeverPanics
<1>1. Init => CleanInv
  BY DEF Init, CleanInv
<1>2. Types /\ CleanInv /\ [Next]_vars => CleanInv'
  BY CleanStep
<1>3. CleanInv => SequentialNeverPanics
  BY DEF CleanInv, SequentialNeverPanics
<1> QED BY <1>1, <1>2, <1>3, TypesInv, PTL DEF Spec

=============================================================================
