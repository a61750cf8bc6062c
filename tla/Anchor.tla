------------------------------- MODULE Anchor -------------------------------
(***************************************************************************)
(* Anchoring of directory blocks in bitcoin (anchor/anchor.go): the        *)
(* unspent outputs of the wallet, the infos of the blocks that wait for    *)
(* their confirmation, and three kinds of goroutine that work on both      *)
(* without a lock: one per new block (placeAnchor), the hourly check for   *)
(* blocks to anchor again, and one per confirmation callback.              *)
(*                                                                         *)
(* A directory block is its height, which stands for its KeyMR too. An     *)
(* output is <<coin, amount>> with the amount in units of the fee: the     *)
(* transaction that spends it returns <<coin, amount - 1>>. A transaction  *)
(* is its input and the block it carries, as its hash is computed from     *)
(* both. Bitcoin, the wallet and the clock are external.                   *)
(***************************************************************************)
EXTENDS Integers, Sequences, FiniteSets, SequencesExt

CONSTANTS Coins,        \* the wallet's coins at the start
          Amount,       \* Amount[c]: what coin c is worth, in fees
          None,
          MaxHeight,    \* bound: the last directory block
          MaxActive,    \* bound: senders at a time
          MaxFaults,    \* bound: failing calls, and transactions that vanish
          MaxBoots      \* bound: starts of the process

ASSUME AnchorAssumption ==
    /\ IsFiniteSet(Coins)
    /\ Amount \in [Coins -> Nat]
    /\ {MaxHeight, MaxActive, MaxFaults, MaxBoots} \subseteq Nat
    /\ None \notin Coins \X Nat

Heights == 0 .. MaxHeight
Ticker  == -1
Threads == Heights \cup {Ticker}   \* the goroutine of a block has its height

VARIABLES
    \* the process
    proc,               \* "down", "up" or "panic"
    clients,            \* dclient and wclient are there
    tickerOn,           \* InitAnchor got as far as starting the ticker
    defaultAddress,     \* set by initWallet
    balances,           \* outputs to spend, with the address and the key found
    dirBlockInfoMap,    \* height -> BTCTxHash and BTCConfirmed
    sender,             \* thread -> where it is in SendRawTransactionToBTC
    todo,               \* what checkForReAnchor still has to visit
    savers,             \* saveDirBlockInfo goroutines past their match
    watched,            \* outputs given to NotifySpent
    notif,              \* mined transactions whose callback is outstanding
    \* the database
    nextHeight,         \* directory blocks stored
    infoDB,             \* TBL_DB_INFO
    \* bitcoin and the clock
    unspent, mempool, mined,
    old,                \* blocks below this height are over reAnchorAfter old
    \* for the properties and the bounds only
    records,            \* height -> anchor records submitted
    base,               \* the first block this process can have built
    clean,              \* no overlap of senders and no half-read wallet so far
    faults, boots

memory  == <<clients, tickerOn, defaultAddress, balances, dirBlockInfoMap,
             sender, todo, savers, watched, notif>>
store   == <<nextHeight, infoDB>>
bitcoin == <<unspent, mempool, mined>>
history == <<records, base, boots>>
others  == <<store, bitcoin, old, history>>
vars    == <<proc, memory, store, bitcoin, old, history, clean, faults>>

-----------------------------------------------------------------------------
\* Records

Outputs == Coins \X Nat
Tx == [out : Outputs, h : Heights, mutated : BOOLEAN]

ASSUME NoneAssumption == None \notin Tx

\* NewDirBlockInfoFromDBlock: a new block is unconfirmed and has no transaction.
NewDirBlockInfo == [tx |-> None, confirmed |-> FALSE]

\* A balance before its address and its private key are known.
Bare(o) == [out |-> o, addr |-> None, wif |-> None]

\* createRawTransaction: one input, and an OP_RETURN output with the height and
\* the KeyMR of the block.
RawTransaction(b, h) == [out |-> b.out, h |-> h, mutated |-> FALSE]

Idle == [pc |-> "idle", h |-> 0, b |-> Bare(None), scan |-> <<>>, i |-> 0]

Active(t) == sender[t].pc # "idle"

\* InsertDirBlockInfo: InsertDirBlockInfoMultiBatch puts the info into the
\* shared batch and resets the batch when it returns; the batch written
\* afterwards is empty.
InsertDirBlockInfo(db, h, info) == db

\* FetchAllUnconfirmedDirBlockInfo
FetchAllUnconfirmedDirBlockInfo(db) ==
    [h \in {g \in DOMAIN db : ~db[g].confirmed} |-> db[h]]

\* wclient.ListUnspentMin, as far as b.Amount > fee: a wallet in step with
\* bitcoin leaves out what an unmined transaction spends, one that lags, which
\* counts as a fault, does not.
Spendable == {o \in unspent : o[2] > 1}
InFlight  == {tx.out : tx \in mempool}

Fault == faults < MaxFaults /\ faults' = faults + 1

Listing(outs) ==
    \/ outs = Spendable \ InFlight /\ UNCHANGED faults
    \/ outs = Spendable /\ Fault

\* The outputs of a listing in the order of the wallet, which may be any.
Orders(outs) == SetToSeqs(outs)

Filled(o) == [out |-> o, addr |-> o, wif |-> o]

-----------------------------------------------------------------------------
\* Start

Init ==
    /\ proc = "down" /\ clients = FALSE /\ tickerOn = FALSE
    /\ defaultAddress = FALSE /\ balances = <<>>
    /\ dirBlockInfoMap = <<>> /\ sender = [t \in Threads |-> Idle]
    /\ todo = {} /\ savers = {} /\ watched = {} /\ notif = {}
    /\ nextHeight = 0 /\ infoDB = <<>>
    /\ unspent = {<<c, Amount[c]>> : c \in Coins}
    /\ mempool = {} /\ mined = {} /\ old = 0
    /\ records = [h \in Heights |-> <<>>]
    /\ base = 0 /\ clean = TRUE /\ faults = 0 /\ boots = 0

\* The first step of InitAnchor, before there is any other goroutine.
Boot ==
    /\ proc # "up" /\ boots < MaxBoots
    /\ proc' = "up" /\ boots' = boots + 1 /\ base' = nextHeight
    /\ dirBlockInfoMap' = FetchAllUnconfirmedDirBlockInfo(infoDB)
    /\ sender' = [t \in Threads |-> Idle]
    /\ todo' = {} /\ savers' = {} /\ watched' = {} /\ notif' = {}
    /\ UNCHANGED <<store, bitcoin, old, records>>

\* InitAnchor to its end: initWallet reads all outputs and their keys.
InitAnchor ==
    /\ Boot
    /\ \E outs \in SUBSET Spendable : \E s \in Orders(outs) :
        /\ Listing(outs)
        /\ balances' = [i \in DOMAIN s |-> Filled(s[i])]
        /\ defaultAddress' = (outs # {})
        /\ clean' = (clean /\ outs # {})
    /\ clients' = TRUE /\ tickerOn' = TRUE

\* InitRPCClient, or unlocking or listing the wallet, fails: InitAnchor returns
\* before the ticker is started.
InitAnchorFails ==
    /\ Boot
    /\ Fault
    /\ clients' \in BOOLEAN
    /\ balances' = <<>> /\ tickerOn' = FALSE /\ defaultAddress' = FALSE
    /\ clean' = FALSE

\* DumpPrivKey fails in initWallet: what was listed stays in balances, the
\* output at i with its address and without its key.
InitWalletFails ==
    /\ Boot
    /\ Fault
    /\ \E s \in Orders(Spendable \ InFlight) : \E k \in DOMAIN s :
        balances' = [i \in DOMAIN s |->
            IF i < k THEN Filled(s[i])
            ELSE [Bare(s[i]) EXCEPT !.addr = IF i = k THEN s[i] ELSE None]]
    /\ clients' = TRUE /\ tickerOn' = FALSE /\ defaultAddress' = FALSE
    /\ clean' = FALSE

\* The process ends; what it keeps in memory is lost at the next start.
Crash ==
    /\ proc = "up" /\ boots < MaxBoots
    /\ proc' = "down"
    /\ UNCHANGED <<memory, store, bitcoin, old, history, clean, faults>>

-----------------------------------------------------------------------------
\* The engine and the ticker start senders

StartSender(t, h) ==
    /\ Cardinality({u \in Threads : Active(u)}) < MaxActive
    /\ sender' = [sender EXCEPT ![t] = [Idle EXCEPT !.pc = "check", !.h = h]]
    /\ clean' = (clean /\ \A u \in Threads : ~Active(u))

\* Faulty variant: the info is filed under the number of the next block.
newDirectoryBlock_NextInfo ==
    /\ proc = "up" /\ nextHeight <= MaxHeight
    /\ nextHeight' = nextHeight + 1
    /\ infoDB' = InsertDirBlockInfo(infoDB, nextHeight, NewDirBlockInfo)
    /\ dirBlockInfoMap' =
        [h \in DOMAIN dirBlockInfoMap \cup {nextHeight'} |->
            IF h = nextHeight' THEN NewDirBlockInfo ELSE dirBlockInfoMap[h]]
    /\ StartSender(nextHeight, nextHeight)
    /\ UNCHANGED <<proc, clients, tickerOn, defaultAddress, balances, todo,
                   savers, watched, notif, bitcoin, old, history, faults>>

\* newDirectoryBlock stores the block and its info, and placeAnchor starts the
\* goroutine that anchors it.
newDirectoryBlock ==
    /\ proc = "up" /\ nextHeight <= MaxHeight
    /\ nextHeight' = nextHeight + 1
    /\ infoDB' = InsertDirBlockInfo(infoDB, nextHeight, NewDirBlockInfo)
    /\ dirBlockInfoMap' =
        [h \in DOMAIN dirBlockInfoMap \cup {nextHeight} |->
            IF h = nextHeight THEN NewDirBlockInfo ELSE dirBlockInfoMap[h]]
    /\ StartSender(nextHeight, nextHeight)
    /\ UNCHANGED <<proc, clients, tickerOn, defaultAddress, balances, todo,
                   savers, watched, notif, bitcoin, old, history, faults>>

\* reAnchorAfter hours pass for the next block.
Age ==
    /\ old < nextHeight
    /\ old' = old + 1
    /\ UNCHANGED <<proc, memory, store, bitcoin, history, clean, faults>>

\* Faulty variant: a block that was sent once is never sent again.
Overdue_Unsent ==
    {h \in DOMAIN dirBlockInfoMap : h < old /\ dirBlockInfoMap[h].tx = None}

\* What the check finds to be too old without a confirmation.
Overdue == {h \in DOMAIN dirBlockInfoMap : h < old}

\* The ticker fires and checkForReAnchor begins its loop over the map.
checkForReAnchor ==
    /\ proc = "up" /\ tickerOn /\ todo = {} /\ ~Active(Ticker)
    /\ Overdue # {}
    /\ todo' = Overdue
    /\ UNCHANGED <<proc, clients, tickerOn, defaultAddress, balances, sender,
                   dirBlockInfoMap, savers, watched, notif, clean, faults, others>>

\* One iteration: an info that was deleted meanwhile is not visited.
ReAnchor ==
    /\ proc = "up" /\ ~Active(Ticker)
    /\ \E h \in todo :
        /\ todo' = todo \ {h}
        /\ IF h \in DOMAIN dirBlockInfoMap THEN StartSender(Ticker, h)
                                           ELSE UNCHANGED <<sender, clean>>
    /\ UNCHANGED <<proc, clients, tickerOn, defaultAddress, balances,
                   dirBlockInfoMap, savers, watched, notif, faults, others>>

-----------------------------------------------------------------------------
\* SendRawTransactionToBTC in thread t

At(t, pc) == proc = "up" /\ sender[t].pc = pc

Goto(t, pc) == sender' = [sender EXCEPT ![t].pc = pc]

Return(t) == sender' = [sender EXCEPT ![t] = Idle]

\* An index out of range or a nil dereference ends the whole process.
Panic == proc' = "panic" /\ UNCHANGED <<balances, sender, clean>>

KeepInSender == UNCHANGED <<clients, tickerOn, defaultAddress, dirBlockInfoMap,
                            todo, savers, notif, store, old, history>>

\* sanityCheck up to the first look at the balances.
sanityCheck(t) ==
    /\ At(t, "check")
    /\ LET h == sender[t].h IN
        IF \/ h \notin DOMAIN dirBlockInfoMap
           \/ dirBlockInfoMap[h].confirmed
           \/ ~clients
        THEN Return(t)
        ELSE Goto(t, IF balances = <<>> THEN "clear" ELSE "look")
    /\ KeepInSender
    /\ UNCHANGED <<proc, balances, watched, bitcoin, clean, faults>>

\* updateUTXO makes the list anew, with whatever another sender has put there
\* since the look, and asks the wallet.
updateUTXO(t) ==
    /\ At(t, "clear")
    /\ balances' = <<>>
    /\ Goto(t, "list")
    /\ KeepInSender
    /\ UNCHANGED <<proc, watched, bitcoin, clean, faults>>

\* Faulty variant: the balances are not looked at again after the rescan.
Recheck_Unchecked(t, bs) ==
    sender' = [sender EXCEPT ![t] = [Idle EXCEPT !.pc = "take", !.h = sender[t].h]]

\* The second look, at once or after updateUTXO has returned, with or without
\* an error.
Recheck(t, bs) ==
    IF bs = <<>> THEN Return(t)
    ELSE sender' = [sender EXCEPT ![t] = [Idle EXCEPT !.pc = "take", !.h = sender[t].h]]

LookAgain(t) ==
    /\ At(t, "look")
    /\ Recheck(t, balances)
    /\ KeepInSender
    /\ UNCHANGED <<proc, balances, watched, bitcoin, clean, faults>>

\* The answer is appended to whatever the list is by now; the loop that follows
\* runs over the list as it is at this moment.
ListUnspent(t) ==
    /\ At(t, "list")
    /\ \E outs \in SUBSET Spendable : \E s \in Orders(outs) :
        LET found == balances \o [i \in DOMAIN s |-> Bare(s[i])]
        IN  /\ Listing(outs)
            /\ balances' = found
            /\ sender' = [sender EXCEPT ![t].pc = "addr", ![t].i = 1,
                              ![t].scan = [j \in DOMAIN found |-> found[j].out]]
    /\ KeepInSender
    /\ UNCHANGED <<proc, watched, bitcoin, clean>>

\* unlockWallet or ListUnspentMin fails; sanityCheck ignores the error.
ListUnspentFails(t) ==
    /\ At(t, "list") /\ Fault
    /\ Recheck(t, balances)
    /\ KeepInSender
    /\ UNCHANGED <<proc, balances, watched, bitcoin, clean>>

\* balances[i].address = addr
DecodeAddress(t) ==
    /\ At(t, "addr")
    /\ LET s == sender[t] IN
        IF s.i > Len(s.scan)
        THEN Recheck(t, balances) /\ UNCHANGED <<proc, balances, clean>>
        ELSE IF s.i > Len(balances) THEN Panic
        ELSE /\ balances' = [balances EXCEPT ![s.i].addr = s.scan[s.i]]
             /\ Goto(t, "wif")
             /\ UNCHANGED <<proc, clean>>
    /\ KeepInSender
    /\ UNCHANGED <<watched, bitcoin, faults>>

\* balances[i].wif = wif
DumpPrivKey(t) ==
    /\ At(t, "wif")
    /\ LET s == sender[t] IN
        IF s.i > Len(balances) THEN Panic
        ELSE /\ balances' = [balances EXCEPT ![s.i].wif = s.scan[s.i]]
             /\ sender' = [sender EXCEPT ![t].pc = "addr", ![t].i = s.i + 1]
             /\ UNCHANGED <<proc, clean>>
    /\ KeepInSender
    /\ UNCHANGED <<watched, bitcoin, faults>>

\* The wallet locked itself again: the rest of the list stays without keys.
DumpPrivKeyFails(t) ==
    /\ At(t, "wif") /\ Fault
    /\ Recheck(t, balances)
    /\ clean' = FALSE
    /\ KeepInSender
    /\ UNCHANGED <<proc, balances, watched, bitcoin>>

\* doTransaction: b := balances[0]
TakeBalance(t) ==
    /\ At(t, "take")
    /\ IF balances = <<>> THEN Panic
       ELSE /\ sender' = [sender EXCEPT ![t].pc = "drop", ![t].b = balances[1]]
            /\ UNCHANGED <<proc, balances, clean>>
    /\ KeepInSender
    /\ UNCHANGED <<watched, bitcoin, faults>>

\* dclient.NotifySpent: an error is logged, and the output stays unwatched.
NotifySpent(out) ==
    \/ watched' = watched \cup {out} /\ UNCHANGED faults
    \/ UNCHANGED watched /\ Fault

\* addTxOuts needs the address, addTxIn asks to be notified and signs with the
\* key, validateMsgTx refuses the signature of another key.
createRawTransaction(t, b) ==
    IF b.addr = None
    THEN Return(t) /\ UNCHANGED <<proc, watched, faults>>
    ELSE /\ NotifySpent(b.out)
         /\ CASE b.wif = None  -> proc' = "panic" /\ UNCHANGED sender
              [] b.wif = b.out -> Goto(t, "send") /\ UNCHANGED proc
              [] OTHER         -> Return(t) /\ UNCHANGED proc

\* balances = balances[1:], and the transaction is made from what was read.
DropBalance(t) ==
    /\ At(t, "drop")
    /\ IF balances = <<>> THEN Panic /\ UNCHANGED <<watched, faults>>
       ELSE /\ balances' = Tail(balances)
            /\ createRawTransaction(t, sender[t].b)
            /\ UNCHANGED clean
    /\ KeepInSender
    /\ UNCHANGED bitcoin

\* btcd takes a transaction whose input is unspent in its chain and its pool.
Accepted(tx) == tx.out \in unspent \ InFlight

TxOf(t) == RawTransaction(sender[t].b, sender[t].h)

sendRawTransaction(t) ==
    /\ At(t, "send")
    /\ IF Accepted(TxOf(t))
       THEN mempool' = mempool \cup {TxOf(t)} /\ Goto(t, "record")
       ELSE Return(t) /\ UNCHANGED mempool
    /\ KeepInSender
    /\ UNCHANGED <<proc, balances, watched, unspent, mined, clean, faults>>

\* The call fails, before or after btcd took the transaction.
SendRawTransactionFails(t) ==
    /\ At(t, "send") /\ Fault
    /\ \/ UNCHANGED mempool
       \/ Accepted(TxOf(t)) /\ mempool' = mempool \cup {TxOf(t)}
    /\ Return(t)
    /\ KeepInSender
    /\ UNCHANGED <<proc, balances, watched, unspent, mined, clean>>

\* Faulty variant: the info is dropped as soon as the transaction is sent.
SetBTCTxHash_Forgets(t) ==
    /\ At(t, "record")
    /\ dirBlockInfoMap' =
        [h \in DOMAIN dirBlockInfoMap \ {sender[t].h} |-> dirBlockInfoMap[h]]
    /\ Return(t)
    /\ UNCHANGED <<proc, clients, tickerOn, defaultAddress, balances, todo,
                   savers, watched, notif, clean, faults, others>>

\* dirBlockInfo.BTCTxHash = toHash(shaHash), on an info that may have left the
\* map by now.
SetBTCTxHash(t) ==
    /\ At(t, "record")
    /\ LET h == sender[t].h IN
        dirBlockInfoMap' =
            IF h \in DOMAIN dirBlockInfoMap
            THEN [dirBlockInfoMap EXCEPT ![h].tx = TxOf(t)]
            ELSE dirBlockInfoMap
    /\ Return(t)
    /\ UNCHANGED <<proc, clients, tickerOn, defaultAddress, balances, todo,
                   savers, watched, notif, clean, faults, others>>

SendRawTransactionToBTC(t) ==
    \/ sanityCheck(t) \/ updateUTXO(t) \/ ListUnspent(t) \/ DecodeAddress(t)
    \/ DumpPrivKey(t) \/ LookAgain(t) \/ TakeBalance(t) \/ DropBalance(t) \/ sendRawTransaction(t)
    \/ SetBTCTxHash(t)

SenderFails(t) ==
    ListUnspentFails(t) \/ DumpPrivKeyFails(t) \/ SendRawTransactionFails(t)

-----------------------------------------------------------------------------
\* Bitcoin

Enters(tx, as) ==
    /\ mempool' = mempool \ {tx}
    /\ unspent' = (unspent \ {tx.out}) \cup {<<tx.out[1], tx.out[2] - 1>>}
    /\ mined' = mined \cup {as}
    /\ notif' = IF proc = "up" /\ tx.out \in watched THEN notif \cup {as} ELSE notif

KeepInBitcoin == UNCHANGED <<proc, clients, tickerOn, defaultAddress, balances,
                             dirBlockInfoMap, sender, todo, savers, watched,
                             store, old, history, clean>>

\* A block with the transaction is connected.
Mine(tx) ==
    /\ tx \in mempool
    /\ Enters(tx, tx)
    /\ KeepInBitcoin /\ UNCHANGED faults

\* The transaction is mined in a mutated form, under another hash.
Mutate(tx) ==
    /\ tx \in mempool /\ Fault
    /\ Enters(tx, [tx EXCEPT !.mutated = TRUE])
    /\ KeepInBitcoin

\* The transaction is dropped from the pools.
Evict(tx) ==
    /\ tx \in mempool /\ Fault
    /\ mempool' = mempool \ {tx}
    /\ KeepInBitcoin /\ UNCHANGED <<unspent, mined, notif>>

-----------------------------------------------------------------------------
\* Confirmations

\* Faulty variant: any block that was sent is taken for the confirmed one.
Match_AnySent(tx) ==
    {h \in DOMAIN dirBlockInfoMap : dirBlockInfoMap[h].tx # None}

\* The info whose BTCTxHash is the hash of the mined transaction.
Match(tx) == {h \in DOMAIN dirBlockInfoMap : dirBlockInfoMap[h].tx = tx}

\* OnRedeemingTx starts saveDirBlockInfo, which looks for the info of tx. A
\* transaction of no info is logged as not saved.
saveDirBlockInfo(tx) ==
    /\ proc = "up" /\ tx \in notif
    /\ notif' = notif \ {tx}
    /\ \/ \E h \in Match(tx) :
            /\ dirBlockInfoMap' = [dirBlockInfoMap EXCEPT ![h].confirmed = TRUE]
            /\ savers' = savers \cup {[h |-> h, tx |-> tx, pc |-> "insert"]}
       \/ Match(tx) = {} /\ UNCHANGED <<dirBlockInfoMap, savers>>
    /\ UNCHANGED <<proc, clients, tickerOn, defaultAddress, balances, sender,
                   todo, watched, clean, faults, others>>

\* db.InsertDirBlockInfo waits for the database; then the info leaves the map,
\* if no other callback has taken it out already.
InsertConfirmed(s) ==
    /\ proc = "up" /\ s \in savers /\ s.pc = "insert"
    /\ infoDB' = InsertDirBlockInfo(infoDB, s.h, [tx |-> s.tx, confirmed |-> TRUE])
    /\ dirBlockInfoMap' =
        [h \in DOMAIN dirBlockInfoMap \ {s.h} |-> dirBlockInfoMap[h]]
    /\ savers' = (savers \ {s}) \cup {[s EXCEPT !.pc = "submit"]}
    /\ UNCHANGED <<proc, clients, tickerOn, defaultAddress, balances, sender,
                   todo, watched, notif, nextHeight, bitcoin, old, history,
                   clean, faults>>

\* The anchor record is built, which needs defaultAddress, and
\* submitEntryToAnchorChain gives its commit and its reveal to the engine.
submitEntryToAnchorChain(s) ==
    /\ proc = "up" /\ s \in savers /\ s.pc = "submit"
    /\ IF defaultAddress
       THEN /\ records' = [records EXCEPT ![s.h] = Append(@, s.tx)]
            /\ savers' = savers \ {s}
            /\ UNCHANGED proc
       ELSE proc' = "panic" /\ UNCHANGED <<records, savers>>
    /\ UNCHANGED <<clients, tickerOn, defaultAddress, balances, dirBlockInfoMap,
                   sender, todo, watched, notif, store, bitcoin, old, base,
                   boots, clean, faults>>

-----------------------------------------------------------------------------
Next ==
    \/ InitAnchor \/ InitAnchorFails \/ InitWalletFails \/ Crash
    \/ newDirectoryBlock \/ Age \/ checkForReAnchor \/ ReAnchor
    \/ \E t \in Threads : SendRawTransactionToBTC(t) \/ SenderFails(t)
    \/ \E tx \in mempool : Mine(tx) \/ Mutate(tx) \/ Evict(tx)
    \/ \E tx \in notif : saveDirBlockInfo(tx)
    \/ \E s \in savers : InsertConfirmed(s) \/ submitEntryToAnchorChain(s)

Spec == Init /\ [][Next]_vars

\* Goroutines run, the ticker fires, time passes, bitcoin mines what is in its
\* pools and calls back. Nothing is assumed of how soon.
Fairness ==
    /\ \A t \in Threads : WF_vars(SendRawTransactionToBTC(t))
    /\ WF_vars(Age) /\ WF_vars(checkForReAnchor) /\ WF_vars(ReAnchor)
    /\ WF_vars(\E tx \in mempool : Mine(tx))
    /\ WF_vars(\E tx \in notif : saveDirBlockInfo(tx))
    /\ WF_vars(\E s \in savers : InsertConfirmed(s) \/ submitEntryToAnchorChain(s))

FairSpec == Spec /\ Fairness

-----------------------------------------------------------------------------
\* Properties

Balances == [out : Outputs, addr : Outputs \cup {None}, wif : Outputs \cup {None}]

\* Type invariant: every thread is in its own place, and the map and the
\* goroutines speak of stored blocks only.
TypeOK ==
    /\ proc \in {"down", "up", "panic"}
    /\ {clients, tickerOn, defaultAddress, clean} \subseteq BOOLEAN
    /\ \A i \in DOMAIN balances : balances[i] \in Balances
    /\ DOMAIN dirBlockInfoMap \subseteq 0 .. (nextHeight - 1)
    /\ \A h \in DOMAIN dirBlockInfoMap :
        /\ dirBlockInfoMap[h].confirmed \in BOOLEAN
        /\ dirBlockInfoMap[h].tx \in Tx \cup {None}
    /\ \A t \in Threads : Active(t) => sender[t].h \in 0 .. (nextHeight - 1)
    /\ nextHeight \in 0 .. (MaxHeight + 1) /\ old \in 0 .. nextHeight
    /\ mempool \cup mined \cup notif \subseteq Tx
    /\ unspent \cup watched \subseteq Outputs
    /\ \A h \in Heights : \A i \in DOMAIN records[h] : records[h][i] \in Tx
    /\ faults \in 0 .. MaxFaults /\ boots \in 0 .. MaxBoots

\* The records a node submits form an AnchorChain: none for a transaction that
\* is not mined or carries another block, and none twice, although a block may
\* be sent several times, its transactions may be mutated and the map is shared
\* by goroutines that do not lock it.
Chain == INSTANCE AnchorChain WITH log <- records, mined <- mined

RecordsFormAnchorChain == Chain!Spec

\* Short of two senders at a time, of a wallet that fails half-way and of a
\* start without an output, no goroutine indexes an empty list or uses a key it
\* does not have (doTransaction, createRawTransaction, saveDirBlockInfo).
SequentialNeverPanics == clean => proc # "panic"

\* A running process forgets no block it built: the info stays in the map until
\* a transaction that carries the block is confirmed (saveDirBlockInfo).
Known(h) == \/ h \in DOMAIN dirBlockInfoMap
            \/ records[h] # <<>>
            \/ \E s \in savers : s.h = h

TrackedUntilConfirmed ==
    proc = "up" => \A h \in base .. (nextHeight - 1) : Known(h)

\* With a ticker, a block that waits is confirmed in the end, whatever gets
\* lost, unless the wallet runs out of outputs or the process ends.
AnchoredInTheEnd ==
    \A h \in Heights :
        (proc = "up" /\ tickerOn /\ h \in DOMAIN dirBlockInfoMap)
            ~> (records[h] # <<>> \/ Spendable = {} \/ proc # "up")

\* InitAnchor loads the unconfirmed infos from the database: what a node that
\* runs knows includes every stored block without an anchor record.
UnconfirmedAreLoaded ==
    proc = "up" => \A h \in 0 .. (nextHeight - 1) : Known(h)

=============================================================================
