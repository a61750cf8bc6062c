----------------------------- MODULE Processor -----------------------------
(***************************************************************************)
(* The server engine of factomd (process/processor.go, process/init.go).   *)
(* One goroutine takes messages from inMsgQ and inCtlMsgQueue and serves   *)
(* them one at a time; the tenth end-of-minute message of a period turns   *)
(* the process list into one block of every chain and a directory block    *)
(* that lists them.                                                        *)
(*                                                                         *)
(* A handler is one action, except the tenth end of minute: it writes to   *)
(* the database many times, so it is cut at its writes by the program      *)
(* counter pc.  Nothing else runs between the parts (the goroutine is      *)
(* busy); what can happen between them is that the process dies.           *)
(***************************************************************************)
EXTENDS Integers, Sequences, FiniteSets, Functions

CONSTANTS
    Keys,       \* entry credit public keys
    Chains,     \* entry chain ids, ordered, all positive (ZeroChain is 0)
    Entries,    \* entries; an entry stands for its hash
    Commits,    \* commit messages (a resubmission is the same element)
    Txs,        \* factoid transactions that buy entry credits
    None,       \* absence of an entry, a commit or a message
    ChainOf,    \* ChainOf[e]: the chain id in entry e
    Cost,       \* Cost[e]: what EntryCost returns, 0 if it returns an error
    NamesChain, \* NamesChain[e]: is e's chain id NewChainID(e)?
    CommitMsg,  \* CommitMsg[c]: the fields of commit c
    ECOutputs,  \* ECOutputs[t][k]: factoshis transaction t pays to key k
    Rates,      \* exchange rates the configuration file may hold
    GenesisRate \* the exchange rate of the genesis factoid block

CONSTANTS
    MAX_ENTRY_CREDITS, MAX_CHAIN_CREDITS, MAX_ORPHAN_SIZE, MAX_PLIST_SIZE,
    ChainFee,   \* the credits a chain costs beyond its first entry (10)
    LastMinute  \* END_MINUTE_10

\* Bounds of a model: the directory block height at which the block timer
\* stops, the number of times the process may start, and the program points
\* at which it may die.
CONSTANTS MaxHeight, MaxBoots, CrashAt

ZeroChain == 0

Minutes == 1 .. LastMinute

CommitKinds == {"commitEntry", "commitChain"}

ASSUME ConstantTypes ==
    /\ Chains \subseteq Nat \ {ZeroChain}
    /\ None \notin Entries \cup Commits \cup Txs
    /\ ChainOf \in [Entries -> Chains]
    /\ Cost \in [Entries -> Nat]
    /\ NamesChain \in [Entries -> BOOLEAN]
    /\ CommitMsg \in [Commits -> [kind : CommitKinds, entry : Entries,
                                  key : Keys, credits : Nat \ {0}, weld : BOOLEAN]]
    /\ ECOutputs \in [Txs -> [Keys -> Nat]]
    /\ Rates \subseteq Nat \ {0}
    /\ GenesisRate \in Nat \ {0}
    /\ LastMinute \in Nat \ {0}
    /\ MAX_ENTRY_CREDITS \in Nat
    /\ MAX_CHAIN_CREDITS \in Nat
    /\ MAX_ORPHAN_SIZE \in Nat
    /\ MAX_PLIST_SIZE \in Nat \ {0}
    /\ ChainFee \in Nat
    /\ MaxHeight \in Nat
    /\ MaxBoots \in Nat

----------------------------------------------------------------------------
\* The engine's memory, lost when the process dies
VARIABLES
    pc,             \* where the goroutine is
    todo,           \* orphans or chains the current loop has not reached yet
    idx,            \* index of the next process list item to build
    eCreditMap,     \* entry credit balance of every key
    commitEntryMap, \* entry -> the commit that waits for its reveal, or None
    commitChainMap,
    chainIDMap,     \* the chains the engine knows
    eNext,          \* chain -> its open entry block
    orphans,        \* reveals kept for the end of the period
    plist,          \* MyProcessList
    seen,           \* what IsTSValid has recorded
    rate,           \* FactoshisPerCredit
    minute,         \* the end-of-minute message the block timer sends next
    nextHeight,     \* the next block heights of the d, ec, a and f chains
    ecNext,         \* entries of the open entry credit block
    aNext,          \* entries of the open admin block
    dNext           \* entry blocks listed so far in the open directory block

\* The database
VARIABLES
    ecDB, aDB, fDB, \* stored entry credit, admin and factoid blocks
    eDB,            \* stored entry blocks
    dDB,            \* stored directory blocks, by height
    chainDB,        \* stored chains
    entryDB         \* stored entries

\* What a replay of entry credit blocks yields, kept beside them: of the
\* stored ones, and of these followed by the open one.  ecLost: a block was
\* stored over a byte-identical one, so its entries count only once.
VARIABLES dbCredit, ecCredit, ecLost

VARIABLE boots      \* how many times the process has started

pools  == <<commitEntryMap, commitChainMap, orphans, seen>>
chains == <<chainIDMap, eNext>>
ledger == <<eCreditMap, plist>>
open   == <<ecNext, aNext, dNext, nextHeight>>
disk   == <<ecDB, aDB, fDB, eDB, dDB, chainDB, entryDB>>
credit == <<dbCredit, ecCredit, ecLost>>
vars   == <<pc, todo, idx, pools, chains, ledger, rate, minute, open, disk,
            credit, boots>>

Sealing == {"admin", "fct", "entry"}
Running == {"serve", "orphans", "build", "first"} \cup Sealing

----------------------------------------------------------------------------
\* Entry credits

Balances == [Keys -> Int]

Zero == [k \in Keys |-> 0]

\* A replay of one entry credit block entry.
Apply(balance, delta) == [k \in Keys |-> balance[k] + delta[k]]

Charge(c) ==
    [k \in Keys |-> IF k = CommitMsg[c].key THEN - CommitMsg[c].credits ELSE 0]

Purchase(t, r) == [k \in Keys |-> ECOutputs[t][k] \div r]

Delta(item, r) ==
    CASE item.type \in CommitKinds -> Charge(item.msg)
      [] item.type = "factoidTX"   -> Purchase(item.msg, r)
      [] OTHER                     -> Zero

----------------------------------------------------------------------------
\* The process list.  Of an item, at is the minute in which a reveal was
\* accepted or which an end of minute ends; by is the commit a reveal used up
\* and bal the balances after the item, both kept for the properties only.

Item(type, msg, by, at, bal) ==
    [type |-> type, msg |-> msg, by |-> by, at |-> at, bal |-> bal]

Reveals == {"revealEntry", "revealChain"}

\* totalItems is set to 0 with a new list and assigned nowhere else, so the
\* branch that keeps a message for the next period is never taken.
totalItems == 0

IsMyPListExceedingLimit == totalItems >= MAX_PLIST_SIZE

AddMyProcessListItem(item) == plist' = Append(plist, item)

ListMessage(item) == ~IsMyPListExceedingLimit /\ AddMyProcessListItem(item)

\* The pool may be one over its limit: it is compared before the insertion.
OrphansWith(e) ==
    IF Cardinality(orphans) > MAX_ORPHAN_SIZE THEN orphans ELSE orphans \cup {e}

----------------------------------------------------------------------------
\* Open blocks

\* An entry block entry: an entry, or (entry None) an end-of-minute marker.
EBEntry(e, by, at) == [entry |-> e, by |-> by, at |-> at]

\* NewEBlock leaves the chain id of the header zero (own is FALSE).
NewEBlock == [own |-> FALSE, seq |-> 0, body |-> <<>>]

ECEntry(type, msg, delta, at) ==
    [type |-> type, msg |-> msg, delta |-> delta, at |-> at]

ServerIndex == ECEntry("serverIndex", None, Zero, 0)

\* An admin block entry is a minute number or the directory block signature.
DBSignature == 0

EmptyDBlock == [ec |-> None, a |-> None, f |-> None, e |-> <<>>]

\* The blocks of c by sequence number: a later block takes the number over.
BlocksOf(c) ==
    {b \in eDB : b.chain = c /\ \A x \in eDB :
                     x.chain = c /\ x.seq = b.seq => x.height <= b.height}

\* initEChainFromDB: the open block that follows the stored blocks of c.
initEChainFromDB(c) ==
    [own |-> TRUE, seq |-> Cardinality(BlocksOf(c)), body |-> <<>>]

\* The stored heights (sequence numbers) are 0, 1, ... without repetition.
Consecutive(heights, n) == heights = 0 .. (n - 1)

EChainIntact(c) ==
    Consecutive({b.seq : b \in BlocksOf(c)}, Cardinality(BlocksOf(c)))

----------------------------------------------------------------------------
\* Init is the state buildGenesisBlocks leaves on a new server.

GenesisECEntries ==
    <<ServerIndex>> \o [m \in Minutes |-> ECEntry("minute", None, Zero, m)]

GenesisEC == [height |-> 0, entries |-> GenesisECEntries]
GenesisA  == [height |-> 0, entries |-> <<>>]
GenesisF  == [height |-> 0, rate |-> GenesisRate, boot |-> 0]

Init ==
    /\ pc = "serve"
    /\ todo = {}
    /\ idx = 1
    /\ eCreditMap = Zero
    /\ commitEntryMap = [e \in Entries |-> None]
    /\ commitChainMap = [e \in Entries |-> None]
    /\ chainIDMap = {}
    /\ eNext = [c \in Chains |-> NewEBlock]
    /\ orphans = {}
    /\ plist = <<>>
    /\ seen = {}
    /\ rate \in Rates
    /\ minute \in Minutes
    /\ nextHeight = [d |-> 1, ec |-> 1, a |-> 1, f |-> 1]
    /\ ecNext = <<ServerIndex>>
    /\ aNext = <<DBSignature>>
    /\ dNext = EmptyDBlock
    /\ ecDB = {GenesisEC}
    /\ aDB = {GenesisA}
    /\ fDB = {GenesisF}
    /\ eDB = {}
    /\ dDB = <<[ec |-> GenesisEC, a |-> GenesisA, f |-> GenesisF, e |-> <<>>]>>
    /\ chainDB = {}
    /\ entryDB = {}
    /\ dbCredit = Zero
    /\ ecCredit = Zero
    /\ ecLost = FALSE
    /\ boots = 1

----------------------------------------------------------------------------
\* Commits.  IsTSValid records a commit before it is processed, so one that
\* is then refused cannot be submitted again.  Signatures and timestamps are
\* valid and timestamps stay in the window (see ReplayFilter for the window).

IsTSValid(m) ==
    /\ m \notin seen
    /\ seen' = seen \cup {m}

\* Faulty variant: the balance is not checked.
CommitEntryAllowed_NoBalance(c) ==
    LET m == CommitMsg[c] IN
    /\ commitEntryMap[m.entry] = None
    /\ m.credits <= MAX_ENTRY_CREDITS

CommitEntryAllowed(c) ==
    LET m == CommitMsg[c] IN
    /\ commitEntryMap[m.entry] = None
    /\ m.credits <= MAX_ENTRY_CREDITS
    /\ eCreditMap[m.key] >= m.credits

CommitChainAllowed(c) ==
    LET m == CommitMsg[c] IN
    /\ commitChainMap[m.entry] = None
    /\ m.credits <= MAX_CHAIN_CREDITS
    /\ eCreditMap[m.key] >= m.credits

ChargeCommit(c) ==
    /\ eCreditMap' = Apply(eCreditMap, Charge(c))
    /\ ListMessage(Item(CommitMsg[c].kind, c, None, 0, eCreditMap'))

processCommitEntry(c) ==
    /\ pc = "serve"
    /\ CommitMsg[c].kind = "commitEntry"
    /\ IsTSValid(c)
    /\ CommitEntryAllowed(c)
    /\ commitEntryMap' = [commitEntryMap EXCEPT ![CommitMsg[c].entry] = c]
    /\ ChargeCommit(c)
    /\ UNCHANGED <<pc, todo, idx, commitChainMap, orphans, chains, rate,
                   minute, open, disk, credit, boots>>

processCommitChain(c) ==
    /\ pc = "serve"
    /\ CommitMsg[c].kind = "commitChain"
    /\ IsTSValid(c)
    /\ CommitChainAllowed(c)
    /\ commitChainMap' = [commitChainMap EXCEPT ![CommitMsg[c].entry] = c]
    /\ ChargeCommit(c)
    /\ UNCHANGED <<pc, todo, idx, commitEntryMap, orphans, chains, rate,
                   minute, open, disk, credit, boots>>

RefuseCommit(c) ==
    /\ pc = "serve"
    /\ IsTSValid(c)
    /\ IF CommitMsg[c].kind = "commitEntry" THEN ~CommitEntryAllowed(c)
                                            ELSE ~CommitChainAllowed(c)
    /\ UNCHANGED <<pc, todo, idx, commitEntryMap, commitChainMap, orphans,
                   chains, ledger, rate, minute, open, disk, credit, boots>>

\* FactoidState.AddTransaction accepts the transaction, or refuses it.
processBuyEntryCredit(t) ==
    /\ pc = "serve"
    /\ IsTSValid(t)
    /\ eCreditMap' = Apply(eCreditMap, Purchase(t, rate))
    /\ ListMessage(Item("factoidTX", t, None, 0, eCreditMap'))
    /\ UNCHANGED <<pc, todo, idx, commitEntryMap, commitChainMap, orphans,
                   chains, rate, minute, open, disk, credit, boots>>

RefuseFactoidTX(t) ==
    /\ pc = "serve"
    /\ IsTSValid(t)
    /\ UNCHANGED <<pc, todo, idx, commitEntryMap, commitChainMap, orphans,
                   chains, ledger, rate, minute, open, disk, credit, boots>>

----------------------------------------------------------------------------
\* Reveals: the outcomes of processRevealEntry

Known(e) == ChainOf[e] \in chainIDMap

HasEntryCommit(e) == commitEntryMap[e] # None

\* The entry commit is looked up first.
HasChainCommit(e) == ~HasEntryCommit(e) /\ commitChainMap[e] # None

EntryPaid(e) == CommitMsg[commitEntryMap[e]].credits >= Cost[e]

ChainPaid(e) == CommitMsg[commitChainMap[e]].credits >= Cost[e] + ChainFee

ChainMatches(e) == NamesChain[e] /\ CommitMsg[commitChainMap[e]].weld

AcceptsEntry(e) ==
    /\ HasEntryCommit(e) /\ Known(e) /\ Cost[e] > 0 /\ EntryPaid(e)

AcceptsChain(e) ==
    /\ HasChainCommit(e) /\ ~Known(e) /\ Cost[e] > 0 /\ ChainPaid(e)
    /\ ChainMatches(e)

\* Refused and put into the orphan pool, the chain map unchanged.
Orphaned(e) ==
    \/ HasEntryCommit(e) /\ ~Known(e)
    \/ HasEntryCommit(e) /\ Known(e) /\ Cost[e] > 0 /\ ~EntryPaid(e)
    \/ HasChainCommit(e) /\ Known(e)

\* The chain enters chainIDMap before its reveal is checked, and stays there.
UnpaidChain(e) ==
    HasChainCommit(e) /\ ~Known(e) /\ Cost[e] > 0 /\ ~ChainPaid(e)

InvalidChain(e) ==
    /\ HasChainCommit(e) /\ ~Known(e)
    /\ Cost[e] = 0 \/ (ChainPaid(e) /\ ~ChainMatches(e))

Refused(e) ==
    \/ ~HasEntryCommit(e) /\ ~HasChainCommit(e)
    \/ HasEntryCommit(e) /\ Known(e) /\ Cost[e] = 0

AddChain(c) ==
    /\ chainIDMap' = chainIDMap \cup {c}
    /\ eNext' = [eNext EXCEPT ![c] = NewEBlock]

\* Faulty variant: the commit is not deleted.
AcceptEntry_KeepsCommit(e) ==
    /\ AcceptsEntry(e)
    /\ ListMessage(
           Item("revealEntry", e, commitEntryMap[e], minute, eCreditMap))
    /\ UNCHANGED <<commitEntryMap, commitChainMap, chains>>

AcceptEntry(e) ==
    /\ AcceptsEntry(e)
    /\ ListMessage(
           Item("revealEntry", e, commitEntryMap[e], minute, eCreditMap))
    /\ commitEntryMap' = [commitEntryMap EXCEPT ![e] = None]
    /\ UNCHANGED <<commitChainMap, chains>>

AcceptChain(e) ==
    /\ AcceptsChain(e)
    /\ AddChain(ChainOf[e])
    /\ ListMessage(
           Item("revealChain", e, commitChainMap[e], minute, eCreditMap))
    /\ commitChainMap' = [commitChainMap EXCEPT ![e] = None]
    /\ UNCHANGED commitEntryMap

\* The chain is added although the reveal fails.
RegisterOnly(e) ==
    /\ AddChain(ChainOf[e])
    /\ UNCHANGED <<plist, commitEntryMap, commitChainMap>>

processRevealEntry(e) ==
    /\ pc = "serve"
    /\ \/ AcceptEntry(e) /\ UNCHANGED orphans
       \/ AcceptChain(e) /\ UNCHANGED orphans
       \/ /\ Orphaned(e)
          /\ orphans' = OrphansWith(e)
          /\ UNCHANGED <<plist, commitEntryMap, commitChainMap, chains>>
       \/ UnpaidChain(e) /\ RegisterOnly(e) /\ orphans' = OrphansWith(e)
       \/ InvalidChain(e) /\ RegisterOnly(e) /\ UNCHANGED orphans
       \/ /\ Refused(e)
          /\ UNCHANGED <<plist, commitEntryMap, commitChainMap, chains, orphans>>
    /\ UNCHANGED <<pc, todo, idx, eCreditMap, seen, rate, minute, open, disk,
                   credit, boots>>

----------------------------------------------------------------------------
\* End of minute.  The timer sends the minutes of a period in order; it may
\* start in the middle of one (minutesPassed).

\* Faulty variant: the timer does not stop at the last minute.
EndOfMinute_PastLast ==
    /\ pc = "serve"
    /\ AddMyProcessListItem(Item("EOM", None, None, minute, eCreditMap))
    /\ minute' = minute + 1
    /\ UNCHANGED <<pc, todo, idx, eCreditMap, pools, chains, rate, open, disk,
                   credit, boots>>

EndOfMinute ==
    /\ pc = "serve"
    /\ minute < LastMinute
    /\ AddMyProcessListItem(Item("EOM", None, None, minute, eCreditMap))
    /\ minute' = minute + 1
    /\ UNCHANGED <<pc, todo, idx, eCreditMap, pools, chains, rate, open, disk,
                   credit, boots>>

\* Faulty variant: the exchange rate is read again before the blocks are built.
EndOfMinute10_RereadRate ==
    /\ pc = "serve"
    /\ minute = LastMinute
    /\ nextHeight.d < MaxHeight
    /\ pc' = "orphans"
    /\ todo' = orphans
    /\ rate' \in Rates
    /\ UNCHANGED <<idx, pools, chains, ledger, minute, open, disk, credit,
                   boots>>

\* Faulty variant: the orphan pool is skipped.
EndOfMinute10_NoOrphans ==
    /\ pc = "serve"
    /\ minute = LastMinute
    /\ nextHeight.d < MaxHeight
    /\ pc' = "orphans"
    /\ todo' = {}
    /\ UNCHANGED <<idx, pools, chains, ledger, rate, minute, open, disk,
                   credit, boots>>

EndOfMinute10 ==
    /\ pc = "serve"
    /\ minute = LastMinute
    /\ nextHeight.d < MaxHeight
    /\ pc' = "orphans"
    /\ todo' = orphans
    /\ UNCHANGED <<idx, pools, chains, ledger, rate, minute, open, disk,
                   credit, boots>>

\* The orphan pool is a map: the loop meets its messages in any order.  A
\* message that is served leaves the pool, any other stays.
processFromOrphanPool(e) ==
    /\ pc = "orphans"
    /\ e \in todo
    /\ todo' = todo \ {e}
    /\ \/ AcceptEntry(e) /\ orphans' = orphans \ {e}
       \/ AcceptChain(e) /\ orphans' = orphans \ {e}
       \/ /\ UnpaidChain(e) \/ InvalidChain(e)
          /\ RegisterOnly(e)
          /\ UNCHANGED orphans
       \/ /\ Orphaned(e) \/ Refused(e)
          /\ UNCHANGED <<plist, commitEntryMap, commitChainMap, chains, orphans>>
    /\ UNCHANGED <<pc, idx, eCreditMap, seen, rate, minute, open, disk,
                   credit, boots>>

EndProcessList ==
    /\ pc = "orphans"
    /\ todo = {}
    /\ AddMyProcessListItem(Item("EOM", None, None, LastMinute, eCreditMap))
    /\ pc' = "build"
    /\ UNCHANGED <<todo, idx, eCreditMap, pools, chains, rate, minute, open,
                   disk, credit, boots>>

----------------------------------------------------------------------------
\* buildFromProcessList: one item per step.

Building(types) ==
    /\ pc = "build"
    /\ idx <= Len(plist)
    /\ plist[idx].type \in types

AddECEntry(entry) ==
    /\ ecNext' = Append(ecNext, entry)
    /\ ecCredit' = Apply(ecCredit, entry.delta)

AddEBEntry(c, entry) ==
    eNext' = [eNext EXCEPT ![c].body = Append(@, entry)]

\* buildCommitEntry and buildCommitChain
buildCommit ==
    /\ Building(CommitKinds)
    /\ LET item == plist[idx] IN
           AddECEntry(ECEntry(item.type, item.msg, Charge(item.msg), 0))
    /\ idx' = idx + 1
    /\ UNCHANGED <<pc, todo, pools, chains, ledger, rate, minute, aNext, dNext,
                   nextHeight, disk, dbCredit, ecLost, boots>>

\* The credits are computed again, at the rate of the moment.
buildIncreaseBalance ==
    /\ Building({"factoidTX"})
    /\ LET item == plist[idx] IN
           AddECEntry(ECEntry(item.type, item.msg, Purchase(item.msg, rate), 0))
    /\ idx' = idx + 1
    /\ UNCHANGED <<pc, todo, pools, chains, ledger, rate, minute, aNext, dNext,
                   nextHeight, disk, dbCredit, ecLost, boots>>

buildRevealEntry ==
    /\ Building({"revealEntry"})
    /\ LET item == plist[idx] IN
           /\ entryDB' = entryDB \cup {item.msg}
           /\ AddEBEntry(ChainOf[item.msg], EBEntry(item.msg, item.by, item.at))
    /\ idx' = idx + 1
    /\ UNCHANGED <<pc, todo, pools, chainIDMap, ledger, rate, minute, open,
                   ecDB, aDB, fDB, eDB, dDB, chainDB, credit, boots>>

\* The chain is stored first, its first entry with a later write.
buildRevealChain ==
    /\ Building({"revealChain"})
    /\ LET c == ChainOf[plist[idx].msg] IN
           /\ chainDB' = chainDB \cup {c}
           /\ eNext' = [eNext EXCEPT ![c] = initEChainFromDB(c)]
           /\ pc' = IF EChainIntact(c) THEN "first" ELSE "panic"
    /\ UNCHANGED <<todo, idx, pools, chainIDMap, ledger, rate, minute, open,
                   ecDB, aDB, fDB, eDB, dDB, entryDB, credit, boots>>

buildFirstEntry ==
    /\ pc = "first"
    /\ LET item == plist[idx] IN
           /\ entryDB' = entryDB \cup {item.msg}
           /\ AddEBEntry(ChainOf[item.msg], EBEntry(item.msg, item.by, item.at))
    /\ pc' = "build"
    /\ idx' = idx + 1
    /\ UNCHANGED <<todo, pools, chainIDMap, ledger, rate, minute, open,
                   ecDB, aDB, fDB, eDB, dDB, chainDB, credit, boots>>

\* Faulty variant: a chain touched only by its creation gets no marker.
TouchedChains_EntriesOnly(i) ==
    {ChainOf[plist[j].msg] :
        j \in {n \in 1 .. (i - 1) :
                  /\ plist[n].type = "revealEntry"
                  /\ \A l \in (n + 1) .. (i - 1) : plist[l].type # "EOM"}}

\* The chains revealed into after the last end of minute before item i.
TouchedChains(i) ==
    {ChainOf[plist[j].msg] :
        j \in {n \in 1 .. (i - 1) :
                  /\ plist[n].type \in Reveals
                  /\ \A l \in (n + 1) .. (i - 1) : plist[l].type # "EOM"}}

buildEndOfMinute ==
    /\ Building({"EOM"})
    /\ LET m == plist[idx].at IN
           /\ eNext' = [c \in Chains |->
                  IF c \in TouchedChains(idx)
                  THEN [eNext[c] EXCEPT !.body =
                           Append(@, EBEntry(None, None, m))]
                  ELSE eNext[c]]
           /\ AddECEntry(ECEntry("minute", None, Zero, m))
           /\ aNext' = IF aNext # <<>> /\ aNext[Len(aNext)] = DBSignature
                       THEN Append(aNext, m) ELSE aNext
    /\ idx' = idx + 1
    /\ UNCHANGED <<pc, todo, pools, chainIDMap, ledger, rate, minute, dNext,
                   nextHeight, disk, dbCredit, ecLost, boots>>

----------------------------------------------------------------------------
\* buildBlocks: seal and store the open blocks, the directory block last.

newEntryCreditBlock ==
    /\ pc = "build"
    /\ idx > Len(plist)
    /\ LET block == [height |-> nextHeight.ec, entries |-> ecNext] IN
           /\ ecDB' = ecDB \cup {block}
           /\ dNext' = [dNext EXCEPT !.ec = block]
           /\ dbCredit' = IF block \in ecDB THEN dbCredit ELSE ecCredit
           /\ ecLost' = (ecLost \/ block \in ecDB)
    /\ ecCredit' = dbCredit'
    /\ ecNext' = <<ServerIndex>>
    /\ nextHeight' = [nextHeight EXCEPT !.ec = @ + 1]
    /\ pc' = "admin"
    /\ UNCHANGED <<todo, idx, pools, chains, ledger, rate, minute, aNext, aDB,
                   fDB, eDB, dDB, chainDB, entryDB, boots>>

newAdminBlock ==
    /\ pc = "admin"
    /\ IF nextHeight.a = nextHeight.d
       THEN LET block == [height |-> nextHeight.a, entries |-> aNext] IN
                /\ aDB' = aDB \cup {block}
                /\ dNext' = [dNext EXCEPT !.a = block]
                /\ aNext' = <<>>
                /\ nextHeight' = [nextHeight EXCEPT !.a = @ + 1]
                /\ pc' = "fct"
       ELSE pc' = "panic" /\ UNCHANGED <<aDB, dNext, aNext, nextHeight>>
    /\ UNCHANGED <<todo, idx, pools, chains, ledger, rate, minute, ecNext,
                   ecDB, fDB, eDB, dDB, chainDB, entryDB, credit, boots>>

\* The configuration is read again, and its rate is the one of the next
\* period.  boot stands for the time stamped into the block's coinbase
\* transaction, which no later process repeats.
newFactoidBlock ==
    /\ pc = "fct"
    /\ rate' \in Rates
    /\ IF nextHeight.f = nextHeight.d
       THEN LET block == [height |-> nextHeight.f, rate |-> rate,
                          boot |-> boots] IN
                /\ fDB' = fDB \cup {block}
                /\ dNext' = [dNext EXCEPT !.f = block]
                /\ nextHeight' = [nextHeight EXCEPT !.f = @ + 1]
                /\ todo' = chainIDMap
                /\ pc' = "entry"
       ELSE pc' = "panic" /\ UNCHANGED <<fDB, dNext, nextHeight, todo>>
    /\ UNCHANGED <<idx, pools, chains, ledger, minute, ecNext, aNext,
                   ecDB, aDB, eDB, dDB, chainDB, entryDB, credit, boots>>

\* The chains are visited in the order of their ids; a chain whose open block
\* is empty gets no block.
NextInOrder(c) == c \in todo /\ \A d \in todo : c <= d

StoreEntryBlock(c, height, seq) ==
    LET block == [chain |-> IF eNext[c].own THEN c ELSE ZeroChain,
                  seq |-> eNext[c].seq, height |-> height,
                  body |-> eNext[c].body] IN
    /\ eDB' = eDB \cup {block}
    /\ dNext' = [dNext EXCEPT !.e = Append(@, block)]
    /\ eNext' = [eNext EXCEPT ![c] =
                     [own |-> TRUE, seq |-> seq, body |-> <<>>]]

VisitChain(c) ==
    /\ pc = "entry"
    /\ NextInOrder(c)
    /\ todo' = todo \ {c}
    /\ UNCHANGED <<pc, idx, pools, chainIDMap, ledger, rate, minute, ecNext,
                   aNext, nextHeight, ecDB, aDB, fDB, dDB, chainDB, entryDB,
                   credit, boots>>

\* Faulty variants: the height of the following directory block, and a chain
\* that takes its next sequence number from the directory chain.
newEntryBlock_NextHeight(c) ==
    /\ VisitChain(c)
    /\ IF eNext[c].body = <<>>
       THEN UNCHANGED <<eDB, dNext, eNext>>
       ELSE StoreEntryBlock(c, nextHeight.d + 1, eNext[c].seq + 1)

newEntryBlock_DirSequence(c) ==
    /\ VisitChain(c)
    /\ IF eNext[c].body = <<>>
       THEN UNCHANGED <<eDB, dNext, eNext>>
       ELSE StoreEntryBlock(c, nextHeight.d, nextHeight.d + 1)

newEntryBlock(c) ==
    /\ VisitChain(c)
    /\ IF eNext[c].body = <<>>
       THEN UNCHANGED <<eDB, dNext, eNext>>
       ELSE StoreEntryBlock(c, nextHeight.d, eNext[c].seq + 1)

\* newDirectoryBlock and the rest of buildBlocks: the admin chain gets the
\* signature of the new block, the process list starts afresh and so does
\* the timer.
newDirectoryBlock ==
    /\ pc = "entry"
    /\ todo = {}
    /\ dDB' = Append(dDB, dNext)
    /\ dNext' = EmptyDBlock
    /\ nextHeight' = [nextHeight EXCEPT !.d = @ + 1]
    /\ aNext' = Append(aNext, DBSignature)
    /\ plist' = <<>>
    /\ idx' = 1
    /\ minute' \in Minutes
    /\ pc' = "serve"
    /\ UNCHANGED <<todo, eCreditMap, pools, chains, rate, ecNext, ecDB, aDB,
                   fDB, eDB, chainDB, entryDB, credit, boots>>

----------------------------------------------------------------------------
\* The process dies and initProcessor loads the database.

\* b is the nth (from 0) stored entry credit block in the order of heights.
IsECBlockAt(b, n) ==
    /\ Cardinality({x \in ecDB : x.height < b.height}) <= n
    /\ n < Cardinality({x \in ecDB : x.height <= b.height})

Listed(dblock) ==
    /\ dblock.ec \in ecDB /\ dblock.a \in aDB /\ dblock.f \in fDB
    /\ \A i \in DOMAIN dblock.e : dblock.e[i] \in eDB

\* validateEBlockByMR: the entries of an entry block are stored as well.
EntriesStored(b) == \A i \in DOMAIN b.body : b.body[i].entry \in entryDB \cup {None}

\* A listed block is the block whose hash the directory keeps, so the hashes
\* that are computed and compared here, BodyMR and the links among them, agree.
validateDBlock(dblock) ==
    /\ Listed(dblock)
    /\ \A i \in DOMAIN dblock.e : EntriesStored(dblock.e[i])

validateDChain == \A i \in DOMAIN dDB : validateDBlock(dDB[i])

StartupSucceeds ==
    /\ Consecutive({b.height : b \in aDB}, Cardinality(aDB))
    /\ Consecutive({b.height : b \in fDB}, Cardinality(fDB))
    /\ \A c \in chainDB : EChainIntact(c)
    /\ validateDChain

\* Faulty variant: the chains are not loaded.
initEChains_None == {}

\* The chains chainIDMap holds after a start.
initEChains == chainDB

initProcessor ==
    /\ pc \in CrashAt
    /\ boots < MaxBoots
    /\ boots' = boots + 1
    /\ \E prev \in ecDB :
           /\ IsECBlockAt(prev, Len(dDB) - 1)
           /\ nextHeight' = [d |-> Len(dDB), ec |-> prev.height + 1,
                             a |-> Len(dDB), f |-> Len(dDB)]
    /\ eCreditMap' = dbCredit
    /\ ecCredit' = dbCredit
    /\ ecNext' = <<>>
    /\ aNext' = <<DBSignature>>
    /\ \E last \in fDB :
           /\ \A b \in fDB : b.height <= last.height
           /\ rate' = last.rate
    /\ dNext' = EmptyDBlock
    /\ plist' = <<>>
    /\ idx' = 1
    /\ todo' = {}
    /\ commitEntryMap' = [e \in Entries |-> None]
    /\ commitChainMap' = [e \in Entries |-> None]
    /\ orphans' = {}
    /\ seen' = {}
    /\ chainIDMap' = initEChains
    /\ eNext' = [c \in Chains |-> IF c \in chainDB THEN initEChainFromDB(c)
                                                   ELSE NewEBlock]
    /\ minute' \in Minutes
    /\ pc' = IF StartupSucceeds THEN "serve" ELSE "panic"
    /\ UNCHANGED <<disk, dbCredit, ecLost>>

----------------------------------------------------------------------------
Serve ==
    \/ \E c \in Commits : \/ processCommitEntry(c)
                          \/ processCommitChain(c)
                          \/ RefuseCommit(c)
    \/ \E t \in Txs : processBuyEntryCredit(t) \/ RefuseFactoidTX(t)
    \/ \E e \in Entries : processRevealEntry(e)

BuildBlocks ==
    \/ \E e \in Entries : processFromOrphanPool(e)
    \/ EndProcessList
    \/ buildCommit
    \/ buildIncreaseBalance
    \/ buildRevealEntry
    \/ buildRevealChain
    \/ buildFirstEntry
    \/ buildEndOfMinute
    \/ newEntryCreditBlock
    \/ newAdminBlock
    \/ newFactoidBlock
    \/ \E c \in Chains : newEntryBlock(c)
    \/ newDirectoryBlock

Next == Serve \/ EndOfMinute \/ EndOfMinute10 \/ BuildBlocks \/ initProcessor

Spec == Init /\ [][Next]_vars

\* The timer and the goroutine keep running: a handler that has begun ends and
\* the next end of minute is sent.  Messages and crashes are not promised.
Fairness == WF_vars(EndOfMinute \/ EndOfMinute10 \/ BuildBlocks)

FairSpec == Spec /\ Fairness

----------------------------------------------------------------------------
\* Properties

EBEntries == [entry : Entries \cup {None}, by : Commits \cup {None},
              at : Minutes]

Messages == Commits \cup Txs \cup Entries \cup {None}

ECEntries == [type : CommitKinds \cup {"factoidTX", "minute", "serverIndex"},
              msg : Messages, delta : Balances, at : 0 .. LastMinute]

Items ==
    [type : CommitKinds, msg : Commits, by : {None}, at : {0}, bal : Balances]
    \cup
    [type : {"factoidTX"}, msg : Txs, by : {None}, at : {0}, bal : Balances]
    \cup
    [type : Reveals, msg : Entries, by : Commits, at : Minutes, bal : Balances]
    \cup
    [type : {"EOM"}, msg : {None}, by : {None}, at : Minutes, bal : Balances]

ECBlocks == [height : Nat, entries : Seq(ECEntries)]
ABlocks  == [height : Nat, entries : Seq(0 .. LastMinute)]
FBlocks  == [height : Nat, rate : Nat \ {0}, boot : Nat]
EBlocks  == [chain : Chains \cup {ZeroChain}, seq : Nat, height : Nat,
             body : Seq(EBEntries)]
DBlocks  == [ec : ECBlocks, a : ABlocks, f : FBlocks, e : Seq(EBlocks)]

OpenEBlocks == [own : BOOLEAN, seq : Nat, body : Seq(EBEntries)]
OpenDBlocks == [ec : ECBlocks \cup {None}, a : ABlocks \cup {None},
                f : FBlocks \cup {None}, e : Seq(EBlocks)]
Heights     == [d : Nat, ec : Nat, a : Nat, f : Nat]

\* Type invariant: every variable of the engine and of the database keeps its
\* type, in particular every block handed to db.Process...Batch is well formed.
TypeOK ==
    /\ pc \in Running \cup {"panic"}
    /\ todo \subseteq Entries \cup Chains
    /\ idx \in Nat \ {0}
    /\ eCreditMap \in Balances
    /\ commitEntryMap \in [Entries -> Commits \cup {None}]
    /\ commitChainMap \in [Entries -> Commits \cup {None}]
    /\ chainIDMap \subseteq Chains
    /\ eNext \in [Chains -> OpenEBlocks]
    /\ orphans \subseteq Entries
    /\ plist \in Seq(Items)
    /\ seen \subseteq Commits \cup Txs
    /\ rate \in Nat \ {0}
    /\ minute \in Minutes
    /\ nextHeight \in Heights
    /\ ecNext \in Seq(ECEntries)
    /\ aNext \in Seq(0 .. LastMinute)
    /\ dNext \in OpenDBlocks
    /\ ecDB \subseteq ECBlocks
    /\ aDB \subseteq ABlocks
    /\ fDB \subseteq FBlocks
    /\ eDB \subseteq EBlocks
    /\ dDB \in Seq(DBlocks)
    /\ chainDB \subseteq Chains
    /\ entryDB \subseteq Entries
    /\ dbCredit \in Balances
    /\ ecCredit \in Balances
    /\ ecLost \in BOOLEAN
    /\ boots \in Nat

\* Once the entry credit block of a period is stored, a replay of the stored
\* blocks (initECChain) gives exactly the balances the engine serves from, and
\* so does it when a new period begins: purchases are converted twice, by
\* processBuyEntryCredit and by buildIncreaseBalance, and must agree.
BlockAccountsForBalances ==
    ~ecLost /\ (pc \in Sealing \/ (pc = "serve" /\ plist = <<>>))
        => dbCredit = eCreditMap

\* No key is ever overdrawn, neither in eCreditMap nor by a replay of the
\* stored entry credit blocks.
NoOverdraft ==
    ~ecLost => \A k \in Keys : eCreditMap[k] >= 0 /\ dbCredit[k] >= 0

\* What the entries of an entry credit block add to the balance of key k, and
\* what all the stored blocks add, as initECChain adds them up.
BlockSum(entries, k) ==
    SumFunction([i \in DOMAIN entries |-> entries[i].delta[k]])

Replay(k) == SumFunction([b \in ecDB |-> BlockSum(b.entries, k)])

\* Added up from the stored entry credit blocks themselves, the balances are
\* those the engine serves from, once the block of a period is stored and
\* until the next period accepts its first message.
ReplayGivesBalances ==
    ~ecLost /\ (pc \in Sealing \/ (pc = "serve" /\ plist = <<>>))
        => \A k \in Keys : eCreditMap[k] = Replay(k)

EntriesOf(block) ==
    {block.body[i] : i \in {j \in DOMAIN block.body : block.body[j].entry # None}}

\* How often commit c is charged for, in an entry credit block and in all the
\* stored ones, and how often an entry block and all the stored ones use it.
ChargesIn(entries, c) ==
    Cardinality({i \in DOMAIN entries :
                    entries[i].type \in CommitKinds /\ entries[i].msg = c})

Charges(c) == SumFunction([b \in ecDB |-> ChargesIn(b.entries, c)])

UsesIn(body, c) == Cardinality({i \in DOMAIN body : body[i].by = c})

Uses(c) == SumFunction([b \in eDB |-> UsesIn(b.body, c)])

\* Every entry of a stored entry block was paid for by a commit, large enough,
\* for that entry, and no commit pays for more entries than it was charged
\* for in the stored entry credit blocks, wherever the process dies.
EntriesArePaidFor ==
    /\ \A b \in eDB : \A x \in EntriesOf(b) :
           LET m == CommitMsg[x.by] IN
           m.entry = x.entry /\ m.credits >= Cost[x.entry]
    /\ ~ecLost => \A c \in Commits : Uses(c) <= Charges(c)

\* Every entry of a stored entry block is followed by the marker of the minute
\* in which it was accepted, also when it came from the orphan pool:
\* buildEndOfMinute reaches every chain touched, and nothing is served after
\* the tenth end of minute.  (handleEntryBlock drops entries without marker.)
EntriesKeepTheirMinute ==
    \A b \in eDB : \A i \in DOMAIN b.body :
        \/ b.body[i].entry = None
        \/ \E j \in DOMAIN b.body :
              /\ j > i
              /\ b.body[j].entry = None /\ b.body[j].at = b.body[i].at
              /\ \A l \in i .. (j - 1) : b.body[l].entry # None

\* Outside buildBlocks every stored block is listed in the directory block of
\* its height, so no entry is stored that a reader of the directory misses.
StoredBlocksAreListed ==
    pc \notin Sealing =>
        /\ \A b \in ecDB : \E i \in DOMAIN dDB : dDB[i].ec = b /\ b.height = i - 1
        /\ \A b \in aDB  : \E i \in DOMAIN dDB : dDB[i].a = b /\ b.height = i - 1
        /\ \A b \in fDB  : \E i \in DOMAIN dDB : dDB[i].f = b /\ b.height = i - 1
        /\ \A b \in eDB  : \E i \in DOMAIN dDB :
              b.height = i - 1 /\ \E j \in DOMAIN dDB[i].e : dDB[i].e[j] = b

\* A directory block lists stored blocks only, of its own height and with all
\* their entries, wherever the process dies: the directory block is written
\* last, and an entry before the block that holds it.
DirectoryListsStoredBlocks ==
    \A i \in DOMAIN dDB :
        /\ validateDBlock(dDB[i])
        /\ dDB[i].a.height = i - 1 /\ dDB[i].f.height = i - 1
        /\ \A j \in DOMAIN dDB[i].e : dDB[i].e[j].height = i - 1

\* A stored chain opens with the entry that names it, paid by a chain commit,
\* and no other entry of it came in by a chain commit: processRevealEntry
\* makes a chain known only once.
ChainsOpenWithTheirFirstEntry ==
    \A b \in eDB : \A i \in DOMAIN b.body :
        b.chain # ZeroChain /\ b.body[i].entry # None =>
            LET paid == CommitMsg[b.body[i].by] IN
            IF b.seq = 0 /\ i = 1
            THEN paid.kind = "commitChain" /\ NamesChain[b.body[i].entry]
            ELSE paid.kind = "commitEntry"

\* Starting on the stored blocks never panics.
StartupNeverPanics == pc # "panic"

\* A chain that has entries was created by a reveal that paid the chain fee.
ChainCreationIsPaid ==
    \A i \in DOMAIN plist : plist[i].type = "revealEntry" =>
        LET c == ChainOf[plist[i].msg] IN
        \/ c \in chainDB
        \/ \E j \in 1 .. (i - 1) : /\ plist[j].type = "revealChain"
                                   /\ ChainOf[plist[j].msg] = c

\* An orphan that is paid for, and whose chain is known, while messages are
\* still served gets into the process list of the same period:
\* processFromOrphanPool reaches it whatever the order of its loop.
OrphansAreServed ==
    \A e \in Entries, h \in 1 .. (MaxHeight - 1) :
        (pc = "serve" /\ nextHeight.d = h /\ e \in orphans /\ AcceptsEntry(e))
            ~> /\ nextHeight.d = h
               /\ \E i \in DOMAIN plist :
                      plist[i].type = "revealEntry" /\ plist[i].msg = e

=============================================================================
