------------------------------- MODULE SyncUp -------------------------------
(***************************************************************************)
(* A client node (process/syncup.go).  The engine's goroutine puts the     *)
(* blocks and entries that peers send into the block pool; a second        *)
(* goroutine, validateAndStoreBlocks, waits until the pool holds all that  *)
(* the next directory block lists, writes it to the database and takes it  *)
(* out of the pool.                                                        *)
(*                                                                         *)
(* Peers are honest: what they send is of the server's chain.  It arrives  *)
(* in any order, repeatedly, late or never, and the process may die        *)
(* between any two writes.                                                 *)
(***************************************************************************)
EXTENDS Integers, Sequences, FiniteSets

CONSTANTS
    Top,     \* the server's last directory block height
    EBlocks, \* the entry blocks of the server
    Entries,
    None,    \* no height; in the body of a block: an end-of-minute marker
    Listed,  \* Listed[h]: the entry blocks of directory block h, in order
    ChainOf, \* ChainOf[b]: the chain of entry block b
    SeqOf,   \* SeqOf[b]: its sequence number
    Body,    \* Body[b]: its entries and markers, in order
    MAX_BLK_POOL_SIZE

\* Bounds of a model: how far ahead of the client peers send, how many late
\* duplicates the pool may hold, how often the process starts.
CONSTANTS Ahead, MaxStale, MaxBoots

Heights == 0 .. Top

ASSUME ConstantTypes ==
    /\ Top \in Nat
    /\ None \notin Entries \cup Heights
    /\ Listed \in [Heights -> Seq(EBlocks)]
    /\ \A h \in Heights : \A i, j \in DOMAIN Listed[h] :
           Listed[h][i] = Listed[h][j] => i = j
    /\ Body \in [EBlocks -> Seq(Entries \cup {None})]
    /\ \A b \in EBlocks : Body[b] # <<>> /\ Body[b][1] # None
    /\ SeqOf \in [EBlocks -> Nat]
    /\ MAX_BLK_POOL_SIZE \in Nat /\ MaxBoots \in Nat

\* The server builds at most one entry block of a chain per height, numbered
\* from 0, and lists each of them.  (One that died between an entry block and
\* its directory block has a number that no directory block lists.)
ASSUME ServerChains ==
    /\ IsFiniteSet(EBlocks)
    /\ \A h \in Heights : \A i \in DOMAIN Listed[h] :
        \A n \in 0 .. (SeqOf[Listed[h][i]] - 1) :
            \E g \in 0 .. (h - 1) : \E j \in DOMAIN Listed[g] :
                /\ ChainOf[Listed[g][j]] = ChainOf[Listed[h][i]]
                /\ SeqOf[Listed[g][j]] = n

----------------------------------------------------------------------------
\* Messages and database records, by the key under which they are kept

Key(kind, id) == [kind |-> kind, id |-> id]

SystemKinds == <<"a", "ec", "f">>

\* A directory block lists its admin, entry credit and factoid block and then
\* the entry blocks.
DBEntries(h) ==
    [i \in 1 .. (3 + Len(Listed[h])) |->
        IF i <= 3 THEN Key(SystemKinds[i], h) ELSE Key("e", Listed[h][i - 3])]

EntryKeys(b) == {Key("entry", x) : x \in {Body[b][i] : i \in DOMAIN Body[b]}}

\* The key of a marker is in no pool.
Marker == Key("entry", None)

BlockKeys(h) == {DBEntries(h)[i] : i \in DOMAIN DBEntries(h)}

EBlocksAt(h) == {Listed[h][i] : i \in DOMAIN Listed[h]}

EntriesAt(h) == (UNION {EntryKeys(b) : b \in EBlocksAt(h)}) \ {Marker}

\* The messages with the blocks and entries of height h.
MessagesAt(h) == BlockKeys(h) \cup EntriesAt(h)

Messages == UNION {MessagesAt(h) : h \in Heights}

DirKey(h) == Key("dir", h)

\* Entry block b opens its chain: the chain is stored with it.
ChainKeys(b) == IF SeqOf[b] = 0 THEN {Key("chain", ChainOf[b])} ELSE {}

\* All that the database holds of height h, the directory block apart.
Content ==
    [h \in Heights |->
        MessagesAt(h) \cup UNION {ChainKeys(b) : b \in EBlocksAt(h)}]

----------------------------------------------------------------------------
VARIABLES
    blockpool,        \* keys of the messages in the pool
    dchainBlocks,     \* the heights at which dchain.Blocks is not nil
    waiting,          \* height of the directory block message whose handler
                      \* has not added it to the pool yet, or None
    pc,               \* where validateAndStoreBlocks is
    pos, sub,         \* its loop counters: DBEntry, and entry of that block
    lastDirBlkHeight, \* the block height cache
    applied,          \* how often each entry credit and factoid block has been
                      \* applied to the balances in memory
    db,               \* keys of the stored records
    boots

engine == <<dchainBlocks, waiting>>
sync   == <<pc, pos, sub, lastDirBlkHeight, applied, db>>
vars   == <<blockpool, engine, sync, boots>>

\* The height validateAndStoreBlocks works on.
height == IF pc \in {"loop", "checked", "store"} THEN lastDirBlkHeight + 1
                                                 ELSE lastDirBlkHeight

StoredHeights == {h \in Heights : DirKey(h) \in db}

AppliedKinds == {"ec", "f"}

Init ==
    /\ blockpool = {}
    /\ dchainBlocks = {}
    /\ waiting = None
    /\ pc = "loop"
    /\ pos = 1 /\ sub = 1
    /\ lastDirBlkHeight = -1
    /\ applied = [k \in AppliedKinds |-> [h \in Heights |-> 0]]
    /\ db = {}
    /\ boots = 1

----------------------------------------------------------------------------
\* The engine's goroutine.  storeBlocksFromMemPool keeps the pool locked for
\* reading, so nothing is added while it runs.

\* Faulty variant: a full pool is emptied.
addBlockMsg_Evicts(k) ==
    /\ pc # "store"
    /\ blockpool' = IF Cardinality(blockpool) > MAX_BLK_POOL_SIZE
                    THEN {k} ELSE blockpool \cup {k}

addBlockMsg(k) ==
    /\ pc # "store"
    /\ blockpool' = IF Cardinality(blockpool) > MAX_BLK_POOL_SIZE
                    THEN blockpool ELSE blockpool \cup {k}

\* The heights a message belongs to.
HeightsWith == [k \in Messages |-> {h \in Heights : k \in MessagesAt(h)}]

Late(k) == HeightsWith[k] \subseteq 0 .. lastDirBlkHeight

\* The bounds: k is of a height not too far ahead, or one of few late ones.
Due(k) ==
    \/ k \in blockpool
    \/ \E h \in HeightsWith[k] : lastDirBlkHeight < h /\ h <= lastDirBlkHeight + Ahead
    \/ /\ \E h \in HeightsWith[k] : h <= lastDirBlkHeight
       /\ Cardinality({m \in blockpool \cap Messages : Late(m)}) < MaxStale

\* processFBlock, processABlock, procesECBlock, processEBlock, processEntry
processBlock(k) ==
    /\ waiting = None
    /\ Due(k)
    /\ addBlockMsg(k)
    /\ UNCHANGED <<engine, sync, boots>>

\* A directory block that is not stored enters dchain without a lock, ...
processDirBlock(h) ==
    /\ waiting = None
    /\ h <= lastDirBlkHeight + Ahead
    /\ IF DirKey(h) \in db
       THEN UNCHANGED engine
       ELSE dchainBlocks' = dchainBlocks \cup {h} /\ waiting' = h
    /\ UNCHANGED <<blockpool, sync, boots>>

\* ... and then the pool.
addDirBlockMsg ==
    /\ waiting # None
    /\ addBlockMsg(DirKey(waiting))
    /\ waiting' = None
    /\ UNCHANGED <<dchainBlocks, sync, boots>>

----------------------------------------------------------------------------
\* validateBlocksFromMemPool

\* Faulty variant: the database is not asked for an entry.
validateEntries_PoolOnly(b) ==
    \A k \in EntryKeys(b) : k \in blockpool \/ k = Marker

validateEntries(b) ==
    \A k \in EntryKeys(b) : k \in blockpool \/ k = Marker \/ k \in db

validateBlocksFromMemPool(h) ==
    /\ BlockKeys(h) \subseteq blockpool
    /\ \A b \in EBlocksAt(h) : validateEntries(b)

\* When the next directory block is missing or not complete the loop sleeps.
validateBlocks ==
    /\ pc = "loop"
    /\ height \in dchainBlocks
    /\ validateBlocksFromMemPool(height)
    /\ pc' = "checked"
    /\ UNCHANGED <<blockpool, engine, pos, sub, lastDirBlkHeight, applied, db,
                   boots>>

----------------------------------------------------------------------------
\* storeBlocksFromMemPool: one step per write

beginStore ==
    /\ pc = "checked"
    /\ pc' = "store"
    /\ pos' = 1 /\ sub' = 1
    /\ UNCHANGED <<blockpool, engine, lastDirBlkHeight, applied, db, boots>>

AtSystemBlock == pos <= 3

AtEBlock == 3 < pos /\ pos <= Len(DBEntries(height))

theBlock == Listed[height][pos - 3]

\* Storing an entry credit or a factoid block also applies it in memory.
storeSystemBlock ==
    /\ pc = "store"
    /\ AtSystemBlock
    /\ db' = db \cup {DBEntries(height)[pos]}
    /\ applied' = [k \in AppliedKinds |-> [h \in Heights |->
                      IF Key(k, h) = DBEntries(height)[pos]
                      THEN applied[k][h] + 1 ELSE applied[k][h]]]
    /\ pos' = pos + 1
    /\ UNCHANGED <<blockpool, engine, pc, sub, lastDirBlkHeight, boots>>

storeEntry ==
    /\ pc = "store"
    /\ AtEBlock
    /\ sub <= Len(Body[theBlock])
    /\ db' = db \cup (blockpool \cap {Key("entry", Body[theBlock][sub])})
    /\ sub' = sub + 1
    /\ UNCHANGED <<blockpool, engine, pc, pos, lastDirBlkHeight, applied, boots>>

storeEBlock ==
    /\ pc = "store"
    /\ AtEBlock
    /\ sub = Len(Body[theBlock]) + 1
    /\ db' = db \cup {Key("e", theBlock)}
    /\ sub' = sub + 1
    /\ UNCHANGED <<blockpool, engine, pc, pos, lastDirBlkHeight, applied, boots>>

\* Faulty variant: the chain of a first block is not stored.
storeChain_Forgotten ==
    /\ pc = "store"
    /\ AtEBlock
    /\ sub = Len(Body[theBlock]) + 2
    /\ pos' = pos + 1 /\ sub' = 1
    /\ UNCHANGED <<blockpool, engine, pc, lastDirBlkHeight, applied, db, boots>>

\* A chain is stored with its first block, whose first entry must be there.
storeChain ==
    /\ pc = "store"
    /\ AtEBlock
    /\ sub = Len(Body[theBlock]) + 2
    /\ IF SeqOf[theBlock] = 0 /\ Key("entry", Body[theBlock][1]) \notin db
       THEN pc' = "panic" /\ UNCHANGED <<db, pos, sub>>
       ELSE /\ db' = db \cup ChainKeys(theBlock)
            /\ pos' = pos + 1 /\ sub' = 1
            /\ UNCHANGED pc
    /\ UNCHANGED <<blockpool, engine, lastDirBlkHeight, applied, boots>>

\* Faulty variant: the block height cache is not advanced.
storeDirBlock_StaleCache ==
    /\ pc = "store"
    /\ pos = Len(DBEntries(height)) + 1
    /\ db' = db \cup {DirKey(height)}
    /\ pc' = "loop"
    /\ pos' = 1 /\ sub' = 1
    /\ UNCHANGED <<blockpool, engine, lastDirBlkHeight, applied, boots>>

storeDirBlock ==
    /\ pc = "store"
    /\ pos = Len(DBEntries(height)) + 1
    /\ db' = db \cup {DirKey(height)}
    /\ lastDirBlkHeight' = height
    /\ pc' = "delete"
    /\ pos' = 1 /\ sub' = 1
    /\ UNCHANGED <<blockpool, engine, applied, boots>>

----------------------------------------------------------------------------
\* deleteBlocksFromMemPool: the pool is locked anew for each message

deleteSystemBlock ==
    /\ pc = "delete"
    /\ AtSystemBlock
    /\ blockpool' = blockpool \ {DBEntries(height)[pos]}
    /\ pos' = pos + 1
    /\ UNCHANGED <<engine, pc, sub, lastDirBlkHeight, applied, db, boots>>

deleteEntry ==
    /\ pc = "delete"
    /\ AtEBlock
    /\ sub <= Len(Body[theBlock])
    /\ blockpool' = blockpool \ {Key("entry", Body[theBlock][sub])}
    /\ sub' = sub + 1
    /\ UNCHANGED <<engine, pc, pos, lastDirBlkHeight, applied, db, boots>>

\* Faulty variant: the inner counter is not reset.
deleteEBlock_KeepsSub ==
    /\ pc = "delete"
    /\ AtEBlock
    /\ sub = Len(Body[theBlock]) + 1
    /\ blockpool' = blockpool \ {Key("e", theBlock)}
    /\ pos' = pos + 1
    /\ UNCHANGED <<engine, pc, sub, lastDirBlkHeight, applied, db, boots>>

deleteEBlock ==
    /\ pc = "delete"
    /\ AtEBlock
    /\ sub = Len(Body[theBlock]) + 1
    /\ blockpool' = blockpool \ {Key("e", theBlock)}
    /\ pos' = pos + 1 /\ sub' = 1
    /\ UNCHANGED <<engine, pc, lastDirBlkHeight, applied, db, boots>>

deleteDirBlock ==
    /\ pc = "delete"
    /\ pos = Len(DBEntries(height)) + 1
    /\ blockpool' = blockpool \ {DirKey(height)}
    /\ pc' = "loop"
    /\ UNCHANGED <<engine, pos, sub, lastDirBlkHeight, applied, db, boots>>

----------------------------------------------------------------------------
\* The process dies and starts on the database.

HeightsOf(kind) == {h \in Heights : Key(kind, h) \in db}

BlocksOf(c) == {b \in EBlocks : ChainOf[b] = c /\ Key("e", b) \in db}

\* The stored heights (sequence numbers) are 0, 1, ... without repetition.
Consecutive(heights) == heights = 0 .. (Cardinality(heights) - 1)

\* Faulty variant: the index is one too high.
HasPredecessor_OneOff(kind) ==
    HeightsOf(kind) = {} \/ Cardinality(StoredHeights) < Cardinality(HeightsOf(kind))

\* initECChain and initAChain look up the predecessor of the open block by its
\* index among the stored ones.
HasPredecessor(kind) ==
    HeightsOf(kind) = {} \/ Cardinality(StoredHeights) <= Cardinality(HeightsOf(kind))

\* The checks of initDChain, initECChain, initAChain, initFctChain and
\* initEChainFromDB.  That the directory block before is signed holds of what an
\* honest server sent, and what validateDChain finds is only noted on a client.
StartupSucceeds ==
    /\ Consecutive(StoredHeights)
    /\ HasPredecessor("ec")
    /\ Consecutive(HeightsOf("a")) /\ HasPredecessor("a")
    /\ Consecutive(HeightsOf("f"))
    /\ \A b \in EBlocks : Key("chain", ChainOf[b]) \in db =>
           Consecutive({SeqOf[x] : x \in BlocksOf(ChainOf[b])})

initProcessor ==
    /\ boots < MaxBoots
    /\ boots' = boots + 1
    /\ blockpool' = {}
    /\ dchainBlocks' = StoredHeights
    /\ waiting' = None
    /\ lastDirBlkHeight' = Cardinality(StoredHeights) - 1
    /\ applied' = [k \in AppliedKinds |-> [h \in Heights |->
                      IF Key(k, h) \in db THEN 1 ELSE 0]]
    /\ pc' = IF StartupSucceeds THEN "loop" ELSE "panic"
    /\ pos' = 1 /\ sub' = 1
    /\ UNCHANGED db

----------------------------------------------------------------------------
validateAndStoreBlocks ==
    \/ validateBlocks
    \/ beginStore
    \/ storeSystemBlock \/ storeEntry \/ storeEBlock \/ storeChain
    \/ storeDirBlock
    \/ deleteSystemBlock \/ deleteEntry \/ deleteEBlock \/ deleteDirBlock

Receive ==
    /\ pc # "panic"
    /\ \/ \E k \in Messages : processBlock(k)
       \/ \E h \in Heights : processDirBlock(h)
       \/ addDirBlockMsg

Next == Receive \/ validateAndStoreBlocks \/ initProcessor

Spec == Init /\ [][Next]_vars

\* The goroutine keeps running, whatever the engine does.  Nothing is assumed
\* of the peers.
FairSpec == Spec /\ WF_vars(validateAndStoreBlocks)

----------------------------------------------------------------------------
\* Properties

Kinds == {"a", "ec", "f", "e", "entry", "chain", "dir"}

\* Type invariant: the loop counters stay inside the directory block and the
\* entry block they run over, and the block height cache inside the chain.
TypeOK ==
    /\ blockpool \subseteq Messages \cup {DirKey(h) : h \in Heights}
    /\ dchainBlocks \subseteq Heights
    /\ waiting \in Heights \cup {None}
    /\ pc \in {"loop", "checked", "store", "delete", "panic"}
    /\ lastDirBlkHeight \in -1 .. Top
    /\ pc \in {"checked", "store", "delete"} => height \in Heights
    /\ pc \in {"store", "delete"} =>
           /\ pos \in 1 .. (Len(DBEntries(height)) + 1)
           /\ sub \in 1 .. (IF AtEBlock THEN Len(Body[theBlock]) + 2 ELSE 1)
    /\ applied \in [AppliedKinds -> [Heights -> Nat]]
    /\ db \subseteq UNION {Content[h] \cup {DirKey(h)} : h \in Heights}
    /\ boots \in Nat

\* What a reader of the client's database finds below each directory block.
mirror == [h \in StoredHeights |-> Content[h] \cap db]

\* The client implements Mirror: whatever is delivered and wherever the process
\* dies, its directory grows by one height at a time, and a directory block is
\* there only with every block, entry and chain it stands for
\* (storeBlocksFromMemPool stores it last, and never one that is not complete).
MirrorOfServer == INSTANCE Mirror WITH Top <- Top, Content <- Content, mirror <- mirror

MirrorsServer == MirrorOfServer!Spec

\* All that height h needs is in the pool, or in the database if it is an entry.
Present(h) ==
    BlockKeys(h) \subseteq blockpool /\ EntriesAt(h) \subseteq blockpool \cup db

\* Between the check of the pool and the last deletion the pool keeps what the
\* goroutine reads from it without a further check (a missing message is a nil
\* dereference): the engine only adds, and entries that an earlier height took
\* out of the pool are in the database.
PoolKeepsWhatWasChecked ==
    /\ pc \in {"checked", "store"} => Present(height)
    /\ pc = "delete" /\ AtEBlock => Key("e", theBlock) \in blockpool

\* The client starts on any database it can leave behind, and storing the first
\* block of a chain finds the chain's first entry: unlike a server, a client
\* stores the same blocks again when it repeats a height.
StartupNeverPanics == pc # "panic"

\* The entry credit and factoid blocks of a stored height have been applied to
\* the balances in memory, and none twice. After the process died between such a
\* block and its directory block, initECChain and initFctChain apply the block and
\* the download applies it again: this one height is counted twice, and no other.
BlocksAppliedOnce ==
    \A k \in AppliedKinds :
        LET twice == {h \in Heights : applied[k][h] > 1} IN
        /\ \A h \in StoredHeights : applied[k][h] >= 1
        /\ \A h \in twice : applied[k][h] = 2
        /\ Cardinality(twice) <= IF boots = 1 THEN 0 ELSE 1

Complete(h) ==
    \A g \in 0 .. h :
        \/ DirKey(g) \in db
        \/ g \in dchainBlocks /\ Present(g)

\* In a process that does not end any more, once all of the heights up to h is
\* there h gets stored, although an entry that two heights share leaves the pool
\* with the first of them and earlier processes may have stored h in part.
CompleteIsStored ==
    \A h \in Heights : (boots = MaxBoots /\ Complete(h)) ~> DirKey(h) \in db

=============================================================================
