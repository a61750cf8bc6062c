------------------------------- MODULE WebAPI -------------------------------
(***************************************************************************)
(* The web API (wsapi, factomapi) beside the engine's goroutine, on one    *)
(* database (database/ldb).                                                *)
(*                                                                         *)
(* A client posts messages, which reach the engine's process list, and     *)
(* walks through the stored blocks: the directory block head, a directory  *)
(* block, its entry blocks, their entries and predecessors. Every read of  *)
(* a handler takes and leaves dbLock by itself, so the engine's writes     *)
(* fall between the reads of one request. The height of the last block is  *)
(* read without the lock.                                                  *)
(*                                                                         *)
(* Of the engine only what ends up in the blocks is modelled here, with    *)
(* the blocks' own bytes and hashes; which messages it accepts is the      *)
(* subject of Processor, and so are deaths in the middle of a build.       *)
(***************************************************************************)
EXTENDS BlockDB

CONSTANTS Chains,       \* chain ids
          Contents,     \* what entries say
          Payments,     \* factoid transactions: the credits each output buys
          LastMinute,   \* END_MINUTE_10
          MaxHeight,    \* bound: the last directory block built
          MaxSent,      \* bound: messages posted
          MaxBoots      \* bound: starts of the process

ASSUME WebAssumption ==
    /\ Chains \subseteq Seq(0 .. ByteMax) \ {<<>>}
    /\ \A c, d \in Chains : Len(c) = Len(d)
    /\ \A t \in Payments : t \in Seq(Words) /\ Len(t) \in Words
    /\ SizeBound > 3           \* the external ids of Entry fit in
    /\ LastMinute \in Nat \ {0}
    /\ {MaxHeight, MaxSent, MaxBoots} \subseteq Nat

VARIABLES
    \* the database
    db,                 \* the tables
    dbLock,             \* the engine holds the write lock
    lastDirBlkHeight,   \* the height cache, -1 after openDB
    \* the engine
    pc,                 \* where its goroutine is
    plist,              \* the messages of the block to come
    minute,             \* the end-of-minute message to come
    todo,               \* chains not yet visited by the loop of buildBlocks
    eNext,              \* chain -> open entry block, for the chains it knows
    ecNext, aNext, fNext, dNext,
    sealed,             \* the directory block that is being written
    \* the client
    request,            \* the request in work: what it has read so far
    answer,             \* the last answer, none while a request is in work
    \* bounds
    sent, boots

store  == <<db, dbLock, lastDirBlkHeight>>
open   == <<eNext, ecNext, aNext, fNext, dNext>>
engine == <<pc, plist, minute, todo, open, sealed>>
client == <<request, answer>>
vars   == <<store, engine, client, sent, boots>>

Height == dNext.height

-----------------------------------------------------------------------------
\* Messages

Entry(c, x) == [chain |-> c, ext |-> <<<<Num(x)>>, <<>>>>, content |-> <<Num(x)>>]

Reveal(e)   == [type |-> "reveal", body |-> MarshalEntry(e)]
Commit(x)   == [type |-> "commit", body |-> x]
Buy(t)      == [type |-> "buy", body |-> t]
EOM(m)      == [type |-> "eom", body |-> m]

\* A client buys credits, commits and reveals: a commit is accepted only if the
\* key has credits, and a reveal only after its commit.
Paid(t, c, x) == <<Buy(t), Commit(x), Reveal(Entry(c, x))>>

-----------------------------------------------------------------------------
\* Start: the open blocks are made from the stored ones

Placeholder == [chain |-> NewHash, keyMR |-> NewHash]
Placeholders == [i \in 1 .. 3 |-> Placeholder]

\* The timer of a block sets the time its period starts at.
Timestamp(h) == (h + 1) * LastMinute

initDChain(n) ==
    LET prev == FetchDBlockByHash(db, FetchDBHashByHeight(db, n - 1))
    IN  [CreateDBlock(n, IF n = 0 THEN NewHash ELSE BuildKeyMerkleRoot(prev),
                         IF n = 0 THEN NewHash ELSE DBlockHash(prev))
            EXCEPT !.timestamp = Timestamp(n), !.entries = Placeholders]

\* The server's index number is missing from the first block after a restart.
initECChain(n) ==
    IF n > 0 THEN NextECBlock(FetchECBlockByHeight(db, n - 1))
    ELSE [EmptyECBlock EXCEPT !.entries =
            [m \in 1 .. (LastMinute + 1) |->
                MarkerOf(IF m = 1 THEN "server" ELSE "minute", m - 1)]]

initAChain(n) ==
    CreateAdminBlock(n, IF n = 0 THEN NewHash
                        ELSE BuildFullHash(FetchABlockByHeight(db, n - 1)).full)

AddABEntry(b, e) == [b EXCEPT !.entries = Append(@, e)]

\* The header of the last stored directory block, read back by its height, is
\* signed; the signature goes into the open admin block.
SignDirectoryBlock(a, tables, n) ==
    LET last == FetchDBlockByHash(tables, FetchDBHashByHeight(tables, n - 1))
    IN  AddABEntry(a, ABEntry("sig", Sha("sig", DBlockHeader(last))))

\* The factoid state's current block: [its predecessor, its height].
initFctChain(n) ==
    <<IF n = 0 THEN NewHash ELSE FBlockHash(FetchFBlockByHeight(db, n - 1)), Num(n)>>

initEChainFromDB(c) ==
    LET blocks == FetchAllEBlocksByChain(db, c)
    IN  MakeEBlock(c, Len(blocks), IF blocks = <<>> THEN Nil ELSE Last(blocks))

NoRequest == [pc |-> "idle", key |-> Nil, from |-> "none", hash |-> Nil, block |-> Nil]
NoAnswer  == [kind |-> "none", key |-> Nil, from |-> "none", val |-> Nil, list |-> <<>>]

Init ==
    /\ db = NewDB /\ dbLock = FALSE /\ lastDirBlkHeight = -1
    /\ pc = "init" /\ plist = <<>> /\ minute = 1 /\ todo = {}
    /\ eNext = Empty /\ ecNext = EmptyECBlock /\ aNext = CreateAdminBlock(0, NewHash)
    /\ fNext = initFctChain(0) /\ dNext = CreateDBlock(0, NewHash, NewHash)
    /\ sealed = Nil /\ request = NoRequest /\ answer = NoAnswer
    /\ sent = 0 /\ boots = 1

\* Start_Processor; the web server is listening already. A new database gets
\* the genesis blocks.
Start ==
    /\ pc = "init"
    /\ LET n == Cardinality(FetchAllDBlocks(db)) IN
        /\ lastDirBlkHeight' = IF n = 0 THEN lastDirBlkHeight ELSE n - 1
        /\ dNext' = initDChain(n) /\ ecNext' = initECChain(n)
        /\ fNext' = initFctChain(n)
        /\ aNext' = IF n = 0 THEN initAChain(n) ELSE SignDirectoryBlock(initAChain(n), db, n)
        /\ eNext' = [c \in FetchAllChains(db) |-> initEChainFromDB(c)]
        /\ pc' = IF n = 0 THEN "ec" ELSE "serve"
    /\ UNCHANGED <<db, dbLock, plist, minute, todo, sealed, client, sent, boots>>

\* The process ends between two builds and starts again. A request in work is
\* cut off, and messages that are not in a block yet are lost.
Restart ==
    /\ pc = "serve" /\ boots < MaxBoots
    /\ boots' = boots + 1
    /\ pc' = "init" /\ lastDirBlkHeight' = -1
    /\ plist' = <<>> /\ minute' = 1
    /\ request' = NoRequest
    /\ UNCHANGED <<db, dbLock, todo, open, sealed, answer, sent>>

-----------------------------------------------------------------------------
\* Messages reach the process list

\* handleCommitEntry, handleCommitChain, handleRevealEntry, handleRevealChain,
\* handleFactoidSubmit: what can be decoded goes into inMsgQ. The engine takes it
\* from there between two builds and, unless it refuses it, adds it to the list.
Post(msgs) ==
    /\ pc = "serve" /\ sent < MaxSent /\ Height <= MaxHeight
    /\ \A i \in DOMAIN msgs : msgs[i].type = "reveal" => UnmarshalEntry(msgs[i].body) # Nil
    /\ plist' = plist \o msgs /\ sent' = sent + 1
    /\ UNCHANGED <<store, pc, minute, todo, open, sealed, client, boots>>

\* Faulty variant: the minute does not start again with a new block.
EndOfMinute_NoReset ==
    /\ pc = "serve" /\ Height <= MaxHeight
    /\ plist' = Append(plist, EOM(minute)) /\ minute' = minute + 1
    /\ pc' = IF minute >= LastMinute THEN "build" ELSE pc
    /\ UNCHANGED <<store, todo, open, sealed, client, sent, boots>>

\* The last minute starts buildBlocks.
EndOfMinute ==
    /\ pc = "serve" /\ Height <= MaxHeight
    /\ plist' = Append(plist, EOM(minute))
    /\ IF minute = LastMinute THEN pc' = "build" /\ minute' = 1
                              ELSE minute' = minute + 1 /\ UNCHANGED pc
    /\ UNCHANGED <<store, todo, open, sealed, client, sent, boots>>

-----------------------------------------------------------------------------
\* buildFromProcessList, one item at a time

AddEBEntry(b, hash) == [b EXCEPT !.entries = Append(@, hash)]
AddECEntry(b, e)    == [b EXCEPT !.entries = Append(@, e)]
AddECEntries(b, s)  == [b EXCEPT !.entries = @ \o s]

\* buildRevealEntry, and buildRevealChain for a chain without blocks.
buildReveal(e) ==
    LET c     == e.chain
        block == IF c \in DOMAIN eNext THEN eNext[c] ELSE initEChainFromDB(c)
        known == IF c \in DOMAIN eNext THEN db ELSE InsertChain(db, c, e)
    IN  /\ db' = InsertEntry(known, e)
        /\ eNext' = Put(eNext, c, AddEBEntry(block, EntryHash(e)))
        /\ UNCHANGED <<ecNext, aNext>>

buildCommit(x) ==
    /\ ecNext' = AddECEntry(ecNext, CommitOf(x))
    /\ UNCHANGED <<db, eNext, aNext>>

\* An object for every entry credit output of the transaction.
buildIncreaseBalance(t) ==
    /\ ecNext' = AddECEntries(ecNext, [i \in DOMAIN t |-> Increase("tx", i - 1, t[i])])
    /\ UNCHANGED <<db, eNext, aNext>>

\* A chain was touched in this minute if its last entry is not a marker.
Touched(b) == b.entries # <<>> /\ Last(b.entries)[1] # "minute"

buildEndOfMinute(m) ==
    /\ eNext' = [c \in DOMAIN eNext |->
                    IF Touched(eNext[c]) THEN AddEBEntry(eNext[c], MinuteMarker(m))
                                         ELSE eNext[c]]
    /\ ecNext' = AddECEntry(ecNext, MarkerOf("minute", m))
    /\ aNext' = IF aNext.entries # <<>> /\ Last(aNext.entries).type # "minute"
                THEN AddABEntry(aNext, ABEntry("minute", m)) ELSE aNext
    /\ UNCHANGED db

buildFromProcessList ==
    /\ pc = "build" /\ plist # <<>>
    /\ LET m == Head(plist) IN
        \/ m.type = "reveal" /\ buildReveal(UnmarshalEntry(m.body))
        \/ m.type = "commit" /\ buildCommit(m.body)
        \/ m.type = "buy"    /\ buildIncreaseBalance(m.body)
        \/ m.type = "eom"    /\ buildEndOfMinute(m.body)
    /\ plist' = Tail(plist)
    /\ pc' = IF Len(plist) = 1 THEN "ec" ELSE pc
    /\ UNCHANGED <<dbLock, lastDirBlkHeight, minute, todo, fNext, dNext, sealed,
                   client, sent, boots>>

-----------------------------------------------------------------------------
\* The blocks are sealed, stored and listed

DBEntry(chain, keyMR) == [chain |-> chain, keyMR |-> keyMR]

KeepInSealing == UNCHANGED <<dbLock, lastDirBlkHeight, plist, minute, sealed,
                             client, sent, boots>>

\* Faulty variant: the header is not built before the next block takes its hash.
newEntryCreditBlock_NoHeader ==
    /\ pc = "ec"
    /\ ecNext' = AddECEntry(NextECBlock(ecNext), MarkerOf("server", 0))
    /\ db' = ProcessECBlockBatch(db, ecNext)
    /\ dNext' = [dNext EXCEPT !.entries[2] =
            DBEntry(SystemChain("ec"), HeaderHash(BuildECBlockHeader(ecNext)))]
    /\ pc' = "admin"
    /\ UNCHANGED <<todo, eNext, aNext, fNext>>
    /\ KeepInSealing

newEntryCreditBlock ==
    /\ pc = "ec"
    /\ LET block == BuildECBlockHeader(ecNext) IN
        /\ ecNext' = AddECEntry(NextECBlock(block), MarkerOf("server", 0))
        /\ db' = ProcessECBlockBatch(db, block)
        /\ dNext' = [dNext EXCEPT !.entries[2] = DBEntry(SystemChain("ec"), HeaderHash(block))]
    /\ pc' = "admin"
    /\ UNCHANGED <<todo, eNext, aNext, fNext>>
    /\ KeepInSealing

\* MessageCount and BodySize, then both hashes, which are kept in the block.
SealAdminBlock(b) ==
    BuildFullHash(BuildPartialHash(
        [b EXCEPT !.count = Len(b.entries), !.size = 2 * Len(b.entries)]))

newAdminBlock ==
    /\ pc = "admin"
    /\ LET block == SealAdminBlock(aNext) IN
        /\ aNext' = CreateAdminBlock(block.height + 1, block.full)
        /\ db' = ProcessABlockBatch(db, block)
        /\ dNext' = [dNext EXCEPT !.entries[1] = DBEntry(SystemChain("admin"), block.partial)]
    /\ pc' = "fct"
    /\ UNCHANGED <<todo, eNext, ecNext, fNext>>
    /\ KeepInSealing

newFactoidBlock ==
    /\ pc = "fct"
    /\ fNext' = <<FBlockHash(fNext), Num(Height + 1)>>
    /\ db' = ProcessFBlockBatch(db, fNext)
    /\ dNext' = [dNext EXCEPT !.entries[3] = DBEntry(SystemChain("factoid"), FBlockHash(fNext))]
    /\ pc' = "entry" /\ todo' = DOMAIN eNext
    /\ UNCHANGED <<eNext, ecNext, aNext>>
    /\ KeepInSealing

\* Faulty variant: the block is stored but not listed.
AddEBlockToDBEntry_Forgotten(d, block) == d

AddEBlockToDBEntry(d, block) ==
    [d EXCEPT !.entries = Append(@, DBEntry(Chain(block.chain), EBlockKeyMR(block)))]

\* The chains in the order of their ids; a chain without new entries is passed.
newEntryBlock ==
    /\ pc = "entry"
    /\ \E c \in todo :
        /\ \A o \in todo \ {c} : KeyLess(c, o)
        /\ todo' = todo \ {c}
        /\ LET block == [eNext[c] EXCEPT !.height = Height] IN
            IF block.entries = <<>> THEN UNCHANGED <<db, dNext, eNext>>
            ELSE /\ eNext' = [eNext EXCEPT ![c] = MakeEBlock(c, block.seq + 1, block)]
                 /\ db' = ProcessEBlockBatch(db, block)
                 /\ dNext' = AddEBlockToDBEntry(dNext, block)
    /\ UNCHANGED <<pc, ecNext, aNext, fNext>>
    /\ KeepInSealing

\* Faulty variant: the merkle root is older than the last entry of the list.
SealDirectoryBlock_OldRoot(b) ==
    [b EXCEPT !.count = Len(b.entries),
              !.bodyMR = BuildBodyMR([b EXCEPT !.entries = Front(@)])]

SealDirectoryBlock(b) ==
    [b EXCEPT !.count = Len(b.entries), !.bodyMR = BuildBodyMR(b)]

\* newDirectoryBlock up to the point where ProcessDBlockBatch, with the lock,
\* has set the height cache and not yet written its batch.
newDirectoryBlock ==
    /\ pc = "entry" /\ todo = {}
    /\ LET block == SealDirectoryBlock(dNext) IN
        /\ sealed' = block
        /\ dNext' = [CreateDBlock(block.height + 1, BuildKeyMerkleRoot(block), DBlockHash(block))
                        EXCEPT !.timestamp = Timestamp(block.height + 1),
                               !.entries = Placeholders]
        /\ lastDirBlkHeight' = block.height
    /\ dbLock' = TRUE /\ pc' = "dir"
    /\ UNCHANGED <<db, plist, minute, todo, eNext, ecNext, aNext, fNext,
                   client, sent, boots>>

\* The batch is written, the lock released and the block signed.
WriteDirectoryBlock ==
    /\ pc = "dir"
    /\ db' = ProcessDBlockBatch(db, sealed)
    /\ aNext' = SignDirectoryBlock(aNext, db', Height)
    /\ dbLock' = FALSE /\ sealed' = Nil /\ pc' = "serve"
    /\ UNCHANGED <<lastDirBlkHeight, plist, minute, todo, eNext, ecNext, fNext,
                   dNext, client, sent, boots>>

-----------------------------------------------------------------------------
\* Requests

\* Faulty variant: reads do not wait for the lock.
MayRead_Always == TRUE

MayRead == ~dbLock

KeepInReads == UNCHANGED <<store, engine, sent, boots>>

Ask(where, key, from) ==
    /\ request.pc = "idle"
    /\ request' = [NoRequest EXCEPT !.pc = where, !.key = key, !.from = from]
    /\ answer' = NoAnswer
    /\ KeepInReads

Goto(where, hash) == request' = [request EXCEPT !.pc = where, !.hash = hash] /\ UNCHANGED answer

Reply(kind, key, val, list) ==
    /\ answer' = [kind |-> kind, key |-> key, from |-> request.from, val |-> val, list |-> list]
    /\ request' = NoRequest

NotFound == Reply("notfound", request.key, Nil, <<>>)

At(where) == request.pc = where /\ MayRead

\* The keys of the last answer: where they lead and what the answer was.
ListedEBlocks(b) == {b.entries[i].keyMR : i \in 4 .. Len(b.entries)}

DBlockKeys == CASE answer.kind = "head"   -> {answer.key}
                [] answer.kind = "dblock" -> {answer.val.prevKeyMR} \ {NewHash}
                [] OTHER                  -> {}
EBlockKeys == CASE answer.kind = "dblock"    -> ListedEBlocks(answer.val)
                [] answer.kind = "eblock"    -> {answer.val.prevKeyMR} \ {NewHash}
                [] answer.kind = "chainhead" -> {answer.key}
                [] OTHER                     -> {}
EntryKeys  == IF answer.kind = "eblock"
              THEN {answer.list[i].hash : i \in DOMAIN answer.list} ELSE {}
RawKeys    == CASE answer.kind = "head"   -> {answer.key}
                [] answer.kind = "dblock" -> {answer.val.entries[i].keyMR :
                                                i \in DOMAIN answer.val.entries}
                [] answer.kind = "eblock" -> EntryKeys
                [] OTHER                  -> {}

\* DBlockHead: the height comes from the cache, without the lock. A handler
\* answers with the KeyMR, another one with the height.
DBlockHead == Ask("num", lastDirBlkHeight, "none")

\* FetchDBlockByHeight; uint32(-1) is the height of no block.
ReadDBHashByHeight ==
    /\ At("num")
    /\ LET hash == FetchDBHashByHeight(db, request.key) IN
        IF hash = Nil THEN NotFound ELSE Goto("headblock", hash)
    /\ KeepInReads

ReadHeadBlock ==
    /\ At("headblock")
    /\ LET b == FetchDBlockByHash(db, request.hash) IN
        IF b = Nil THEN NotFound ELSE Reply("head", BuildKeyMerkleRoot(b), b.height, <<>>)
    /\ KeepInReads

\* handleDirectoryBlock: FetchDBlockByMR in two reads.
handleDirectoryBlock == \E k \in DBlockKeys : Ask("mr", k, "none")

ReadDBHashByMR ==
    /\ At("mr")
    /\ LET hash == FetchDBHashByMR(db, request.key) IN
        IF hash = Nil THEN NotFound ELSE Goto("dblock", hash)
    /\ KeepInReads

ReadDBlock ==
    /\ At("dblock")
    /\ LET b == FetchDBlockByHash(db, request.hash) IN
        IF b = Nil THEN NotFound ELSE Reply("dblock", request.key, b, <<>>)
    /\ KeepInReads

\* handleEntryBlock: the block by its KeyMR in two reads, then the directory
\* block of its height, in two more, for the time.
handleEntryBlock ==
    \E k \in EBlockKeys :
        Ask("ebmr", k, IF answer.kind = "chainhead" THEN "chainhead" ELSE "none")

ReadEBHashByMR ==
    /\ At("ebmr")
    /\ LET hash == FetchEBHashByMR(db, request.key) IN
        IF hash = Nil THEN NotFound ELSE Goto("eblock", hash)
    /\ KeepInReads

ReadEBlock ==
    /\ At("eblock")
    /\ LET b == FetchEBlockByHash(db, request.hash) IN
        IF b = Nil THEN NotFound
        ELSE /\ request' = [request EXCEPT !.pc = "ebnum", !.block = b]
             /\ UNCHANGED answer
    /\ KeepInReads

\* Faulty variant: the entries of a minute are listed again with the next one.
TimeEntry_NoReset(st, v, time) ==
    IF v[1] = "minute"
    THEN [st EXCEPT !.list = @ \o [i \in DOMAIN st.stack |->
                                    [hash |-> st.stack[i], time |-> time + v[2]]]]
    ELSE [st EXCEPT !.stack = Append(@, v)]

\* One round of the loop: a marker gives its minute to the entries before it.
TimeEntry(st, v, time) ==
    IF v[1] = "minute"
    THEN [stack |-> <<>>, list |-> st.list \o [i \in DOMAIN st.stack |->
                                    [hash |-> st.stack[i], time |-> time + v[2]]]]
    ELSE [st EXCEPT !.stack = Append(@, v)]

\* Entries without a marker behind them are left out.
TimedEntries(entries, time) ==
    LET st[n \in 0 .. Len(entries)] ==
            IF n = 0 THEN [stack |-> <<>>, list |-> <<>>]
            ELSE TimeEntry(st[n - 1], entries[n], time)
    IN  st[Len(entries)].list

ReplyEBlock(time) ==
    Reply("eblock", request.key, request.block, TimedEntries(request.block.entries, time))

\* Without the directory block the time is 0.
ReadDBHashForTime ==
    /\ At("ebnum")
    /\ LET hash == FetchDBHashByHeight(db, request.block.height) IN
        IF hash = Nil THEN ReplyEBlock(0) ELSE Goto("ebtime", hash)
    /\ KeepInReads

ReadDBlockForTime ==
    /\ At("ebtime")
    /\ ReplyEBlock(FetchDBlockByHash(db, request.hash).timestamp)
    /\ KeepInReads

\* Handlers of a single read.
OneRead(kind, key, val) ==
    /\ request.pc = "idle" /\ MayRead
    /\ answer' = [kind |-> IF val = Nil THEN "notfound" ELSE kind, key |-> key,
                  from |-> "none", val |-> val, list |-> <<>>]
    /\ UNCHANGED request
    /\ KeepInReads

handleEntry == \E k \in EntryKeys : OneRead("entry", k, FetchEntryByHash(db, k))

handleChainHead ==
    \E c \in Chains : LET mr == FetchHeadMRByChainID(db, Chain(c))
                      IN  mr # Nil /\ OneRead("chainhead", mr, mr)

\* handleGetRaw: the first table that knows the key, in this order. The rows of
\* a block are written at once, so a key that is known is in all its tables.
RawBlock(k) ==
    LET fetched == <<<<"fblock", FetchFBlockByHash(db, k)>>,
                     <<"dblock", FetchDBlockByHash(db, k)>>,
                     <<"ablock", FetchABlockByHash(db, k)>>,
                     <<"dblock", FetchDBlockByHash(db, FetchDBHashByMR(db, k))>>,
                     <<"eblock", FetchEBlockByHash(db, k)>>,
                     <<"eblock", FetchEBlockByHash(db, FetchEBHashByMR(db, k))>>,
                     <<"ecblock", FetchECBlockByHash(db, k)>>,
                     <<"entry", FetchEntryByHash(db, k)>>>>
        found == {i \in DOMAIN fetched : fetched[i][2] # Nil}
    IN  IF found = {} THEN Nil
        ELSE fetched[CHOOSE i \in found : \A j \in found : i <= j]

handleGetRaw == \E k \in RawKeys : OneRead("raw", k, RawBlock(k))

Requests ==
    \/ DBlockHead \/ handleDirectoryBlock \/ handleEntryBlock
    \/ handleEntry \/ handleChainHead \/ handleGetRaw

Reads ==
    \/ ReadDBHashByHeight \/ ReadHeadBlock \/ ReadDBHashByMR \/ ReadDBlock
    \/ ReadEBHashByMR \/ ReadEBlock \/ ReadDBHashForTime \/ ReadDBlockForTime

Build ==
    \/ buildFromProcessList \/ newEntryCreditBlock \/ newAdminBlock
    \/ newFactoidBlock \/ newEntryBlock \/ newDirectoryBlock \/ WriteDirectoryBlock

Next ==
    \/ Start \/ Restart \/ EndOfMinute \/ Build
    \/ \E t \in Payments, c \in Chains, x \in Contents : Post(Paid(t, c, x))
    \/ Requests \/ Reads

Spec == Init /\ [][Next]_vars

-----------------------------------------------------------------------------
\* What is checked

DBlocks == FetchAllDBlocks(db)
EBlocks == {UnmarshalEBlock(row) : row \in Rows(db.EB)}

\* Types, and what the open blocks owe to the stored ones: the directory block
\* that is built (processor.go) is the one above all stored ones, the minute is
\* one of the block's minutes, and the cached height is that of the last block,
\* or of the block whose batch is being written (ldb/dblock.go).
TypeOK ==
    /\ pc \in {"init", "serve", "build", "ec", "admin", "fct", "entry", "dir"}
    /\ dbLock = (pc = "dir") /\ (sealed # Nil) = (pc = "dir")
    /\ minute \in 1 .. LastMinute
    /\ todo \subseteq DOMAIN eNext /\ DOMAIN eNext \subseteq Chains
    /\ pc # "init" => Height = Cardinality(DBlocks) + IF pc = "dir" THEN 1 ELSE 0
    /\ lastDirBlkHeight \in {-1, Height - 1}

\* A client that was told of a key or a height gets what it stands for: no
\* handler of wsapi answers "not found" because the engine was between two
\* writes. Only the head of a database whose height is not known yet is missing.
RequestsAreAnswered == answer.kind = "notfound" => answer.key = -1

\* The block or entry v of this kind has the hash k.
HasKey(kind, v, k) ==
    CASE kind = "fblock"  -> k = FBlockHash(v)
      [] kind = "dblock"  -> k \in {DBlockHash(v), BuildKeyMerkleRoot(v)}
                             /\ v.bodyMR = BuildBodyMR(v) /\ v.count = Len(v.entries)
      [] kind = "ablock"  -> k = Sha("ablock", MarshalABlock(v))
      [] kind = "eblock"  -> k \in {EBlockHash(v), EBlockKeyMR(v)} /\ v = BuildEBlockHeader(v)
      [] kind = "ecblock" -> k = HeaderHash(v) /\ v = BuildECBlockHeader(v)
      [] kind = "entry"   -> k = EntryHash(v)

\* What a handler of wsapi has in its hands for a key, after it was encoded,
\* stored, fetched and decoded, has that key when its hash is computed again,
\* before the handler puts some of its fields into the answer.
AnswersMatchTheirKey ==
    /\ answer.kind \in {"dblock", "eblock", "entry"} => HasKey(answer.kind, answer.val, answer.key)
    /\ answer.kind = "raw" => HasKey(answer.val[1], answer.val[2], answer.key)

\* Every stored block can be walked through: the predecessor it names, by either
\* of its two hashes, is stored with the number before its own, and so is
\* whatever a directory block lists (the New*Block functions of processor.go).
LinksNameStoredBlocks ==
    /\ \A b \in DBlocks :
        LET prev == FetchDBlockByHash(db, b.prevLedgerKeyMR) IN
        /\ IF b.height = 0 THEN prev = Nil
           ELSE prev # Nil /\ prev.height = b.height - 1 /\ BuildKeyMerkleRoot(prev) = b.prevKeyMR
        /\ b.entries[1].keyMR = Get(db.AB_NUM, b.height) /\ b.entries[1].keyMR \in DOMAIN db.AB
        /\ b.entries[2].keyMR = Get(db.CB_NUM, b.height) /\ b.entries[2].keyMR \in DOMAIN db.CB
        /\ b.entries[3].keyMR = Get(db.SC_NUM, b.height) /\ b.entries[3].keyMR \in DOMAIN db.SC
        /\ \A k \in ListedEBlocks(b) : FetchEBlockByHash(db, FetchEBHashByMR(db, k)) # Nil
    /\ \A b \in EBlocks :
        LET prev == FetchEBlockByHash(db, b.prevLedgerKeyMR) IN
        IF b.seq = 0 THEN prev = Nil
        ELSE prev # Nil /\ prev.seq = b.seq - 1 /\ EBlockKeyMR(prev) = b.prevKeyMR
    /\ \A b \in FetchAllECBlocks(db) :
        LET prev == FetchECBlockByHash(db, b.prevHeaderHash) IN
        IF b.height = 0 THEN prev = Nil
        ELSE prev # Nil /\ prev.height = b.height - 1 /\ ECBlockHash(prev) = b.prevLedgerKeyMR
    /\ \A b \in FetchAllABlocks(db) :
        b.height > 0 => LET prev == FetchABlockByHeight(db, b.height - 1)
                        IN  prev # Nil /\ BuildFullHash(prev).full = b.prevLedgerKeyMR

\* An entry block that was found through a directory block lists each of its
\* entries once, in order, with the time of the minute marker behind it
\* (handleEntryBlock); none is left out.
EntriesAreTimed ==
    (answer.kind = "eblock" /\ answer.from # "chainhead") =>
        LET b == answer.val
            entries   == {i \in DOMAIN b.entries : b.entries[i][1] # "minute"}
            place(i)  == Cardinality({j \in entries : j <= i})
            marker(i) == CHOOSE j \in (i + 1) .. Len(b.entries) :
                            /\ b.entries[j][1] = "minute"
                            /\ \A k \in (i + 1) .. (j - 1) : b.entries[k][1] # "minute"
        IN  /\ Last(b.entries)[1] = "minute"
            /\ Len(answer.list) = Cardinality(entries)
            /\ \A i \in entries : answer.list[place(i)] =
                    [hash |-> b.entries[i],
                     time |-> Timestamp(b.height) + b.entries[marker(i)][2]]

BlocksOfChain(c) == {b \in EBlocks : b.chain = c}

\* The range scan that the engine opens a chain with finds all entry blocks of
\* the chain, in order, and none of another one, for chain ids that do not end in
\* the largest byte (FetchAllEBlocksByChain).
ScansFindTheirChain ==
    \A c \in Chains : Last(c) # ByteMax =>
        LET found == FetchAllEBlocksByChain(db, c)
        IN  ToSet(found) = BlocksOfChain(c) /\ \A i \in DOMAIN found : found[i].seq = i - 1

\* "FetchAllEBlocksByChain gets all of the blocks by chain id" (ldb/eblock.go),
\* whatever the chain id.
AllBlocksByChain ==
    \A c \in Chains : ToSet(FetchAllEBlocksByChain(db, c)) = BlocksOfChain(c)

\* What does not depend on the client need not be evaluated for each of its states.
NoClient == request.pc = "idle" /\ answer.kind = "none"

\* Whatever amount was bought, and with whichever output, the entry credit block
\* that is about to be stored is read back as it was: the two variable integers of
\* the purchase (varint.go) end where the next object of the block starts, for
\* words with the high bit too.
PurchasesReadBack ==
    (pc = "ec" /\ NoClient) => \A i, v \in Words :
        LET b == [ecNext EXCEPT !.entries = <<Increase("tx", i, v)>> \o @]
        IN  UnmarshalECBlock(MarshalECBlock(b)) = BuildECBlockHeader(b)

\* Sequences of the same hashes and markers, of other lengths and orders.
OtherBodies(s) == (UNION {[1 .. n -> ToSet(s)] : n \in 1 .. (Len(s) + 1)}) \ {s}

\* The KeyMR under which an entry block is stored belongs to its entries alone,
\* although merkle roots of different lists may agree because the last hash of a
\* level is used twice (merkle.go, eblock.go).
KeyMRCommits ==
    (pc = "entry" /\ NoClient) => \A c \in todo :
        eNext[c].entries # <<>> => \A s \in OtherBodies(eNext[c].entries) :
            EBlockKeyMR([eNext[c] EXCEPT !.entries = s]) # EBlockKeyMR(eNext[c])

Listed(e) ==
    /\ EntryHash(e) \in DOMAIN db.ENTRY
    /\ \E d \in DBlocks : \E k \in ListedEBlocks(d) :
        LET b == FetchEBlockByHash(db, FetchEBHashByMR(db, k))
        IN  b # Nil /\ \E i \in DOMAIN b.entries : b.entries[i] = EntryHash(e)

\* When the engine is between two blocks, every stored entry can be reached from
\* a directory block: buildBlocks wrote the entry before its entry block, and the
\* entry block before the directory block that lists it (processor.go).
StoredEntriesAreListed ==
    pc \in {"init", "serve"} => \A row \in Rows(db.ENTRY) : Listed(UnmarshalEntry(row))

=============================================================================
