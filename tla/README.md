# Formal model of factomd (FactomCode)

TLA+ specifications of the factomd node in this repository, the TLC
configurations that check them on small instances, and TLAPS proofs of their
most important properties for every instance. Paths below are relative to the
repository's source (`src/` in `PROJECT.json`).

    tlc -config MCProcessorServe.cfg MCProcessor      one model-checking run
    tlapm ProcessorProofs.tla                         the proofs of one module

## 1. The system

factomd keeps five kinds of block chain: entry chains (user data), the entry
credit chain (who paid), the admin chain (server signatures), the factoid chain
(the currency, from which credits are bought) and the directory chain, whose
block of every ten-minute period lists the blocks of the other chains. There is
one *server* node, which builds the blocks, and *client* nodes, which download
them. A hash of every directory block is written into a bitcoin transaction.

| part | code | state | operations |
|---|---|---|---|
| server engine: handlers | `process/processor.go` 180-804, `process/mempool.go` | `eCreditMap`, `commitEntryMap`, `commitChainMap`, `chainIDMap`, orphan pool, `FactoshisPerCredit` | commit entry, commit chain, reveal, buy credits, end of minute |
| server engine: block building | `process/processor.go` 806-1254 | open block of every chain, next heights | build each list item, seal and store the five kinds of block |
| start from the database | `process/init.go`, `initProcessor` | all of the above, from the database | `init...Chain`, `validateDChain`, `initializeECreditMap` |
| process list | `consensus/` | `MyProcessList` | append, size limit |
| block timer | `process/timer.go` | minute of the period | sends the ten end-of-minute messages |
| replay filter | `process/replay.go`, `CommitEntry.InTime` | 24 buckets of hashes, `lasttime` | `IsTSValid` |
| block database | `database/ldb/` | LevelDB tables, one shared write batch, block height cache | `Process...Batch`, `Fetch...`, `Insert...` |
| block types | `common/*block.go`, `common/*chain.go` | headers and bodies | add an entry, seal, next block |
| client synchronisation | `process/syncup.go` | `blockpool`, `dchain.Blocks` | collect, validate, store, delete |
| anchoring | `anchor/` | unspent outputs, `dirBlockInfoMap` | anchor, confirmation callbacks, re-anchor |
| encodings, Merkle trees | `common/`, `util/` | none | marshal, `BuildMerkleTreeStore`, `EntryCost` |
| web API | `wsapi/`, `factomapi/` | none | post messages; fetch heads, blocks, entries, one read at a time |
| keys, factoid state, wallet | `common/key.go`, `factoid/`, `wallet/` | in libraries | sign, verify, transactions |
| control panel, log, configuration, wiring, tools | `controlpanel/`, `factomlog/`, `util/`, `factomd/`, `process/util.go` | none that matters to the blocks | status pages, exports |

**How the parts interact.** Peers and the web API put messages into `inMsgQ`,
the timer into `inCtlMsgQueue`. One goroutine of the engine takes one message at
a time and serves it to its end, so handlers do not interleave. What makes the
engine hard is what happens over many handlers: a commit is charged in one, used
up by a reveal in another, written into a block in a third, and read back from
the database by a process started later. The timer's tenth message starts
`buildBlocks`, which writes to the database once per entry, chain and block.
Nothing ties these writes together, so a process that dies between two of them
leaves a database the next one must cope with. On a client the engine's
goroutine and `validateAndStoreBlocks` share the block pool and `dchain.Blocks`.
The anchor runs in one goroutine per new directory block, in a ticker and in
callbacks of the bitcoin client, without a lock between them. The web server's
goroutines read the database while the engine writes it; a read or a batch holds
the database's lock, a request of several reads does not.

**What correctness means, part by part.**

* *Ledger*: nobody overdraws; the balances of a node are those its stored
  blocks give; an entry is in a block only if a charged commit paid for it, and
  a commit pays once; a chain is created by a reveal that paid the chain fee.
* *Blocks*: a directory block lists stored blocks, of its own height; nothing is
  stored that no directory lists; every entry has its minute marker; a chain
  opens with its first entry and its sequence numbers have no gap.
* *Start*: on any database the program itself can leave, a node starts, and
  continues every chain where it ended.
* *Replay filter*: no message is served twice, no honest one is locked out, and
  memory is bounded.
* *Orphans*: what can be served at the end of a period is.
* *Client*: it stores a directory block only with everything it lists, and ends
  up with the server's chain.
* *Anchor*: every directory block is anchored in the end; an anchor record names
  a mined transaction that carries this block, once.
* *Encodings*: what is stored is read back as it was, and a key belongs to one
  content only.
* *Web API*: a key a client was told of is answered, with what it stands for, and
  the client can walk from the head to every entry.

The hazards behind these (`hazards` in `PROJECT.json`) name the line at which
each one bites and the properties that watch it.

## 2. Modules

| module | models | kind |
|---|---|---|
| `Processor` | server engine, process list, timer, database, start after a crash | specification |
| `MCProcessor` | a small instance | model checking |
| `ProcessorProofs` | types, ledger, the directory, the minutes, every stored block is listed | proofs |
| `ChainProofs` | entry chains, no panic at a start; over `ProcessorProofs` | proofs |
| `AccountProofs` | the ledger added up from the stored blocks, entries against commits; over `ChainProofs` | proofs |
| `ReplayFilter` | `IsTSValid_`, `InTime`, clock, restarts | specification |
| `MCReplayFilter` | a small instance with timestamps at the window's edges | model checking |
| `ReplayFilterProofs` | types, fresh commits pass, served once, buckets, lock-out | proofs |
| `Mirror` | what a client promises: a complete prefix of the server's directory | abstract specification |
| `SyncUp` | client: receiving goroutine, `validateAndStoreBlocks`, restart | specification, implements `Mirror` |
| `MCSyncUp` | a server of three heights with a shared entry | model checking |
| `SyncUpProofs` | types, the refinement of `Mirror`, the pool, blocks applied once, the start | proofs |
| `AnchorChain` | what the anchor promises: a log of mined transactions | abstract specification |
| `Anchor` | senders, ticker, callbacks, wallet failures, bitcoin, restart | specification, implements `AnchorChain` |
| `MCAnchor` | a coin that pays for two anchors | model checking |
| `AnchorProofs` | types, the refinement of `AnchorChain`, tracking, clean runs | proofs |
| `Encoding` | binary forms, hashes, Merkle roots, variable integers | operators |
| `BlockDB` | tables, batches, fetches, range scan | operators over `Encoding` |
| `WebAPI` | web server and engine on one database | specification over `BlockDB` |
| `MCWebAPI` | two chains with neighbouring ids, a payment with two purchases, one whose integer has inner zeros | model checking |
| `EncodingProofs` | what is encoded is decoded, merkle roots; about the operators of `Encoding` | proofs |
| `WebProofs` | types, the ledgers' links, the chains' scan, the way from the head to an entry, requests and their answers; over `EncodingProofs` | proofs |

### Processor

Variables have the names of the code's (`eCreditMap`, `chainIDMap`, ...); the
second group is the database. A handler is one action with the handler's name.
`processRevealEntry` is a disjunction over its six outcomes, whose guards
(`AcceptsEntry`, `Orphaned`, `UnpaidChain`, ...) are the paths through its
conditions, and `processFromOrphanPool` uses the same outcomes. The tenth end of
minute is cut at its database writes by `pc`:

    serve -> orphans -> build (<-> first) -> admin -> fct -> entry -> serve
             the pool   items, EC block      A      F      E blocks, D block

`initProcessor` replaces the process at any point in `CrashAt`: memory is lost,
the database is not. It computes what the `init...Chain` functions compute: the
balances from all stored entry credit blocks, the predecessor of the open entry
credit block by its index in the sorted list (`IsECBlockAt`), the open entry
blocks from the blocks of each stored chain. It checks what `validateDChain`
checks, down to the entries of the listed entry blocks (`EntriesStored`). Where
the code panics, `pc` becomes `"panic"`, from which the next start is tried
again, as an operator would.

What is abstracted: a block is its content, so equality of blocks stands for
equality of their hashes, and `BodyMR` and the links which `validateDChain` also
compares agree by construction (`WebAPI` has the bytes and the links
themselves); entries, commits and transactions are model values whose fields are
CONSTANT functions (`ChainOf`, `Cost`, `CommitMsg`, `ECOutputs`); signatures are
valid; the factoid library accepts or refuses a transaction freely. Balances are
integers, where the code has `int32`. Messages of the process list also carry
the balances after them (`bal`) and the commit they used (`by`), which no action
reads: they exist for the properties. So do `dbCredit`, `ecCredit` (what a
replay of the stored blocks, and of these followed by the open one, gives) and
`ecLost` (below). That `dbCredit` is such a replay is not taken for granted:
`ReplayGivesBalances` adds up the blocks themselves and compares.

`ecLost`: a block's key is its hash, so storing a block that is identical to a
stored one leaves one copy. After a crash behind `newEntryCreditBlock` the next
process can build exactly the same entry credit block, with no commit or
purchase in it, or with the same ones delivered again. Then entries accepted
twice are recorded once, and with three processes TLC finds an entry used twice
for one recorded charge. `ReplayGivesBalances` and the counting half of
`EntriesArePaidFor` are therefore stated for databases where this has not
happened; `NoBlockIsLost` proves that it does not as long as no process dies
while it writes blocks.

### ReplayFilter

`buckets` and `lasttime` as in the code, with the shifting loop as one function
of the hour (`Shifted`). `IsTSValid` is one action and `InTime`, which reads the
clock again, is part of the next (`Serve`), so time can pass between the two.
`Tick`, `SetBack` and `Restart` are the environment's. `passed` and `served`
count, for the properties. `Processor` uses the filter's contract in place of
its buckets (`seen`), for messages whose timestamps stay in the window.

### SyncUp and Mirror

The server's chain is a constant: which entry blocks a directory block lists
(`Listed`), what is in them (`Body`, with `None` for an end-of-minute marker),
which of them opens a chain (`SeqOf`). A message and a database record are named
by kind and content, as the code keys them by hash. `blockpool`, `dchainBlocks`
and `lastDirBlkHeight` have the code's names; `pc`, `pos` and `sub` are where the
goroutine is: which half of its loop, which `DBEntry`, which entry of that block.

The engine's goroutine is `Receive`. A directory block enters `dchain.Blocks`
without a lock (`processDirBlock`) and the pool in a second step
(`addDirBlockMsg`), so the other goroutine may see it in between. The check of
the pool holds the lock and is one step (`validateBlocks`); each write of
`storeBlocksFromMemPool` is a step, because the process may die between two;
`deleteBlocksFromMemPool` locks anew for each message, so each deletion is one.
`storeBlocksFromMemPool` holds the read lock to its end, which is the guard
`pc # "store"` of `addBlockMsg`.

Not every message arrives, and any may arrive again (`Due` bounds only how far
ahead and how many late ones). Peers are honest: a message is what its key says,
the genesis hash and the signatures of directory blocks are right. `applied`
counts, for the properties, how often a block was applied to the balances in
memory, by `initializeECreditMap` and `AddTransactionBlock`.

`Mirror` knows only what a reader finds below each stored directory block. The
refinement mapping is the definition `mirror` of `SyncUp`: the stored part of
`Content[h]` for every `h` whose directory block is stored. A `Copy` of `Mirror`
is the one step `storeDirBlock`, and every other step of the client, the restart
included, leaves the mirror alone.

### Anchor and AnchorChain

The process has one sender per directory block and the ticker's. A sender is cut
wherever another goroutine can get between two of its statements: the look at
the map and at `balances` (`sanityCheck`), emptying the list (`updateUTXO`),
each answer of the wallet (`ListUnspent`, `DecodeAddress`, `DumpPrivKey`), the
second look at `balances` (`LookAgain`), reading and shortening the list
(`TakeBalance`, `DropBalance`), sending, and writing the hash into the info.
Each call to the outside can fail; of these, `sanityCheck` ignores the errors of
`updateUTXO`, as the code does, and a failed `NotifySpent` is only logged: the
transaction goes out, but its confirmation brings no callback. A confirmation
callback matches, writes to the database, deletes from the map and submits the
record in three steps. Where the code indexes an empty list or uses a nil key,
`proc` becomes `"panic"`.

Bitcoin is external: it accepts a transaction whose input is free, and mines it,
drops it or mines it under another hash. An output is a coin and what is left of
it, since a transaction pays the rest back to the same address. `clean` is
history: it is false once two senders overlapped or the wallet failed half-way,
which is when the code can panic. `InsertDirBlockInfo` leaves the table as it is:
the batch it writes is empty (`database/ldb/dblock.go:258`).

`AnchorChain` is a log and the set of mined transactions; a step mines one or
records a mined one for the block it carries, not twice. The mapping takes
`records` for the log.

### Encoding, BlockDB and WebAPI

A byte string is a sequence of fields. What decides how it is read back is kept
(counts, sizes, type bytes, variable integers in words of `ChunkBits * Chunks +
1` bits, where the code has 7 * 9 + 1; the sizes of external ids, written as
unsigned and read as signed numbers below and above `SizeBound`, the code's
2^15); what has a fixed width is one field. A hash is what was hashed, so
equality of hashes is equality of contents, and every block is stored and
fetched through its encoding. A nil pointer and a missing row are the one value
without a field, the empty sequence. Where the code caches a hash or a header
until somebody rebuilds it (`HeaderHash`, `BuildPartialHash`), so does the
model.

`BlockDB` has the tables of `database/ldb` and its functions under their names.
Chain ids are byte sequences because `FetchAllEBlocksByChain` depends on their
order.

`WebAPI` runs the engine and one client. The engine's part has the same functions
as `Processor`, with the bytes and links of the blocks in place of the ledger and
of deaths inside `buildBlocks`: the two models are two views of this code, and
neither repeats the other's question. The client asks for what it was told of, one
request at a time, and each database read of a request is a step of its own.
`ProcessDBlockBatch` is two steps, since the height cache, which is read without
the lock, is set before the batch is written.

## 3. Runs

| run | instance | checks | result |
|---|---|---|---|
| `serve` | 2 keys, 2 chains, 3 entries, 3 commits, 1 purchase, 2 rates, 2 processes that die outside the writes of blocks | `TypeOK`, `NoOverdraft`, `StoredBlocksAreListed`, `BlockAccountsForBalances`, `ChainsOpenWithTheirFirstEntry`, `StartupNeverPanics` | holds, 0.6 M states |
| `minutes` | the same, 1 process, 2 minutes, fair | `EntriesKeepTheirMinute`, `OrphansAreServed` | holds, 0.4 M states |
| `crash` | 2 processes, dying between any two writes | `DirectoryListsStoredBlocks`, `ReplayGivesBalances`, `EntriesArePaidFor` | holds, 0.6 M states |
| `startup_panics` | 3 processes, dying while blocks are stored | `StartupNeverPanics` | violated |
| `ghost_chain` | a chain commit that does not pay the fee | `ChainCreationIsPaid` | violated |
| `sync` | 3 processes, dying between any two writes, fair, 3 heights, a late duplicate, a pool for 6 | `TypeOK`, `PoolKeepsWhatWasChecked`, `BlocksAppliedOnce`, `StartupNeverPanics`, `MirrorsServer`, `CompleteIsStored` | holds, 0.3 M states |
| `replay_clock` | a restart and a clock set back | `TypeOK`, `FreshPasses`, `ServedOnceByProcess`, `BucketsAligned`, `LockedOutOnlyWhenStale` | holds, 9 M states |
| `anchor` | 2 blocks, 1 coin, 1 sender at a time, 1 fault, 2 processes, fair | `TypeOK`, `SequentialNeverPanics`, `AnchoredInTheEnd` | holds, 69 k states |
| `anchor_race` | 2 blocks, 1 coin, 2 senders at a time, 1 fault | `TrackedUntilConfirmed`, `RecordsFormAnchorChain` | holds, 3.4 M states |
| `anchor_restart` | 2 processes | `UnconfirmedAreLoaded` | violated |
| `web` | 3 heights, 2 chains with neighbouring ids, 2 posts, 2 minutes, 2 processes | `TypeOK`, `RequestsAreAnswered`, `AnswersMatchTheirKey`, `LinksNameStoredBlocks`, `EntriesAreTimed`, `ScansFindTheirChain`, `StoredEntriesAreListed`, `PurchasesReadBack`, `KeyMRCommits` | holds, 86 k states |
| `chain_scan` | a chain id that ends in the largest byte | `AllBlocksByChain` | violated |

**The violated ones** are `findings` in `PROJECT.json`. In short: a crash while
blocks are stored makes the next process build the height again, and the one
after that panics for good (`process/init.go:142`); a refused chain reveal leaves
its chain known, and entries go into it without the chain fee
(`process/processor.go:585`); the infos of blocks that wait for their anchor are
never written, so a restart forgets them (`database/ldb/dblock.go:258`); the scan
over the entry blocks of a chain is empty for chain ids that end in 0xFF
(`database/ldb/eblock.go:331`), and such a chain starts again at sequence number
0 after a restart.

**Known consequences stated as properties that hold.** Three more weaknesses of
the code are written into the premises of properties, which therefore hold:

* a crash behind the entry credit block makes a later start take the wrong
  predecessor (`process/init.go:110`), the same cause as `startup_panics`; hence
  the runs that look at chains let the process die between two builds;
* the replay filter forgets at a restart (`process/replay.go:17`) and serves again
  after the clock went back; `ServedOnceByProcess` speaks of one process whose
  clock only advances;
* a client that dies between a factoid or entry credit block and its directory
  block counts it twice (`process/syncup.go:326`); `BlocksAppliedOnce` says that no
  block is counted twice in a first process and that after a death it is one
  height at most.

`SequentialNeverPanics` says what is left of the anchor's safety:
with two senders at a time (`anchor/anchor.go:93`), after a key that could not be
read (`:505`), or after a start without outputs (`:558`), the code panics.
These panics, a wrong predecessor, and the chain that a death between `InsertChain`
and its first entry leaves behind (`process/processor.go:860`; after it the chain
opens with whatever entry comes) are steps or states of the models which no property
rules out; `hazards` lists them without one.

`AnchoredInTheEnd` needs a ticker: when bitcoin cannot be reached at the start,
`InitAnchor` returns before it makes one, and the reconnection inside the ticker's
loop is never reached.

**Bounds, and why they are enough.** `MaxHeight` 3 means two periods after the
genesis block: what one period stores is continued, listed and replayed in the
next. Two chains and two keys show mixing; one chain has a second entry, so that
a chain is created and extended in one period or in two. `cc3` pays too little,
so refusals and orphans occur; `MAX_ORPHAN_SIZE` 1 makes the pool fill up.
`Rates` 1 and 2 with payments of 7 and 2 make the integer division of a purchase
matter. `LastMinute` 2, in `minutes`, distinguishes entries before and after an
ordinary end of minute. Two processes are one crash; three are needed, and used,
where a fault appears at the second start after a crash. For the filter an hour
is two clock units and the window four buckets, and the timestamps enter and
leave the window while the clock runs. The client's server has a height without
entry blocks, one that opens a chain and one that continues it and repeats an
entry, which is the case in which the pool alone does not tell whether a height
is complete. Three processes are two crashes, so that a height stored partly is
stored partly again. The anchor's coin pays for two transactions, so the second
block needs the output the first one returns, and a block sent again takes it
away from the next; one fault is enough for each kind of failure to meet each
point of a sender. In `web` a post is a payment with two outputs, a commit and a
reveal, in this order. A word has three bits, the high one in a byte of its own;
the amounts 5 and 1 have a zero inside and in front. `SizeBound` 4 is the least
that leaves room for an id with a byte and an empty one. A byte has four values,
and the ids of the two chains, 00 and 01, follow each other, so that a range
which ends too late runs into the other chain's blocks. Three heights let a
chain have a block, a pause and a block with a restart anywhere between. No
symmetry is used: the keys, chains and entries play different roles.

Deadlock checking is on in the runs of `Processor`, `SyncUp` and `ReplayFilter`. In
`Anchor` and `WebAPI` it is off: once the bounded number of blocks is anchored, or
built and read, nothing is left to do. In the filter a delivery is always
possible; in `SyncUp` a stored directory block can come again, so a deadlock would
be a panic; in `Processor` a reveal can be delivered whenever the engine serves,
so a deadlock would be a point of `buildBlocks` from which the goroutine cannot
go on, or a panic.

**Fairness.** `minutes`: weak fairness of the timer and of the steps of a
handler that has begun. The timer's goroutine is a loop over `time.Sleep`, and
the engine's goroutine takes from `inCtlMsgQueue` and runs `buildBlocks` without
waiting for anybody; so each of these, once possible, is possible until it
happens. `sync`: weak fairness of `validateAndStoreBlocks`, a goroutine that
never returns and waits only in `time.Sleep`. It waits for the read lock, too,
but the engine holds the write lock for one insertion at a time and Go's lock
does not starve a reader. `anchor`: weak fairness of each sender, of the ticker,
of the callbacks, of time, and of bitcoin mining what is in its pool; none of
the wallet failing or not, and none of a start. No fairness is assumed of
messages, and processes need not die.

**What a property is sensitive to** is recorded under `mutants`: for each
property a plausible mistake in the code, next to the definition it varies and
marked "Faulty variant", that makes the property fail in its run.

## 4. Proofs

All are for arbitrary constants, with any number of messages, periods and
processes, under the assumptions each specification states on its constants and
TLC evaluates on every run: `ConstantTypes` in `Processor` and `SyncUp`, and the
like in `ReplayFilter`; in `SyncUp` also `ServerChains` (the server's entry
chains are numbered without a gap, which is what `ChainsOpenWithTheirFirstEntry`
and its proof say of the server); in `Anchor` `AnchorAssumption` (finitely many
coins, whole amounts) and `NoneAssumption` (nil is not a transaction); in
`Encoding` and `BlockDB` that bytes and words have at least one bit, in `WebAPI`
`WebAssumption` (chain ids are byte sequences of one length, amounts and the numbers
of outputs are words, the external ids that are posted fit under `SizeBound`). Two
hypotheses go further, because the code needs them:

* `CleanCrashes` (`EveryBlockIsListed`, `ChainsOpenRight`, `NoPanic`): the
  process dies while it serves messages or empties the orphan pool, not while it
  writes blocks. Without it `startup_panics` panics.
* `CommitsAgree` (`NoPanic`): of the chain commits for one chain either all can
  be accepted with their reveal (they pay the fee, name the chain and have the
  right weld) or none can. The instance of the run `serve`, with a commit that
  does not pay, satisfies it. Without it there is a panic in four periods: the
  refused reveal of one commit leaves its chain known (the finding of
  `ghost_chain`); entries go into it, first in a block stored under chain id zero,
  then in one under the chain's id with number 1; the chain is not stored, so a
  process started later does not know it and takes a reveal that the other commit
  pays for; `initEChainFromDB` then meets block 1 where it expects block 0
  (`process/init.go:294`), and every later start does too. TLC finds this behaviour
  for one chain with two chain commits and two entry commits for its first entry.

**Processor**, dying anywhere unless `CleanCrashes` is named:

* `TypeCorrect`: `Spec => []TypeOK`. Inductive together with `Control`, which
  says what each program point may rely on: the item under `idx` is a chain
  reveal at `"first"`, and the open directory block already has its entry
  credit, admin and factoid block when it needs them. Without it, nothing says
  that a directory block written to the database is complete.
* `BalancesSurvive`: `Spec => []BlockAccountsForBalances`, and
  `NobodyOverdraws`: `Spec => []NoOverdraft`. The inductive invariant adds
  `Ledger`: each item of the process list certifies the balances after it from
  the ones before at the rate of the period; the last gives `eCreditMap`, the one
  before `idx` gives what the open block accounts for. Purchases are converted
  by `processBuyEntryCredit` and again by `buildIncreaseBalance`; the two agree
  because `rate` changes only in `newFactoidBlock`, when the list is in the
  block. The mutant that reads the rate earlier breaks exactly this.
* `DirectoryIsComplete`: `Spec => []DirectoryListsStoredBlocks`. The invariant
  `Directory` adds that what the *open* directory block lists at each program
  point is stored, under the height the directory block will get (`OpenList`);
  the property alone says nothing of the block that is about to be written. Its
  second part, `BodiesStored`, says that the entries of every stored and every open
  entry block are stored, because `buildRevealEntry` and `buildRevealChain` store an
  entry before they add it.
* `MinutesSurvive`: `Spec => []EntriesKeepTheirMinute`. The minute of an entry
  travels from `minute` through the process list to an open body and into a
  stored block, and `Minuted` has a conjunct for each station: the reveals behind
  the list's last end of minute have the current minute (`MinuteOpen`), the
  others the one of the end of minute that follows them (`MinutesListed`), the
  entries in an open body without a marker are those of the list since the last
  one (`OpenBody`), and a body is closed when the list ends, because its
  last item is an end of minute.
* `EveryBlockIsListed`: under `CleanCrashes`, `Spec => []StoredBlocksAreListed`.
  `Clean` says which chains are one block ahead of the directory at each program
  point (`InStep`) and that a stored block is listed by a stored directory block
  or by the open one (`StoredOnce`). From it a start finds as many blocks in each
  chain as there are directory blocks, and opens the heights alike.
* `ChainsOpenRight`: under `CleanCrashes`,
  `Spec => []ChainsOpenWithTheirFirstEntry`. `Lists` says that a listed reveal
  is paid by a commit of the right kind and that a chain still to be created is
  not stored and not created twice; `ChainInv` that the stored blocks of a
  stored chain are numbered 0, 1, ... once each, the open block has the next
  number, and that the first block of a chain belongs to a stored chain. The
  property speaks of stored blocks only; that the next one gets the right number
  needs the numbers of all, in memory and after a start (`StartSucceeds`).
* `ReplayIsTheLedger`: `Spec => []ReplayGivesBalances`. `Replayed` says that
  `dbCredit` is the sum over the stored blocks of the sums over their entries: a
  start and a stored block, new or identical to a stored one, keep it.
* `NothingIsFree`: `Spec => []EntriesArePaidFor`. A commit is charged when it is
  accepted and used up by the reveal that deletes it from its map, so at each
  moment what was charged for it is what its reveals used, plus one while it
  waits. `Bought` and `Spent` follow the two counts through the process list, the
  open blocks and the database; the start forgets waiting commits, so the
  equation becomes an inequality, which is what the property says.
* `NoBlockIsLost`: under `CleanCrashes`, `Spec => []~ecLost`.
* `NoPanic`: under `CleanCrashes` and `CommitsAgree`,
  `Spec => []StartupNeverPanics`. `NoGhosts` adds that a chain none of whose
  commits can be refused has no block and no open entries before it is stored,
  and is known before that only if a listed reveal is about to create it.

**ReplayFilter**

* `FilterTypes`: `Spec => []TypeOK`, and `FilterLetsFreshCommitsPass`:
  `Spec => []FreshPasses`, with restarts and clocks set back. What makes the
  second inductive is that a hash kept in a bucket is one that passed
  (`KeptPassed`), through any shift of the buckets.
* `FilterServesOnce`, `FilterForgets`, `FilterLocksNobodyOut`: up to the first
  restart and the first time the clock goes back (`Undisturbed`, a premise of the
  three properties; the buckets are lost with the process, and
  `replay.go:50` shifts the buckets only forwards, so that after a clock that was
  set back a hash is looked up in the wrong one). The inductive invariant says
  that hours do not decrease, that a hash is kept under the hour of its
  timestamp, that a hash which passed is still in its bucket unless its hour has
  left the window, and that a message whose hour left the window never comes
  back into it.

**SyncUp**

* `ClientMirrorsServer`: `Spec => MirrorsServer`, and `PoolIsSafe`:
  `Spec => []PoolKeepsWhatWasChecked`, for every server chain, pool size, order
  of delivery and crash point. The inductive invariant `SyncInv` says that the
  stored heights are `0 .. lastDirBlkHeight` and complete (`Prefix`), that what
  the loops have passed is stored (`Progress`) and that what they have yet to
  read is in the pool (`Pooled`). `Prefix` alone is not inductive: that a
  directory block is stored complete follows only from what the loop did before.
  The proof needs that a directory block does not list an entry block twice;
  otherwise the second deletion would meet a nil message.
* `ClientTypes`: `Spec => []TypeOK`. The inner counter of the loops stays within
  the entry block it runs over (`Inside`).
* `BlocksApplied`: `Spec => []BlocksAppliedOnce`. `AppliedInv` follows, for the
  factoid and for the entry credit blocks, the height that is being stored: it
  may have been applied before by an earlier process, once, and then no other
  height was applied twice.
* `ClientNeverPanics`: `Spec => []StartupNeverPanics`. `Below` says that nothing
  is stored beyond the height after the last directory block, so a client that
  starts on a height stored in part finds chains without a gap.

**Anchor**, for any wallet, number of senders, faults and starts:

* `TypeCorrect`: `Spec => []TypeOK`. `Types` has a conjunct for each part of the
  state; the heights that goroutines hold are those of stored blocks.
* `RecordsFormChain`: `Spec => RecordsFormAnchorChain`, the refinement of
  `AnchorChain`. That a record names a mined transaction, once, rests on
  `OnePlace`: a mined transaction's callback is outstanding, or one goroutine
  saves it, or it is recorded. This is inductive only with `Ledger`: a coin is
  one output, of less value than the ones of it that were spent, so that the same
  transaction is not mined again.
* `NoBlockIsForgotten`: `Spec => []TrackedUntilConfirmed`, within one process; the
  run `anchor_restart` shows what a restart loses.
* `CleanRunsNeverPanic`: `Spec => []SequentialNeverPanics`. `CleanInv` says what
  the only sender relies on at each step: at `"take"` the list is not empty, and
  all its elements have their address and key, but for those that the loop of
  `updateUTXO` has yet to reach.

The ghost variables `bal` and `dbCredit` make the ledger provable by itself: a
sum is replaced by a certificate carried in the state, and `ReplayIsTheLedger`
then shows that the certificate is the sum. The induction theorems of the library
take an operator and cannot be used here; the lemmas about sums over a finite set
take a least counterexample of the set of natural numbers instead, for which the
well-foundedness of `Nat` suffices.

**WebAPI**, for any chain ids, contents, amounts, heights, messages and starts, any
size of a word and of a byte:

* `TypesOK`: `Spec => []TypeOK`. What it needs is that the directory blocks are
  stored one for each height below the next one: the engine takes the number of
  *rows* of the table for the height (`init.go`), so two rows must never fall on
  one key, and the block it links to must be read back with that height.
* `PurchasesAreReadBack`: `Spec => []PurchasesReadBack`. An entry credit block with
  any number of commits, purchases and markers is decoded to what was encoded.
* `KeyMRsCommit`: `Spec => []KeyMRCommits`. Merkle roots alone do not commit:
  the last hash of a level is used twice, so `<<a, b, c>>` and `<<a, b, c, c>>` have one
  root. `RootCommits` proves that two lists of one length with one root are equal,
  for any length, and the KeyMR covers the header, which has the count.
* `ScansFound`: `Spec => []ScansFindTheirChain`. The range scan of a chain finds its
  entry blocks and no others, in order, for ids that do not end in the byte 255.
  That ids are equally long (`WebAssumption`) is what keeps the chains apart: the
  keys between an id and the id plus one are those that begin with it.
* `LinksLead`: `Spec => []LinksNameStoredBlocks`, and `StoredEntriesReached`:
  `Spec => []StoredEntriesAreListed`.
* `EveryRequestAnswered`: `Spec => []RequestsAreAnswered`, `AnswersHaveTheirKey`:
  `Spec => []AnswersMatchTheirKey` and `TimesAreRight`: `Spec => []EntriesAreTimed`,
  for every interleaving of a client's reads with the engine's writes.

They rest on `EncodingProofs`, which says what the operators of `Encoding` return:

* `ECBlockReadsBack`, `EBlockReadsBack`, `DBlockReadsBack`, `EntryReadsBack`: what
  `UnmarshalBinary` makes of the bytes of a block or an entry is that block with
  its header built. The first rests on the variable integers of `varint.go`: that
  every word is decoded to itself and that its encoding ends where the next
  object starts. `EntryReadsBack` is for any number of external ids of any sizes and
  any content, under the code's own limit: the ids with their sizes take less than
  `SizeBound` bytes, beyond which the signed size turns negative and they are read as
  content.
* `RootCommits`: two lists of one length with one merkle root are equal.

The functions these operators define by recursion are followed in two steps: the
function exists and satisfies its equation, by least counterexamples as above, and
then an invariant of its argument holds at each. `TimedUpTo` is such an invariant of
the loop of `handleEntryBlock`: after `n` elements, of which the `m`th is the last
marker, the entries up to it are listed with their times and the rest is on the
stack.

The inductive invariant is built up in layers, each inductive over those before it.

1. `Engine` says what the goroutine holds at each step (`Control`), that heads and
   tables agree (`Tabled`), and that every open entry block can be encoded
   (`OpenEBlocks`).
2. `Ledgers` says of each of the four ledgers (`Credits`, `Admins`, `Factoids`,
   `Directories`) that its stored blocks are numbered from 0 without a gap, that
   each is found under its number, carries its own hash as its key and names its
   predecessor, and that the open block names the last stored one. `TypeOK` alone
   is not inductive: the block that `newDirectoryBlock` stores adds a row only
   because its hash differs from all the stored ones, which follows from its height
   being read back from the bytes that are hashed.
3. `EntryChains` says the same of the chains of entry blocks, whose number differs
   from their height: every key of `EB_CHAIN_NUM` leads to the block of that chain
   and number, a chain's numbers have no gap, heads and KeyMRs lead to stored blocks
   (`StoredChains`), and the open block of a chain follows its last stored one and
   holds hashes of stored entries (`OpenChains`). A closed block ends with a minute
   marker (`Closed`), because the list that `buildFromProcessList` works through
   ends with an end of minute.
4. `Listing` says that a stored directory block lists the admin, entry credit and
   factoid block of its own height and stored entry blocks of that height
   (`StoredLists`), and that the open one lists those stored so far (`OpenLists`).
5. `EntriesReached` says that a stored entry is in an entry block that some directory
   block lists, or in one that has yet to be listed.
6. `RequestIs` and `AnswerIs` say, for each point of a request, what its reads so far
   have found and that it is still there. Between two reads the engine only adds rows
   (`StoreGrows`), so a key that led to a row goes on leading to it; a handler that
   has read the hash of a block finds the block, although the rows were read at
   different moments. Only a chain head can be ahead of the directory: it names an
   entry block whose directory block may not be written yet (`Timely`), which is why
   `EntriesAreTimed` is about blocks that were not reached from a chain head.

**Only model-checked**: liveness (`OrphansAreServed`, `CompleteIsStored`,
`AnchoredInTheEnd`), which these provers do not reach, and what the runs that expect
a violation refute. Every other invariant and action property of the runs is stated
by a theorem.

## 5. Not modelled

* Cryptography, and with it wrong signatures and hash collisions.
* The factoid library (transactions, factoid balances) and the wallet.
* Control panel, log, exports, command-line tools: they read state only.
* The process lists of other servers and the acknowledgements to the network:
  nothing in the program reads them.
* The size limit of the process list is compared with `totalItems`, which nobody
  increases (`consensus/plistmgr.go:140`); `IsMyPListExceedingLimit` keeps that,
  and the models' lists grow past `MAX_PLIST_SIZE` as the code's do.
* Dishonest peers, the requests for a new synchronisation that a client sends
  (the peer-to-peer code is another repository), and data races on the maps the
  client's two goroutines share.
* Fixed-width fields and `int32` overflow of balances: 2^31 credits of one key are
  beyond what the factoid supply buys. `EntryCost` is an input (`Cost`).
* Requests for balances, the fee and the version: each returns one value of a map
  or of the factoid library. The balance is read from `eCreditMap` without a lock
  (`factomapi/api.go:100`), which is undefined behaviour of the Go runtime and has
  no state to model.
* Of the database, the functions only the peer-to-peer code calls
  (`FetchHeightRange`, `FetchBlockHeightBySha`, the cache of the next height).

## 6. Plan

Done: `Processor`, `ReplayFilter`, `SyncUp` with `Mirror`, `Anchor` with
`AnchorChain`, `Encoding`, `BlockDB` and `WebAPI`, and the proofs of every safety
property of them.
Left:

1. `CreditLedger`: the abstract ledger (buy, charge, redeem) that `Processor`
   implements, with a refinement mapping, checked and proved.
