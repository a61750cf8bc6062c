------------------------------- MODULE BlockDB -------------------------------
(***************************************************************************)
(* The block database (database/ldb): its tables, what one write batch     *)
(* puts into them and what the fetch functions find. A database is a       *)
(* record of tables, a table a function from keys to rows. A batch is      *)
(* written as a whole; the lock around it, and the fact that a fetch may   *)
(* take several reads, are the business of the module that uses this one.  *)
(*                                                                         *)
(* Chain ids are short sequences over 0 .. ByteMax, which stands for 0xFF, *)
(* because the entry blocks of a chain are found by a range of keys.       *)
(***************************************************************************)
EXTENDS Encoding

CONSTANT ByteMax

ASSUME ByteAssumption == ByteMax \in Nat \ {0}

Empty == <<>>

\* openDB on a new directory.
NewDB == [DB |-> Empty, DB_NUM |-> Empty, DB_MR |-> Empty,
          AB |-> Empty, AB_NUM |-> Empty, SC |-> Empty, SC_NUM |-> Empty,
          CB |-> Empty, CB_NUM |-> Empty, CHAIN_HASH |-> Empty, CHAIN_HEAD |-> Empty,
          EB |-> Empty, EB_CHAIN_NUM |-> Empty, EB_MR |-> Empty, ENTRY |-> Empty]

Put(table, key, row) ==
    [k \in DOMAIN table \cup {key} |-> IF k = key THEN row ELSE table[k]]

Get(table, key) == IF key \in DOMAIN table THEN table[key] ELSE Nil

-----------------------------------------------------------------------------
\* Writes

InsertEntry(db, e) == [db EXCEPT !.ENTRY = Put(@, EntryHash(e), MarshalEntry(e))]

\* The chain with its first entry.
InsertChain(db, chain, first) ==
    [db EXCEPT !.CHAIN_HASH = Put(@, chain, MarshalEntry(first))]

\* An empty block is refused.
ProcessEBlockBatch(db, b) ==
    IF b.entries = <<>> THEN db
    ELSE [db EXCEPT
            !.EB           = Put(@, EBlockHash(b), MarshalEBlock(b)),
            !.EB_MR        = Put(@, EBlockKeyMR(b), EBlockHash(b)),
            !.EB_CHAIN_NUM = Put(@, Append(b.chain, b.seq), EBlockHash(b)),
            !.CHAIN_HEAD   = Put(@, Chain(b.chain), EBlockKeyMR(b))]

\* MarshalBinary builds the header before HeaderHash is taken.
ProcessECBlockBatch(db, b) ==
    LET key == HeaderHash(BuildECBlockHeader(b))
    IN  [db EXCEPT !.CB         = Put(@, key, MarshalECBlock(b)),
                   !.CB_NUM     = Put(@, b.height, key),
                   !.CHAIN_HEAD = Put(@, SystemChain("ec"), key)]

ProcessABlockBatch(db, b) ==
    LET key == BuildPartialHash(b).partial
    IN  [db EXCEPT !.AB         = Put(@, key, MarshalABlock(b)),
                   !.AB_NUM     = Put(@, b.height, key),
                   !.CHAIN_HEAD = Put(@, SystemChain("admin"), key)]

\* The factoid block and its hash are the factoid library's.
FBlockHash(b) == Sha("fblock", b)

ProcessFBlockBatch(db, b) ==
    [db EXCEPT !.SC         = Put(@, FBlockHash(b), b),
               !.SC_NUM     = Put(@, b[2][2], FBlockHash(b)),
               !.CHAIN_HEAD = Put(@, SystemChain("factoid"), FBlockHash(b))]

ProcessDBlockBatch(db, b) ==
    [db EXCEPT !.DB         = Put(@, DBlockHash(b), MarshalDBlock(b)),
               !.DB_NUM     = Put(@, b.height, DBlockHash(b)),
               !.DB_MR      = Put(@, BuildKeyMerkleRoot(b), DBlockHash(b)),
               !.CHAIN_HEAD = Put(@, SystemChain("directory"), BuildKeyMerkleRoot(b))]

-----------------------------------------------------------------------------
\* Single reads: Nil if there is no such row

Parsed(row, Unmarshal(_)) == IF row = Nil THEN Nil ELSE Unmarshal(row)

FetchDBHashByHeight(db, h)    == Get(db.DB_NUM, h)
FetchDBHashByMR(db, mr)       == Get(db.DB_MR, mr)
FetchDBlockByHash(db, hash)   == Parsed(Get(db.DB, hash), UnmarshalDBlock)
FetchEBHashByMR(db, mr)       == Get(db.EB_MR, mr)
FetchEBlockByHash(db, hash)   == Parsed(Get(db.EB, hash), UnmarshalEBlock)
FetchECBlockByHash(db, hash)  == Parsed(Get(db.CB, hash), UnmarshalECBlock)
FetchABlockByHash(db, hash)   == Parsed(Get(db.AB, hash), UnmarshalABlock)
FetchFBlockByHash(db, hash)   == Get(db.SC, hash)
FetchEntryByHash(db, hash)    == Parsed(Get(db.ENTRY, hash), UnmarshalEntry)
FetchHeadMRByChainID(db, c)   == Get(db.CHAIN_HEAD, c)

\* Two reads under one lock.
FetchECBlockByHeight(db, h) == FetchECBlockByHash(db, Get(db.CB_NUM, h))
FetchABlockByHeight(db, h)  == FetchABlockByHash(db, Get(db.AB_NUM, h))
FetchFBlockByHeight(db, h)  == FetchFBlockByHash(db, Get(db.SC_NUM, h))

-----------------------------------------------------------------------------
\* Scans

\* The rows of a whole table, in the order of the hashes.
Rows(table) == {table[k] : k \in DOMAIN table}

FetchAllDBlocks(db)  == {UnmarshalDBlock(row) : row \in Rows(db.DB)}
FetchAllECBlocks(db) == {UnmarshalECBlock(row) : row \in Rows(db.CB)}
FetchAllABlocks(db)  == {UnmarshalABlock(row) : row \in Rows(db.AB)}

FetchAllChains(db) == DOMAIN db.CHAIN_HASH

\* The order of leveldb's keys.
KeyLess(a, b) ==
    \/ IsStrictPrefix(a, b)
    \/ \E i \in DOMAIN a \cap DOMAIN b :
        a[i] < b[i] /\ \A j \in 1 .. (i - 1) : a[j] = b[j]

\* Faulty variant: the end of the range is two ahead.
addOneToByteArray_Two(key) ==
    [key EXCEPT ![Len(key)] = (@ + 2) % (ByteMax + 1)]

\* The last byte is increased, and no other: every byte is <= 255.
addOneToByteArray(key) ==
    [key EXCEPT ![Len(key)] = (@ + 1) % (ByteMax + 1)]

\* The rows with a key from the chain id up to the id plus one, in key order,
\* each followed to its block.
FetchAllEBlocksByChain(db, chain) ==
    LET limit == addOneToByteArray(chain)
        keys  == {k \in DOMAIN db.EB_CHAIN_NUM : ~KeyLess(k, chain) /\ KeyLess(k, limit)}
        key(i) == CHOOSE k \in keys : Cardinality({o \in keys : KeyLess(o, k)}) = i - 1
    IN  [i \in 1 .. Cardinality(keys) |-> FetchEBlockByHash(db, db.EB_CHAIN_NUM[key(i)])]

=============================================================================
