------------------------------ MODULE WebProofs ------------------------------
(***************************************************************************)
(* Proofs about WebAPI, on top of those about the binary forms: what the   *)
(* tables hold between any two steps, and what a reader finds in them.     *)
(***************************************************************************)
EXTENDS EncodingProofs

----------------------------------------------------------------------------
\* Tables and batches

Tables == {"DB", "DB_NUM", "DB_MR", "AB", "AB_NUM", "SC", "SC_NUM", "CB", "CB_NUM",
           "CHAIN_HASH", "CHAIN_HEAD", "EB", "EB_CHAIN_NUM", "EB_MR", "ENTRY"}

\* The tables of d and u agree but for these.
SameBut(u, d, names) ==
    IsRecord(u, Tables) /\ \A f \in Tables \ names : u[f] = d[f]

LEMMA PutIs ==
    ASSUME NEW t, NEW k, NEW r, NEW u, u = Put(t, k, r)
    PROVE  /\ DOMAIN u = DOMAIN t \cup {k} /\ u[k] = r
           /\ \A x \in DOMAIN t : x # k => u[x] = t[x]
BY DEF Put

LEMMA PutFinite ==
    ASSUME NEW t, NEW k, NEW r, NEW u, u = Put(t, k, r), IsFiniteSet(DOMAIN t)
    PROVE  IsFiniteSet(DOMAIN u)
<1>1. DOMAIN u = DOMAIN t \cup {k}
  BY PutIs
<1> QED BY <1>1, FS_AddElement

LEMMA EntryInserted ==
    ASSUME NEW d, IsRecord(d, Tables), NEW e, NEW u, u = InsertEntry(d, e)
    PROVE  SameBut(u, d, {"ENTRY"}) /\ u.ENTRY = Put(d.ENTRY, EntryHash(e), MarshalEntry(e))
<1>1. d = [f \in Tables |-> d[f]]
  BY DEF IsRecord
<1> QED BY <1>1 DEF InsertEntry, SameBut, IsRecord, Tables

LEMMA ChainInserted ==
    ASSUME NEW d, IsRecord(d, Tables), NEW c, NEW e, NEW u, u = InsertChain(d, c, e)
    PROVE  SameBut(u, d, {"CHAIN_HASH"}) /\ u.CHAIN_HASH = Put(d.CHAIN_HASH, c, MarshalEntry(e))
<1>1. d = [f \in Tables |-> d[f]]
  BY DEF IsRecord
<1> QED BY <1>1 DEF InsertChain, SameBut, IsRecord, Tables

LEMMA EBlockBatch ==
    ASSUME NEW d, IsRecord(d, Tables), NEW b, b.entries # <<>>, NEW u, u = ProcessEBlockBatch(d, b)
    PROVE  /\ SameBut(u, d, {"EB", "EB_MR", "EB_CHAIN_NUM", "CHAIN_HEAD"})
           /\ u.EB = Put(d.EB, EBlockHash(b), MarshalEBlock(b))
           /\ u.EB_MR = Put(d.EB_MR, EBlockKeyMR(b), EBlockHash(b))
           /\ u.EB_CHAIN_NUM = Put(d.EB_CHAIN_NUM, Append(b.chain, b.seq), EBlockHash(b))
           /\ u.CHAIN_HEAD = Put(d.CHAIN_HEAD, Chain(b.chain), EBlockKeyMR(b))
<1>1. d = [f \in Tables |-> d[f]]
  BY DEF IsRecord
<1>2. u = [d EXCEPT
            !.EB           = Put(@, EBlockHash(b), MarshalEBlock(b)),
            !.EB_MR        = Put(@, EBlockKeyMR(b), EBlockHash(b)),
            !.EB_CHAIN_NUM = Put(@, Append(b.chain, b.seq), EBlockHash(b)),
            !.CHAIN_HEAD   = Put(@, Chain(b.chain), EBlockKeyMR(b))]
  BY DEF ProcessEBlockBatch
<1> QED BY <1>1, <1>2 DEF SameBut, IsRecord, Tables

LEMMA ECBlockBatch ==
    ASSUME NEW d, IsRecord(d, Tables), NEW b, NEW u, u = ProcessECBlockBatch(d, b),
           NEW key, key = HeaderHash(BuildECBlockHeader(b))
    PROVE  /\ SameBut(u, d, {"CB", "CB_NUM", "CHAIN_HEAD"})
           /\ u.CB = Put(d.CB, key, MarshalECBlock(b)) /\ u.CB_NUM = Put(d.CB_NUM, b.height, key)
           /\ u.CHAIN_HEAD = Put(d.CHAIN_HEAD, SystemChain("ec"), key)
<1>1. d = [f \in Tables |-> d[f]]
  BY DEF IsRecord
<1>2. u = [d EXCEPT !.CB         = Put(@, key, MarshalECBlock(b)),
                    !.CB_NUM     = Put(@, b.height, key),
                    !.CHAIN_HEAD = Put(@, SystemChain("ec"), key)]
  BY DEF ProcessECBlockBatch
<1> QED BY <1>1, <1>2 DEF SameBut, IsRecord, Tables

LEMMA ABlockBatch ==
    ASSUME NEW d, IsRecord(d, Tables), NEW b, NEW u, u = ProcessABlockBatch(d, b),
           NEW key, key = BuildPartialHash(b).partial
    PROVE  /\ SameBut(u, d, {"AB", "AB_NUM", "CHAIN_HEAD"})
           /\ u.AB = Put(d.AB, key, MarshalABlock(b)) /\ u.AB_NUM = Put(d.AB_NUM, b.height, key)
           /\ u.CHAIN_HEAD = Put(d.CHAIN_HEAD, SystemChain("admin"), key)
<1>1. d = [f \in Tables |-> d[f]]
  BY DEF IsRecord
<1>2. u = [d EXCEPT !.AB         = Put(@, key, MarshalABlock(b)),
                    !.AB_NUM     = Put(@, b.height, key),
                    !.CHAIN_HEAD = Put(@, SystemChain("admin"), key)]
  BY DEF ProcessABlockBatch
<1> QED BY <1>1, <1>2 DEF SameBut, IsRecord, Tables

LEMMA FBlockBatch ==
    ASSUME NEW d, IsRecord(d, Tables), NEW b, NEW u, u = ProcessFBlockBatch(d, b)
    PROVE  /\ SameBut(u, d, {"SC", "SC_NUM", "CHAIN_HEAD"})
           /\ u.SC = Put(d.SC, FBlockHash(b), b) /\ u.SC_NUM = Put(d.SC_NUM, b[2][2], FBlockHash(b))
           /\ u.CHAIN_HEAD = Put(d.CHAIN_HEAD, SystemChain("factoid"), FBlockHash(b))
<1>1. d = [f \in Tables |-> d[f]]
  BY DEF IsRecord
<1> QED BY <1>1 DEF ProcessFBlockBatch, SameBut, IsRecord, Tables

LEMMA DBlockBatch ==
    ASSUME NEW d, IsRecord(d, Tables), NEW b, NEW u, u = ProcessDBlockBatch(d, b)
    PROVE  /\ SameBut(u, d, {"DB", "DB_NUM", "DB_MR", "CHAIN_HEAD"})
           /\ u.DB = Put(d.DB, DBlockHash(b), MarshalDBlock(b))
           /\ u.DB_NUM = Put(d.DB_NUM, b.height, DBlockHash(b))
           /\ u.DB_MR = Put(d.DB_MR, BuildKeyMerkleRoot(b), DBlockHash(b))
           /\ u.CHAIN_HEAD = Put(d.CHAIN_HEAD, SystemChain("directory"), BuildKeyMerkleRoot(b))
<1>1. d = [f \in Tables |-> d[f]]
  BY DEF IsRecord
<1> QED BY <1>1 DEF ProcessDBlockBatch, SameBut, IsRecord, Tables

LEMMA NewDBIs ==
    IsRecord(NewDB, Tables) /\ \A f \in Tables : NewDB[f] = <<>>
BY DEF NewDB, IsRecord, Tables, Empty

----------------------------------------------------------------------------
\* The engine's state

Points == {"init", "serve", "build", "ec", "admin", "fct", "entry", "dir"}

Messages ==
    {Reveal(Entry(c, x)) : c \in Chains, x \in Contents} \cup {Commit(x) : x \in Contents}
        \cup {Buy(t) : t \in Payments} \cup {EOM(m) : m \in 1 .. LastMinute}

\* Where the goroutine is and what it holds there.
Control ==
    /\ pc \in Points /\ dbLock \in BOOLEAN /\ (dbLock <=> pc = "dir")
    /\ (sealed # Nil <=> pc = "dir") /\ minute \in 1 .. LastMinute
    /\ todo \subseteq DOMAIN eNext /\ DOMAIN eNext \subseteq Chains
    /\ (pc # "entry" => todo = {})
    /\ plist \in Seq(Messages)
    /\ IsRecord(dNext, DBFields) /\ Height \in Nat /\ lastDirBlkHeight \in {-1, Height - 1}
    /\ (pc = "init" => lastDirBlkHeight = -1)

\* The row of an entry is found under the entry's hash.
EntryRow(k) ==
    \E c \in Chains, x \in Contents :
        k = EntryHash(Entry(c, x)) /\ db.ENTRY[k] = MarshalEntry(Entry(c, x))

\* The tables are finite, and those that are keyed by chains or by entries have
\* no other keys.
Tabled ==
    /\ IsRecord(db, Tables) /\ \A f \in Tables : IsFiniteSet(DOMAIN db[f])
    /\ DOMAIN db.CHAIN_HASH \subseteq Chains
    /\ \A k \in DOMAIN db.ENTRY : EntryRow(k)

OpenEBlocks == \A c \in DOMAIN eNext : IsEBlock(eNext[c]) /\ eNext[c].chain = c

Engine == Control /\ Tabled /\ OpenEBlocks

\* What requests and their reads leave alone.
LEMMA ReadsKeep == ASSUME Requests \/ Reads PROVE UNCHANGED <<store, engine, sent, boots>>
<1>1. CASE Requests
  BY <1>1 DEF Requests, DBlockHead, handleDirectoryBlock, handleEntryBlock, handleEntry,
     handleChainHead, handleGetRaw, Ask, OneRead, KeepInReads
<1>2. CASE Reads
  BY <1>2 DEF Reads, ReadDBHashByHeight, ReadHeadBlock, ReadDBHashByMR, ReadDBlock,
     ReadEBHashByMR, ReadEBlock, ReadDBHashForTime, ReadDBlockForTime, KeepInReads
<1> QED BY <1>1, <1>2

\* An entry block that is begun.
LEMMA MadeEBlock ==
    ASSUME NEW c \in Chains, NEW n \in Nat, NEW prev, NEW u, u = MakeEBlock(c, n, prev)
    PROVE  /\ IsEBlock(u) /\ u.chain = c /\ u.seq = n /\ u.height = 0 /\ u.entries = <<>>
           /\ prev = Nil => u.prevKeyMR = NewHash /\ u.prevLedgerKeyMR = NewHash
           /\ prev # Nil => u.prevKeyMR = EBlockKeyMR(prev)
                            /\ u.prevLedgerKeyMR = EBlockHash(prev)
<1> DEFINE e == EmptyEBlock(c)
<1>0. c \in Chains /\ n \in Nat /\ 0 \in Nat /\ <<>> \in Seq(EBHashes)
  OBVIOUS
<1>1. /\ e = [f \in EBFields |-> e[f]] /\ DOMAIN e = EBFields
      /\ e.chain = c /\ e.height = 0 /\ e.entries = <<>> /\ e.prevKeyMR = NewHash
      /\ e.prevLedgerKeyMR = NewHash
  BY DEF EmptyEBlock, EBFields
<1> HIDE DEF e
<1>2. CASE prev = Nil
  <2>1. u = [e EXCEPT !.seq = n]
    BY <1>2 DEF MakeEBlock, e
  <2>2. /\ u = [f \in EBFields |-> u[f]] /\ DOMAIN u = EBFields
        /\ u.chain = c /\ u.height = 0 /\ u.entries = <<>> /\ u.prevKeyMR = NewHash
        /\ u.prevLedgerKeyMR = NewHash /\ u.seq = n
    BY ONLY <1>1, <2>1 DEF EBFields
  <2>3. IsEBlock(u)
    BY ONLY <1>0, <2>2 DEF IsEBlock, IsRecord
  <2> QED BY <1>2, <2>2, <2>3
<1>3. CASE prev # Nil
  <2>1. u = [e EXCEPT !.seq = n, !.prevKeyMR = EBlockKeyMR(prev),
                      !.prevLedgerKeyMR = EBlockHash(prev)]
    BY <1>3 DEF MakeEBlock, e
  <2>2. /\ u = [f \in EBFields |-> u[f]] /\ DOMAIN u = EBFields
        /\ u.chain = c /\ u.height = 0 /\ u.entries = <<>> /\ u.prevKeyMR = EBlockKeyMR(prev)
        /\ u.prevLedgerKeyMR = EBlockHash(prev) /\ u.seq = n
    BY ONLY <1>1, <2>1 DEF EBFields
  <2>3. IsEBlock(u)
    BY ONLY <1>0, <2>2 DEF IsEBlock, IsRecord
  <2> QED BY <1>3, <2>2, <2>3
<1> QED BY <1>2, <1>3

\* A hash is added to an entry block, and the height is set.
LEMMA EBEntryAdded ==
    ASSUME NEW b, IsEBlock(b), NEW h \in EBHashes, NEW u, u = AddEBEntry(b, h)
    PROVE  /\ IsEBlock(u) /\ u.entries = Append(b.entries, h)
           /\ \A f \in EBFields \ {"entries"} : u[f] = b[f]
<1>1. b = [f \in EBFields |-> b[f]] /\ DOMAIN b = EBFields
  BY DEF IsEBlock, IsRecord
<1>2. u = [b EXCEPT !.entries = Append(b.entries, h)]
  BY DEF AddEBEntry
<1>3. /\ u = [f \in EBFields |-> u[f]] /\ DOMAIN u = EBFields
      /\ u.entries = Append(b.entries, h)
      /\ \A f \in EBFields \ {"entries"} : u[f] = b[f]
  BY ONLY <1>1, <1>2 DEF EBFields
<1>4. Append(b.entries, h) \in Seq(EBHashes)
  BY DEF IsEBlock
<1> QED BY <1>3, <1>4 DEF IsEBlock, IsRecord, EBFields

LEMMA EBHeightSet ==
    ASSUME NEW b, IsEBlock(b), NEW n \in Nat, NEW u, u = [b EXCEPT !.height = n]
    PROVE  /\ IsEBlock(u) /\ u.height = n
           /\ \A f \in EBFields \ {"height"} : u[f] = b[f]
<1>1. b = [f \in EBFields |-> b[f]] /\ DOMAIN b = EBFields
  BY DEF IsEBlock, IsRecord
<1>3. /\ u = [f \in EBFields |-> u[f]] /\ DOMAIN u = EBFields
      /\ u.height = n /\ \A f \in EBFields \ {"height"} : u[f] = b[f]
  BY ONLY <1>1, u = [b EXCEPT !.height = n] DEF EBFields
<1> QED BY <1>3 DEF IsEBlock, IsRecord, EBFields

LEMMA ScanLength ==
    ASSUME Tabled, NEW c PROVE Len(FetchAllEBlocksByChain(db, c)) \in Nat
<1> DEFINE limit == addOneToByteArray(c)
           keys  == {k \in DOMAIN db.EB_CHAIN_NUM : ~KeyLess(k, c) /\ KeyLess(k, limit)}
<1>1. IsFiniteSet(DOMAIN db.EB_CHAIN_NUM)
  BY DEF Tabled, Tables
<1>2. IsFiniteSet(keys)
  BY <1>1, FS_Subset
<1>3. Cardinality(keys) \in Nat
  BY <1>2, FS_CardinalityType
<1> DEFINE key(i) == CHOOSE k \in keys : Cardinality({o \in keys : KeyLess(o, k)}) = i - 1
           blocks == [i \in 1 .. Cardinality(keys) |-> FetchEBlockByHash(db, db.EB_CHAIN_NUM[key(i)])]
<1>4. FetchAllEBlocksByChain(db, c) = blocks
  BY DEF FetchAllEBlocksByChain
<1> HIDE DEF keys, key
<1>5. Len(blocks) = Cardinality(keys)
  BY <1>3
<1> QED BY <1>3, <1>4, <1>5

\* A directory block that is begun.
IsSetOut(u, n, p, q, t, e) ==
    u = [CreateDBlock(n, p, q) EXCEPT !.timestamp = t, !.entries = e]

LEMMA SetOutDBlock ==
    ASSUME NEW n, NEW p, NEW q, NEW t, NEW e, NEW u, IsSetOut(u, n, p, q, t, e)
    PROVE  /\ IsRecord(u, DBFields) /\ u.height = n /\ u.prevKeyMR = p /\ u.prevLedgerKeyMR = q
           /\ u.timestamp = t /\ u.entries = e
<1> DEFINE b == CreateDBlock(n, p, q)
<1>1. /\ b = [f \in DBFields |-> b[f]] /\ DOMAIN b = DBFields
      /\ b.height = n /\ b.prevKeyMR = p /\ b.prevLedgerKeyMR = q
  BY DEF CreateDBlock, DBFields
<1>2. u = [b EXCEPT !.timestamp = t, !.entries = e]
  BY DEF IsSetOut
<1> HIDE DEF b
<1> QED BY ONLY <1>1, <1>2 DEF DBFields, IsRecord

LEMMA DBlocksFinite ==
    ASSUME Tabled PROVE IsFiniteSet(FetchAllDBlocks(db)) /\ Cardinality(FetchAllDBlocks(db)) \in Nat
<1> DEFINE K == DOMAIN db.DB
           f == [k \in K |-> UnmarshalDBlock(db.DB[k])]
           B == FetchAllDBlocks(db)
<1>1. IsFiniteSet(K)
  BY DEF Tabled, Tables
<1>2. f \in Surjection(K, B)
  <2>1. f \in [K -> B] /\ \A d \in B : \E k \in K : f[k] = d
    BY DEF FetchAllDBlocks, Rows
  <2> QED BY <2>1, Fun_IsSurj
<1> HIDE DEF K, f, B
<1>3. IsFiniteSet(B)
  BY <1>1, <1>2, FS_Surjection
<1> QED BY <1>3, FS_CardinalityType DEF B

LEMMA StartEngine == ASSUME Engine, Start PROVE Engine'
<1> DEFINE n == Cardinality(FetchAllDBlocks(db))
<1>1. n \in Nat
  BY DBlocksFinite DEF Engine
<1>2. /\ pc = "init" /\ lastDirBlkHeight' = (IF n = 0 THEN lastDirBlkHeight ELSE n - 1)
      /\ dNext' = initDChain(n) /\ eNext' = [c \in FetchAllChains(db) |-> initEChainFromDB(c)]
      /\ pc' = (IF n = 0 THEN "ec" ELSE "serve")
      /\ UNCHANGED <<db, dbLock, plist, minute, todo, sealed>>
  BY DEF Start
<1> HIDE DEF n
<1>3. IsRecord(dNext', DBFields) /\ dNext'.height = n
  <2> DEFINE prev == FetchDBlockByHash(db, FetchDBHashByHeight(db, n - 1))
             p == IF n = 0 THEN NewHash ELSE BuildKeyMerkleRoot(prev)
             q == IF n = 0 THEN NewHash ELSE DBlockHash(prev)
             t == Timestamp(n)
             e == Placeholders
             u == dNext'
  <2>1. IsSetOut(u, n, p, q, t, e)
    BY <1>2 DEF initDChain, IsSetOut
  <2> HIDE DEF prev, p, q, t, e, u
  <2>2. \A v, m, r, s, x, y : IsSetOut(v, m, r, s, x, y) => IsRecord(v, DBFields) /\ v.height = m
    BY SetOutDBlock
  <2>3. IsRecord(u, DBFields) /\ u.height = n
    BY ONLY <2>1, <2>2
  <2> QED BY <2>3 DEF u
<1>4. FetchAllChains(db) \subseteq Chains
  BY DEF FetchAllChains, Engine, Tabled
<1>5. ASSUME NEW c \in FetchAllChains(db)
      PROVE  IsEBlock(initEChainFromDB(c)) /\ initEChainFromDB(c).chain = c
  BY <1>4, ScanLength, MadeEBlock DEF initEChainFromDB, Engine
<1>6. Control'
  BY <1>1, <1>2, <1>3, <1>4 DEF Engine, Control, Height, Points
<1>7. OpenEBlocks'
  BY <1>2, <1>5 DEF OpenEBlocks
<1>8. Tabled'
  BY <1>2 DEF Engine, Tabled, EntryRow
<1> QED BY <1>6, <1>7, <1>8 DEF Engine

LEMMA RestartEngine == ASSUME Engine, Restart PROVE Engine'
<1>1. /\ pc = "serve" /\ pc' = "init" /\ lastDirBlkHeight' = -1 /\ plist' = <<>> /\ minute' = 1
      /\ UNCHANGED <<db, dbLock, todo, eNext, dNext, sealed>>
  BY DEF Restart, open
<1>2. Control'
  BY <1>1, WebAssumption DEF Engine, Control, Height, Points
<1>3. Tabled' /\ OpenEBlocks'
  BY <1>1 DEF Engine, Tabled, EntryRow, OpenEBlocks
<1> QED BY <1>2, <1>3 DEF Engine

LEMMA PostEngine ==
    ASSUME Engine, NEW msgs \in Seq(Messages), Post(msgs) PROVE Engine'
<1>1. plist' = plist \o msgs /\ UNCHANGED <<db, dbLock, lastDirBlkHeight, pc, minute, todo, eNext,
                                            dNext, sealed>>
  BY DEF Post, store, open
<1>2. plist' \in Seq(Messages)
  BY <1>1 DEF Engine, Control
<1>3. Control'
  BY <1>1, <1>2 DEF Engine, Control, Height
<1>4. Tabled' /\ OpenEBlocks'
  BY <1>1 DEF Engine, Tabled, EntryRow, OpenEBlocks
<1> QED BY <1>3, <1>4 DEF Engine

LEMMA PostedMessages ==
    \A t \in Payments, c \in Chains, x \in Contents : Paid(t, c, x) \in Seq(Messages)
<1> SUFFICES ASSUME NEW t \in Payments, NEW c \in Chains, NEW x \in Contents
             PROVE  Paid(t, c, x) \in Seq(Messages)
  OBVIOUS
<1>1. Buy(t) \in Messages /\ Commit(x) \in Messages /\ Reveal(Entry(c, x)) \in Messages
  BY DEF Messages
<1> QED BY ONLY <1>1 DEF Paid

LEMMA MinuteEngine == ASSUME Engine, EndOfMinute PROVE Engine'
<1>1. /\ pc = "serve" /\ plist' = Append(plist, EOM(minute))
      /\ UNCHANGED <<db, dbLock, lastDirBlkHeight, todo, eNext, dNext, sealed>>
      /\ \/ minute = LastMinute /\ pc' = "build" /\ minute' = 1
         \/ minute # LastMinute /\ minute' = minute + 1 /\ pc' = pc
  BY DEF EndOfMinute, store, open
<1>2. EOM(minute) \in Messages
  BY DEF Messages, Engine, Control
<1>3. plist' \in Seq(Messages)
  BY <1>1, <1>2 DEF Engine, Control
<1>4. minute' \in 1 .. LastMinute
  BY <1>1, WebAssumption DEF Engine, Control
<1>5. Control'
  BY <1>1, <1>3, <1>4 DEF Engine, Control, Height, Points
<1>6. Tabled' /\ OpenEBlocks'
  BY <1>1 DEF Engine, Tabled, EntryRow, OpenEBlocks
<1> QED BY <1>5, <1>6 DEF Engine

LEMMA EntryHashIn == ASSUME NEW c \in Chains, NEW x \in Contents PROVE EntryHash(Entry(c, x)) \in EBHashes
BY DEF EBHashes, EntryHashes

\* What the next message is, and what is left of the list.
LEMMA NextMessage ==
    ASSUME Control, plist # <<>>
    PROVE  /\ Head(plist) \in Messages /\ Tail(plist) \in Seq(Messages)
           /\ Len(plist) \in Nat
           /\ Head(plist).type = "reveal" =>
                \E c \in Chains, x \in Contents : UnmarshalEntry(Head(plist).body) = Entry(c, x)
           /\ Head(plist).type = "eom" => Head(plist).body \in 1 .. LastMinute
           /\ Head(plist).type = "buy" => Head(plist).body \in Payments
<1>1. plist \in Seq(Messages) /\ plist # <<>>
  BY DEF Control
<1>2. Head(plist) \in Messages /\ Tail(plist) \in Seq(Messages) /\ Len(plist) \in Nat
  BY ONLY <1>1
<1>3. ASSUME NEW m \in Messages, m.type = "reveal"
      PROVE  \E c \in Chains, x \in Contents : UnmarshalEntry(m.body) = Entry(c, x)
  <2>1. PICK c \in Chains, x \in Contents : m = Reveal(Entry(c, x))
    BY <1>3 DEF Messages, Reveal, Commit, Buy, EOM
  <2>2. m.body = MarshalEntry(Entry(c, x))
    BY <2>1 DEF Reveal
  <2> QED BY <2>2, PostedEntryReadsBack
<1>4. ASSUME NEW m \in Messages, m.type = "eom" PROVE m.body \in 1 .. LastMinute
  BY <1>4 DEF Messages, Reveal, Commit, Buy, EOM
<1>5. ASSUME NEW m \in Messages, m.type = "buy" PROVE m.body \in Payments
  BY <1>5 DEF Messages, Reveal, Commit, Buy, EOM
<1> QED BY <1>2, <1>3, <1>4, <1>5

\* The block that an entry is added to: the open one, or one after the stored ones.
OpenBlock(c) == IF c \in DOMAIN eNext THEN eNext[c] ELSE initEChainFromDB(c)

LEMMA OpenBlockIs ==
    ASSUME Tabled, OpenEBlocks, NEW c \in Chains
    PROVE  IsEBlock(OpenBlock(c)) /\ OpenBlock(c).chain = c
BY ScanLength, MadeEBlock DEF OpenBlock, OpenEBlocks, initEChainFromDB

LEMMA Revealed ==
    ASSUME Tabled, NEW c \in Chains, NEW x \in Contents, buildReveal(Entry(c, x))
    PROVE  /\ SameBut(db', db, {"ENTRY", "CHAIN_HASH"})
           /\ db'.ENTRY = Put(db.ENTRY, EntryHash(Entry(c, x)), MarshalEntry(Entry(c, x)))
           /\ db'.CHAIN_HASH = IF c \in DOMAIN eNext THEN db.CHAIN_HASH
                               ELSE Put(db.CHAIN_HASH, c, MarshalEntry(Entry(c, x)))
           /\ eNext' = Put(eNext, c, AddEBEntry(OpenBlock(c), EntryHash(Entry(c, x))))
           /\ UNCHANGED <<ecNext, aNext>>
<1> DEFINE e == Entry(c, x)
           known == IF c \in DOMAIN eNext THEN db ELSE InsertChain(db, c, e)
<1>1. e.chain = c
  BY DEF Entry
<1>2. /\ db' = InsertEntry(known, e)
      /\ eNext' = Put(eNext, c, AddEBEntry(OpenBlock(c), EntryHash(e))) /\ UNCHANGED <<ecNext, aNext>>
  BY <1>1 DEF buildReveal, OpenBlock
<1>3. IsRecord(db, Tables)
  BY DEF Tabled
<1> HIDE DEF e
<1>4. IsRecord(known, Tables) /\ (\A f \in Tables \ {"CHAIN_HASH"} : known[f] = db[f])
      /\ known.CHAIN_HASH = IF c \in DOMAIN eNext THEN db.CHAIN_HASH
                            ELSE Put(db.CHAIN_HASH, c, MarshalEntry(e))
  <2>1. CASE c \in DOMAIN eNext
    BY <1>3, <2>1
  <2>2. CASE c \notin DOMAIN eNext
    <3>1. known = InsertChain(db, c, e)
      BY <2>2
    <3> HIDE DEF known
    <3> QED BY <1>3, <2>2, <3>1, ChainInserted DEF SameBut
  <2> QED BY <2>1, <2>2
<1> HIDE DEF known
<1>5. SameBut(db', known, {"ENTRY"}) /\ db'.ENTRY = Put(known.ENTRY, EntryHash(e), MarshalEntry(e))
  BY <1>2, <1>4, EntryInserted
<1>6. IsRecord(db', Tables) /\ \A f \in Tables \ {"ENTRY"} : db'[f] = known[f]
  BY <1>5 DEF SameBut
<1>7. SameBut(db', db, {"ENTRY", "CHAIN_HASH"})
  BY <1>4, <1>6 DEF SameBut
<1>8. db'.CHAIN_HASH = known.CHAIN_HASH /\ known.ENTRY = db.ENTRY
  BY <1>4, <1>6 DEF Tables
<1> QED BY <1>2, <1>4, <1>5, <1>7, <1>8 DEF e

LEMMA RevealEngine ==
    ASSUME Tabled, OpenEBlocks, DOMAIN eNext \subseteq Chains,
           NEW c \in Chains, NEW x \in Contents, buildReveal(Entry(c, x))
    PROVE  /\ Tabled' /\ OpenEBlocks'
           /\ DOMAIN eNext \subseteq DOMAIN eNext' /\ DOMAIN eNext' \subseteq Chains
<1> DEFINE h == EntryHash(Entry(c, x))
           u == AddEBEntry(OpenBlock(c), h)
           row == MarshalEntry(Entry(c, x))
<1>1. /\ SameBut(db', db, {"ENTRY", "CHAIN_HASH"}) /\ db'.ENTRY = Put(db.ENTRY, h, row)
      /\ db'.CHAIN_HASH = IF c \in DOMAIN eNext THEN db.CHAIN_HASH ELSE Put(db.CHAIN_HASH, c, row)
      /\ eNext' = Put(eNext, c, u)
  BY Revealed
<1>2. IsEBlock(u) /\ u.chain = c
  BY OpenBlockIs, EntryHashIn, EBEntryAdded DEF EBFields
<1> HIDE DEF u, h, row
<1>3. DOMAIN eNext' = DOMAIN eNext \cup {c} /\ eNext'[c] = u
      /\ \A o \in DOMAIN eNext : o # c => eNext'[o] = eNext[o]
  BY <1>1 DEF Put
<1>4. OpenEBlocks'
  BY <1>2, <1>3 DEF OpenEBlocks
<1>5. Tabled'
  <2>1. IsRecord(db, Tables) /\ (\A f \in Tables : IsFiniteSet(DOMAIN db[f]))
        /\ DOMAIN db.CHAIN_HASH \subseteq Chains /\ (\A k \in DOMAIN db.ENTRY : EntryRow(k))
    BY DEF Tabled
  <2>2. IsRecord(db', Tables) /\ \A f \in Tables \ {"ENTRY", "CHAIN_HASH"} : db'[f] = db[f]
    BY <1>1 DEF SameBut
  <2>3. DOMAIN db'.ENTRY = DOMAIN db.ENTRY \cup {h} /\ db'.ENTRY[h] = row
        /\ \A k \in DOMAIN db.ENTRY : k # h => db'.ENTRY[k] = db.ENTRY[k]
    BY <1>1 DEF Put
  <2>4. IsFiniteSet(DOMAIN db'.ENTRY) /\ IsFiniteSet(DOMAIN db'.CHAIN_HASH)
    <3>1. IsFiniteSet(DOMAIN db.ENTRY) /\ IsFiniteSet(DOMAIN db.CHAIN_HASH)
      BY <2>1 DEF Tables
    <3> QED BY <1>1, <3>1, PutFinite
  <2>5. DOMAIN db'.CHAIN_HASH \subseteq Chains
    BY <1>1, <2>1 DEF Put
  <2>6. \A k \in DOMAIN db'.ENTRY : EntryRow(k)'
    <3>1. SUFFICES ASSUME NEW k \in DOMAIN db'.ENTRY PROVE EntryRow(k)'
      OBVIOUS
    <3>2. CASE k = h
      BY <2>3, <3>2 DEF EntryRow, h, row
    <3>3. CASE k # h
      BY <2>1, <2>3, <3>3 DEF EntryRow
    <3> QED BY <3>2, <3>3
  <2> QED BY <2>1, <2>2, <2>4, <2>5, <2>6 DEF Tabled
<1> QED BY <1>3, <1>4, <1>5

LEMMA EOMEngine ==
    ASSUME OpenEBlocks, NEW m \in 1 .. LastMinute, buildEndOfMinute(m)
    PROVE  OpenEBlocks' /\ DOMAIN eNext' = DOMAIN eNext /\ db' = db
<1>1. /\ eNext' = [c \in DOMAIN eNext |-> IF Touched(eNext[c]) THEN AddEBEntry(eNext[c], MinuteMarker(m))
                                           ELSE eNext[c]]
      /\ db' = db
  BY DEF buildEndOfMinute
<1>2. MinuteMarker(m) \in EBHashes
  BY DEF EBHashes, Markings
<1>3. ASSUME NEW c \in DOMAIN eNext PROVE IsEBlock(eNext'[c]) /\ eNext'[c].chain = c
  <2>1. IsEBlock(eNext[c]) /\ eNext[c].chain = c
    BY DEF OpenEBlocks
  <2>2. eNext'[c] \in {eNext[c], AddEBEntry(eNext[c], MinuteMarker(m))}
    BY <1>1
  <2> QED BY <1>2, <2>1, <2>2, EBEntryAdded DEF EBFields
<1> QED BY <1>1, <1>3 DEF OpenEBlocks

LEMMA ListEngine == ASSUME Engine, buildFromProcessList PROVE Engine'
<1> DEFINE m == Head(plist)
<1>1. /\ pc = "build" /\ plist # <<>> /\ plist' = Tail(plist)
      /\ pc' = (IF Len(plist) = 1 THEN "ec" ELSE pc)
      /\ UNCHANGED <<dbLock, lastDirBlkHeight, minute, todo, fNext, dNext, sealed>>
  BY DEF buildFromProcessList
<1>2. \/ m.type = "reveal" /\ buildReveal(UnmarshalEntry(m.body))
      \/ m.type = "eom" /\ buildEndOfMinute(m.body)
      \/ UNCHANGED <<db, eNext>>
  BY DEF buildFromProcessList, buildCommit, buildIncreaseBalance
<1>3. Control /\ Tabled /\ OpenEBlocks
  BY DEF Engine
<1>4. /\ Tail(plist) \in Seq(Messages)
      /\ m.type = "reveal" => \E c \in Chains, x \in Contents : UnmarshalEntry(m.body) = Entry(c, x)
      /\ m.type = "eom" => m.body \in 1 .. LastMinute
  BY <1>1, <1>3, NextMessage
<1> HIDE DEF m
<1>5. DOMAIN eNext \subseteq Chains
  BY <1>3 DEF Control
<1>6. /\ Tabled' /\ OpenEBlocks'
      /\ DOMAIN eNext \subseteq DOMAIN eNext' /\ DOMAIN eNext' \subseteq Chains
  <2>1. CASE m.type = "reveal" /\ buildReveal(UnmarshalEntry(m.body))
    <3>1. PICK c \in Chains, x \in Contents : UnmarshalEntry(m.body) = Entry(c, x)
      BY <1>4, <2>1
    <3>2. buildReveal(Entry(c, x))
      BY <2>1, <3>1
    <3> QED BY <1>3, <1>5, <3>2, RevealEngine
  <2>2. CASE m.type = "eom" /\ buildEndOfMinute(m.body)
    <3>1. OpenEBlocks' /\ DOMAIN eNext' = DOMAIN eNext /\ db' = db
      BY <1>3, <1>4, <2>2, EOMEngine
    <3>2. Tabled'
      BY <1>3, <3>1 DEF Tabled, EntryRow
    <3> QED BY <1>5, <3>1, <3>2
  <2>3. CASE UNCHANGED <<db, eNext>>
    BY <1>3, <1>5, <2>3 DEF Tabled, EntryRow, OpenEBlocks
  <2> QED BY <1>2, <2>1, <2>2, <2>3
<1>7. Control'
  BY <1>1, <1>3, <1>4, <1>6 DEF Control, Height, Points
<1> QED BY <1>6, <1>7 DEF Engine

\* The directory block under construction gets one entry more.
LEMMA DBEntrySet ==
    ASSUME NEW d, IsRecord(d, DBFields), NEW s, NEW u, u = [d EXCEPT !.entries = s]
    PROVE  IsRecord(u, DBFields) /\ u.entries = s
           /\ \A f \in DBFields \ {"entries"} : u[f] = d[f]
<1>1. d = [f \in DBFields |-> d[f]] /\ DOMAIN d = DBFields
  BY DEF IsRecord
<1> QED BY ONLY <1>1, u = [d EXCEPT !.entries = s] DEF IsRecord, DBFields

LEMMA TabledKept ==
    ASSUME Tabled, NEW N, SameBut(db', db, N), "ENTRY" \notin N, "CHAIN_HASH" \notin N,
           \A f \in N : \E k, r : db'[f] = Put(db[f], k, r)
    PROVE  Tabled'
<1>1. IsRecord(db, Tables) /\ (\A f \in Tables : IsFiniteSet(DOMAIN db[f]))
      /\ DOMAIN db.CHAIN_HASH \subseteq Chains /\ (\A k \in DOMAIN db.ENTRY : EntryRow(k))
  BY DEF Tabled
<1>2. IsRecord(db', Tables) /\ \A f \in Tables \ N : db'[f] = db[f]
  BY DEF SameBut
<1>3. ASSUME NEW f \in Tables PROVE IsFiniteSet(DOMAIN db'[f])
  <2>1. CASE f \in N
    <3>1. PICK k, r : db'[f] = Put(db[f], k, r)
      BY <2>1
    <3> QED BY <1>1, <3>1, PutFinite
  <2>2. CASE f \notin N
    BY <1>1, <1>2, <2>2
  <2> QED BY <2>1, <2>2
<1>4. db'.ENTRY = db.ENTRY /\ db'.CHAIN_HASH = db.CHAIN_HASH
  BY <1>2 DEF Tables
<1> QED BY <1>1, <1>2, <1>3, <1>4 DEF Tabled, EntryRow

\* The directory block that is built, with an entry of its list set, or one more.
WithEntry(d, i, e) == [d EXCEPT !.entries = [d.entries EXCEPT ![i] = e]]
WithMore(d, e)     == [d EXCEPT !.entries = Append(d.entries, e)]

\* What the steps that seal a block leave alone.
LEMMA ECBlockSealed ==
    ASSUME Tabled, newEntryCreditBlock, NEW block, block = BuildECBlockHeader(ecNext)
    PROVE  /\ pc = "ec" /\ pc' = "admin" /\ UNCHANGED <<todo, eNext, aNext, fNext>> /\ KeepInSealing
           /\ ecNext' = AddECEntry(NextECBlock(block), MarkerOf("server", 0))
           /\ db' = ProcessECBlockBatch(db, block) /\ Tabled'
           /\ dNext' = WithEntry(dNext, 2, DBEntry(SystemChain("ec"), HeaderHash(block)))
<1>1. /\ pc = "ec" /\ pc' = "admin" /\ UNCHANGED <<todo, eNext, aNext, fNext>> /\ KeepInSealing
      /\ ecNext' = AddECEntry(NextECBlock(block), MarkerOf("server", 0))
      /\ db' = ProcessECBlockBatch(db, block)
      /\ dNext' = WithEntry(dNext, 2, DBEntry(SystemChain("ec"), HeaderHash(block)))
  BY DEF newEntryCreditBlock, WithEntry
<1>2. IsRecord(db, Tables)
  BY DEF Tabled
<1> DEFINE N == {"CB", "CB_NUM", "CHAIN_HEAD"}
<1>3. SameBut(db', db, N) /\ \A f \in N : \E k, r : db'[f] = Put(db[f], k, r)
  BY <1>1, <1>2, ECBlockBatch
<1>4. Tabled'
  BY <1>3, TabledKept
<1> QED BY <1>1, <1>4

LEMMA ABlockSealed ==
    ASSUME Tabled, newAdminBlock, NEW block, block = SealAdminBlock(aNext)
    PROVE  /\ pc = "admin" /\ pc' = "fct" /\ UNCHANGED <<todo, eNext, ecNext, fNext>> /\ KeepInSealing
           /\ aNext' = CreateAdminBlock(block.height + 1, block.full)
           /\ db' = ProcessABlockBatch(db, block) /\ Tabled'
           /\ dNext' = WithEntry(dNext, 1, DBEntry(SystemChain("admin"), block.partial))
<1>1. /\ pc = "admin" /\ pc' = "fct" /\ UNCHANGED <<todo, eNext, ecNext, fNext>> /\ KeepInSealing
      /\ aNext' = CreateAdminBlock(block.height + 1, block.full)
      /\ db' = ProcessABlockBatch(db, block)
      /\ dNext' = WithEntry(dNext, 1, DBEntry(SystemChain("admin"), block.partial))
  BY DEF newAdminBlock, WithEntry
<1>2. IsRecord(db, Tables)
  BY DEF Tabled
<1> DEFINE N == {"AB", "AB_NUM", "CHAIN_HEAD"}
<1>3. SameBut(db', db, N) /\ \A f \in N : \E k, r : db'[f] = Put(db[f], k, r)
  BY <1>1, <1>2, ABlockBatch
<1>4. Tabled'
  BY <1>3, TabledKept
<1> QED BY <1>1, <1>4

LEMMA FBlockSealed ==
    ASSUME Tabled, newFactoidBlock
    PROVE  /\ pc = "fct" /\ pc' = "entry" /\ todo' = DOMAIN eNext
           /\ UNCHANGED <<eNext, ecNext, aNext>> /\ KeepInSealing
           /\ fNext' = <<FBlockHash(fNext), Num(Height + 1)>>
           /\ db' = ProcessFBlockBatch(db, fNext) /\ Tabled'
           /\ dNext' = WithEntry(dNext, 3, DBEntry(SystemChain("factoid"), FBlockHash(fNext)))
<1>1. /\ pc = "fct" /\ pc' = "entry" /\ todo' = DOMAIN eNext
      /\ UNCHANGED <<eNext, ecNext, aNext>> /\ KeepInSealing
      /\ fNext' = <<FBlockHash(fNext), Num(Height + 1)>>
      /\ db' = ProcessFBlockBatch(db, fNext)
      /\ dNext' = WithEntry(dNext, 3, DBEntry(SystemChain("factoid"), FBlockHash(fNext)))
  BY DEF newFactoidBlock, WithEntry
<1>2. IsRecord(db, Tables)
  BY DEF Tabled
<1> DEFINE N == {"SC", "SC_NUM", "CHAIN_HEAD"}
<1>3. SameBut(db', db, N) /\ \A f \in N : \E k, r : db'[f] = Put(db[f], k, r)
  BY <1>1, <1>2, FBlockBatch
<1>4. Tabled'
  BY <1>3, TabledKept
<1> QED BY <1>1, <1>4

\* An entry block is sealed, or the chain is passed.
EBSealed(c) == [eNext[c] EXCEPT !.height = Height]

EBPassed(c) == eNext[c].entries = <<>> /\ UNCHANGED <<db, dNext, eNext>>

EBStored(c) ==
    /\ eNext[c].entries # <<>> /\ IsEBlock(EBSealed(c)) /\ EBSealed(c).height = Height
    /\ \A f \in EBFields \ {"height"} : EBSealed(c)[f] = eNext[c][f]
    /\ eNext' = [eNext EXCEPT ![c] = MakeEBlock(c, EBSealed(c).seq + 1, EBSealed(c))]
    /\ db' = ProcessEBlockBatch(db, EBSealed(c))
    /\ dNext' = WithMore(dNext, DBEntry(Chain(EBSealed(c).chain), EBlockKeyMR(EBSealed(c))))

LEMMA EBlockSealed ==
    ASSUME Engine, newEntryBlock
    PROVE  /\ pc = "entry" /\ UNCHANGED <<pc, ecNext, aNext, fNext>> /\ KeepInSealing /\ Tabled'
           /\ \E c \in todo : todo' = todo \ {c} /\ (EBPassed(c) \/ EBStored(c))
<1>1. pc = "entry" /\ UNCHANGED <<pc, ecNext, aNext, fNext>> /\ KeepInSealing
  BY DEF newEntryBlock
<1>2. PICK c \in todo :
        /\ todo' = todo \ {c}
        /\ LET block == [eNext[c] EXCEPT !.height = Height] IN
            IF block.entries = <<>> THEN UNCHANGED <<db, dNext, eNext>>
            ELSE /\ eNext' = [eNext EXCEPT ![c] = MakeEBlock(c, block.seq + 1, block)]
                 /\ db' = ProcessEBlockBatch(db, block)
                 /\ dNext' = AddEBlockToDBEntry(dNext, block)
  BY DEF newEntryBlock
<1>3. IsEBlock(eNext[c]) /\ Height \in Nat /\ Tabled
  BY DEF Engine, OpenEBlocks, Control
<1> DEFINE block == [eNext[c] EXCEPT !.height = Height]
<1>4. /\ IsEBlock(block) /\ block.height = Height
      /\ \A f \in EBFields \ {"height"} : block[f] = eNext[c][f]
  BY <1>3, EBHeightSet
<1>5. block.entries = eNext[c].entries
  BY <1>4 DEF EBFields
<1>6. EBSealed(c) = block
  BY DEF EBSealed
<1>7. IF block.entries = <<>> THEN UNCHANGED <<db, dNext, eNext>>
      ELSE /\ eNext' = [eNext EXCEPT ![c] = MakeEBlock(c, block.seq + 1, block)]
           /\ db' = ProcessEBlockBatch(db, block)
           /\ dNext' = AddEBlockToDBEntry(dNext, block)
  BY <1>2
<1> HIDE DEF block
<1>8. EBPassed(c) \/ EBStored(c)
  BY <1>4, <1>5, <1>6, <1>7 DEF EBPassed, EBStored, AddEBlockToDBEntry, WithMore
<1>9. Tabled'
  <2>1. CASE block.entries = <<>>
    BY <1>3, <1>7, <2>1 DEF Tabled, EntryRow
  <2>2. CASE block.entries # <<>>
    <3> DEFINE N == {"EB", "EB_MR", "EB_CHAIN_NUM", "CHAIN_HEAD"}
    <3>1. IsRecord(db, Tables)
      BY <1>3 DEF Tabled
    <3>2. SameBut(db', db, N) /\ \A f \in N : \E k, r : db'[f] = Put(db[f], k, r)
      BY <1>7, <2>2, <3>1, EBlockBatch
    <3> QED BY <1>3, <3>2, TabledKept
  <2> QED BY <2>1, <2>2
<1> QED BY <1>1, <1>2, <1>8, <1>9

DEntrySet == \E i, e : dNext' = WithEntry(dNext, i, e)

LEMMA SealingEngine ==
    ASSUME Engine, newEntryCreditBlock \/ newAdminBlock \/ newFactoidBlock PROVE Engine'
<1>1. /\ pc \in {"ec", "admin", "fct"} /\ pc' \in {"admin", "fct", "entry"} /\ KeepInSealing
      /\ UNCHANGED eNext /\ Tabled' /\ (todo' = todo \/ (pc' = "entry" /\ todo' = DOMAIN eNext))
      /\ (pc' = "entry" => pc = "fct")
      /\ DEntrySet
  <2>0. Tabled
    BY DEF Engine
  <2>1. CASE newEntryCreditBlock
    <3>1. PICK b : b = BuildECBlockHeader(ecNext)
      OBVIOUS
    <3>2. /\ pc = "ec" /\ pc' = "admin" /\ UNCHANGED <<todo, eNext, aNext, fNext>> /\ KeepInSealing
          /\ Tabled'
          /\ dNext' = WithEntry(dNext, 2, DBEntry(SystemChain("ec"), HeaderHash(b)))
      <4>1. \A v : v = BuildECBlockHeader(ecNext) =>
              /\ pc = "ec" /\ pc' = "admin" /\ UNCHANGED <<todo, eNext, aNext, fNext>> /\ KeepInSealing
              /\ Tabled'
              /\ dNext' = WithEntry(dNext, 2, DBEntry(SystemChain("ec"), HeaderHash(v)))
        BY <2>0, <2>1, ECBlockSealed
      <4> QED BY <3>1, <4>1
    <3>3. DEntrySet
      BY <3>2 DEF DEntrySet
    <3> QED BY <3>2, <3>3
  <2>2. CASE newAdminBlock
    <3>1. PICK b : b = SealAdminBlock(aNext)
      OBVIOUS
    <3>2. /\ pc = "admin" /\ pc' = "fct" /\ UNCHANGED <<todo, eNext, ecNext, fNext>> /\ KeepInSealing
          /\ Tabled'
          /\ dNext' = WithEntry(dNext, 1, DBEntry(SystemChain("admin"), b.partial))
      <4>1. \A v : v = SealAdminBlock(aNext) =>
              /\ pc = "admin" /\ pc' = "fct" /\ UNCHANGED <<todo, eNext, ecNext, fNext>> /\ KeepInSealing
              /\ Tabled'
              /\ dNext' = WithEntry(dNext, 1, DBEntry(SystemChain("admin"), v.partial))
        BY <2>0, <2>2, ABlockSealed
      <4> QED BY <3>1, <4>1
    <3>3. DEntrySet
      BY <3>2 DEF DEntrySet
    <3> QED BY <3>2, <3>3
  <2>3. CASE newFactoidBlock
    <3>2. /\ pc = "fct" /\ pc' = "entry" /\ todo' = DOMAIN eNext
          /\ UNCHANGED <<eNext, ecNext, aNext>> /\ KeepInSealing /\ Tabled'
          /\ dNext' = WithEntry(dNext, 3, DBEntry(SystemChain("factoid"), FBlockHash(fNext)))
      BY <2>0, <2>3, FBlockSealed
    <3>3. DEntrySet
      BY <3>2 DEF DEntrySet
    <3> QED BY <3>2, <3>3
  <2> QED BY <2>1, <2>2, <2>3
<1>2. IsRecord(dNext', DBFields) /\ dNext'.height = dNext.height
  <2>1. IsRecord(dNext, DBFields)
    BY DEF Engine, Control
  <2>2. PICK i, e : dNext' = WithEntry(dNext, i, e)
    BY <1>1 DEF DEntrySet
  <2> DEFINE s == [dNext.entries EXCEPT ![i] = e]
             u == [dNext EXCEPT !.entries = s]
  <2> HIDE DEF s
  <2>3. IsRecord(u, DBFields) /\ \A f \in DBFields \ {"entries"} : u[f] = dNext[f]
    <3>1. \A v, t, w : IsRecord(v, DBFields) /\ w = [v EXCEPT !.entries = t]
             => IsRecord(w, DBFields) /\ \A f \in DBFields \ {"entries"} : w[f] = v[f]
      BY DBEntrySet
    <3> QED BY <2>1, <3>1
  <2>4. dNext' = u
    BY <2>2 DEF s, WithEntry
  <2> HIDE DEF u
  <2> QED BY <2>3, <2>4 DEF DBFields
<1>3. UNCHANGED <<dbLock, lastDirBlkHeight, plist, minute, sealed>>
  BY <1>1 DEF KeepInSealing
<1>4. Control'
  BY <1>1, <1>2, <1>3 DEF Engine, Control, Height, Points
<1>5. OpenEBlocks'
  BY <1>1 DEF Engine, OpenEBlocks
<1> QED BY <1>1, <1>4, <1>5 DEF Engine

LEMMA PassEngine == ASSUME Engine, newEntryBlock PROVE Engine'
<1>1. /\ pc = "entry" /\ UNCHANGED <<pc, ecNext, aNext, fNext>> /\ KeepInSealing /\ Tabled'
      /\ \E c \in todo : todo' = todo \ {c} /\ (EBPassed(c) \/ EBStored(c))
  BY EBlockSealed
<1>2. PICK c \in todo : todo' = todo \ {c} /\ (EBPassed(c) \/ EBStored(c))
  BY <1>1
<1>3. Control /\ OpenEBlocks /\ c \in DOMAIN eNext /\ c \in Chains
  BY DEF Engine, Control
<1>4. UNCHANGED <<dbLock, lastDirBlkHeight, plist, minute, sealed>>
  BY <1>1 DEF KeepInSealing
<1>5. /\ IsRecord(dNext', DBFields) /\ dNext'.height = dNext.height
      /\ DOMAIN eNext' = DOMAIN eNext /\ OpenEBlocks'
  <2>1. CASE EBPassed(c)
    BY <1>3, <2>1 DEF EBPassed, Control, OpenEBlocks
  <2>2. CASE EBStored(c)
    <3> DEFINE block == EBSealed(c)
               s == Append(dNext.entries, DBEntry(Chain(block.chain), EBlockKeyMR(block)))
               d == [dNext EXCEPT !.entries = s]
               n == MakeEBlock(c, block.seq + 1, block)
    <3>1. dNext' = d /\ IsEBlock(block) /\ eNext' = [eNext EXCEPT ![c] = n]
        BY <2>2 DEF EBStored, WithMore
    <3>2. IsRecord(dNext, DBFields)
      BY <1>3 DEF Control
    <3> HIDE DEF s, block
    <3>3. IsRecord(d, DBFields) /\ \A f \in DBFields \ {"entries"} : d[f] = dNext[f]
      <4>1. \A v, t, u : IsRecord(v, DBFields) /\ u = [v EXCEPT !.entries = t]
               => IsRecord(u, DBFields) /\ \A f \in DBFields \ {"entries"} : u[f] = v[f]
        BY DBEntrySet
      <4> QED BY <3>2, <4>1
    <3>4. IsEBlock(n) /\ n.chain = c
      <4>1. block.seq + 1 \in Nat
        BY <3>1 DEF IsEBlock
      <4> QED BY <1>3, <4>1, MadeEBlock
    <3> HIDE DEF n, d
    <3>5. OpenEBlocks'
      BY <1>3, <3>1, <3>4 DEF OpenEBlocks
    <3> QED BY <3>1, <3>3, <3>5 DEF DBFields
  <2> QED BY <1>2, <2>1, <2>2
<1>6. Control'
  BY <1>1, <1>2, <1>3, <1>4, <1>5 DEF Control, Height
<1> QED BY <1>1, <1>5, <1>6 DEF Engine

\* The sealed directory block.
LEMMA SealedDBlock ==
    ASSUME NEW d, IsRecord(d, DBFields), NEW u, u = SealDirectoryBlock(d)
    PROVE  /\ IsRecord(u, DBFields) /\ u.count = Len(d.entries) /\ u.bodyMR = BuildBodyMR(d)
           /\ \A f \in DBFields \ {"count", "bodyMR"} : u[f] = d[f]
           /\ BuildBodyMR(u) = BuildBodyMR(d)
<1>1. d = [f \in DBFields |-> d[f]] /\ DOMAIN d = DBFields
  BY DEF IsRecord
<1> DEFINE x == Len(d.entries)
           y == BuildBodyMR(d)
<1>2. u = [d EXCEPT !.count = x, !.bodyMR = y]
  BY DEF SealDirectoryBlock
<1> HIDE DEF x, y
<1>3. /\ IsRecord(u, DBFields) /\ u.count = x /\ u.bodyMR = y
      /\ \A f \in DBFields \ {"count", "bodyMR"} : u[f] = d[f]
  BY ONLY <1>1, <1>2 DEF IsRecord, DBFields
<1>4. u.entries = d.entries
  BY <1>3 DEF DBFields
<1>5. BuildBodyMR(u) = BuildBodyMR(d)
  BY <1>4 DEF BuildBodyMR
<1> QED BY <1>3, <1>5 DEF x, y

LEMMA DirectoryEngine == ASSUME Engine, newDirectoryBlock PROVE Engine'
<1> DEFINE block == SealDirectoryBlock(dNext)
           n == block.height + 1
           p == BuildKeyMerkleRoot(block)
           q == DBlockHash(block)
<1>1. /\ pc = "entry" /\ todo = {} /\ sealed' = block /\ lastDirBlkHeight' = block.height
      /\ IsSetOut(dNext', n, p, q, Timestamp(n), Placeholders)
      /\ dbLock' = TRUE /\ pc' = "dir" /\ UNCHANGED <<db, plist, minute, todo, eNext>>
  BY DEF newDirectoryBlock, IsSetOut
<1>2. IsRecord(dNext, DBFields) /\ dNext.height \in Nat
  BY DEF Engine, Control, Height
<1>3. IsRecord(block, DBFields) /\ block.height = dNext.height
  BY <1>2, SealedDBlock DEF DBFields
<1> HIDE DEF block
<1>4. IsRecord(dNext', DBFields) /\ dNext'.height = n
  <2>1. \A v, m, r, s, x, y : IsSetOut(v, m, r, s, x, y) => IsRecord(v, DBFields) /\ v.height = m
    BY SetOutDBlock
  <2> QED BY <1>1, <2>1
<1>5. block # Nil
  BY <1>3 DEF IsRecord, DBFields, Nil
<1>6. Control'
  BY <1>1, <1>2, <1>3, <1>4, <1>5 DEF Engine, Control, Height, Points
<1>7. Tabled' /\ OpenEBlocks'
  BY <1>1 DEF Engine, Tabled, EntryRow, OpenEBlocks
<1> QED BY <1>6, <1>7 DEF Engine

LEMMA WrittenTables ==
    ASSUME Tabled, WriteDirectoryBlock PROVE Tabled'
<1> DEFINE N == {"DB", "DB_NUM", "DB_MR", "CHAIN_HEAD"}
<1>1. db' = ProcessDBlockBatch(db, sealed)
  BY DEF WriteDirectoryBlock
<1>2. IsRecord(db, Tables)
  BY DEF Tabled
<1>3. SameBut(db', db, N) /\ \A f \in N : \E k, r : db'[f] = Put(db[f], k, r)
  BY <1>1, <1>2, DBlockBatch
<1> QED BY <1>3, TabledKept

LEMMA WriteEngine == ASSUME Engine, WriteDirectoryBlock PROVE Engine'
<1>1. /\ pc = "dir" /\ dbLock' = FALSE /\ sealed' = Nil /\ pc' = "serve"
      /\ UNCHANGED <<lastDirBlkHeight, plist, minute, todo, eNext, dNext>>
  BY DEF WriteDirectoryBlock
<1>2. Tabled'
  BY WrittenTables DEF Engine
<1>3. Control' /\ OpenEBlocks'
  BY <1>1 DEF Engine, Control, Height, Points, OpenEBlocks
<1> QED BY <1>2, <1>3 DEF Engine

LEMMA EngineKept ==
    ASSUME Engine, UNCHANGED <<store, engine>> PROVE Engine'
BY DEF Engine, Control, Height, Tabled, EntryRow, OpenEBlocks, store, engine, open

LEMMA InitEngine == ASSUME Init PROVE Engine
<1>1. /\ db = NewDB /\ dbLock = FALSE /\ lastDirBlkHeight = -1
      /\ pc = "init" /\ plist = <<>> /\ minute = 1 /\ todo = {}
      /\ eNext = <<>> /\ dNext = CreateDBlock(0, NewHash, NewHash) /\ sealed = Nil
  BY DEF Init, Empty
<1>2. IsRecord(dNext, DBFields) /\ dNext.height = 0
  BY <1>1 DEF CreateDBlock, IsRecord, DBFields
<1>3. DOMAIN eNext = {} /\ plist \in Seq(Messages)
  BY <1>1
<1>4. Control
  <2>1. minute \in 1 .. LastMinute /\ lastDirBlkHeight \in {-1, Height - 1} /\ Height \in Nat
    BY <1>1, <1>2, WebAssumption DEF Height
  <2>2. pc \in Points /\ (dbLock <=> pc = "dir") /\ (sealed # Nil <=> pc = "dir")
    BY <1>1 DEF Points
  <2>3. todo \subseteq DOMAIN eNext /\ DOMAIN eNext \subseteq Chains /\ dbLock \in BOOLEAN
    BY <1>1, <1>3
  <2> QED BY <1>1, <1>2, <1>3, <2>1, <2>2, <2>3 DEF Control
<1>5. IsRecord(db, Tables) /\ \A f \in Tables : DOMAIN db[f] = {}
  BY <1>1, NewDBIs
<1>6. DOMAIN db.CHAIN_HASH = {} /\ DOMAIN db.ENTRY = {}
  BY <1>5 DEF Tables
<1>7. Tabled /\ OpenEBlocks
  BY <1>3, <1>5, <1>6, FS_EmptySet DEF Tabled, OpenEBlocks
<1> QED BY <1>4, <1>7 DEF Engine

LEMMA NextEngine == ASSUME Engine, [Next]_vars PROVE Engine'
<1>1. CASE Start
  BY <1>1, StartEngine
<1>2. CASE Restart
  BY <1>2, RestartEngine
<1>3. CASE EndOfMinute
  BY <1>3, MinuteEngine
<1>4. CASE Build
  BY <1>4, ListEngine, SealingEngine, PassEngine, DirectoryEngine, WriteEngine DEF Build
<1>5. ASSUME NEW t \in Payments, NEW c \in Chains, NEW x \in Contents, Post(Paid(t, c, x))
      PROVE  Engine'
  BY <1>5, PostEngine, PostedMessages
<1>6. CASE Requests \/ Reads
  BY <1>6, ReadsKeep, EngineKept
<1>7. CASE UNCHANGED vars
  BY <1>7, EngineKept DEF vars
<1> QED BY <1>1, <1>2, <1>3, <1>4, <1>5, <1>6, <1>7 DEF Next

LEMMA AlwaysEngine == Spec => []Engine
<1> QED BY InitEngine, NextEngine, PTL DEF Spec

\* The KeyMR of an entry block that is about to be stored belongs to no other
\* list of hashes and markers (eblock.go, merkle.go).
THEOREM KeyMRsCommit == Spec => []KeyMRCommits
<1>1. ASSUME Engine PROVE KeyMRCommits
  <2> SUFFICES ASSUME pc = "entry", NEW c \in todo, eNext[c].entries # <<>>,
                      NEW s \in OtherBodies(eNext[c].entries)
               PROVE  EBlockKeyMR([eNext[c] EXCEPT !.entries = s]) # EBlockKeyMR(eNext[c])
    BY DEF KeyMRCommits
  <2> DEFINE b == eNext[c]
             u == [b EXCEPT !.entries = s]
  <2>1. IsEBlock(b)
    BY <1>1 DEF Engine, Control, OpenEBlocks
  <2>2. ToSet(b.entries) \subseteq EBHashes /\ Len(b.entries) \in Nat
    BY <2>1 DEF IsEBlock, ToSet
  <2>3. s \in Seq(EBHashes) /\ s # <<>> /\ s # b.entries
    <3>1. s # b.entries
      BY DEF OtherBodies
    <3>2. PICK n \in 1 .. (Len(b.entries) + 1) : s \in [1 .. n -> ToSet(b.entries)]
      BY DEF OtherBodies
    <3> QED BY <2>2, <3>1, <3>2
  <2>4. IsEBlock(u) /\ u.entries = s
    <3>1. b = [f \in EBFields |-> b[f]] /\ DOMAIN b = EBFields
      BY <2>1 DEF IsEBlock, IsRecord
    <3> QED BY <2>1, <2>3, <3>1 DEF IsEBlock, IsRecord, EBFields
  <2> HIDE DEF b, u
  <2>5. EBlockKeyMR(u) # EBlockKeyMR(b)
    BY <2>1, <2>3, <2>4, EBKeyMRCommits DEF b
  <2> QED BY <2>5 DEF b, u
<1> QED BY <1>1, AlwaysEngine, PTL

----------------------------------------------------------------------------
\* Stored entry credit blocks.  The first n of them are found by their heights,
\* each with its own hash as key, and each names the one before it.

ECRowIs(t, k, h) ==
    LET b == UnmarshalECBlock(t[k])
    IN  /\ IsECBlock(b) /\ b = BuildECBlockHeader(b) /\ b.height = h
        /\ k = HeaderHash(b) /\ t[k] = MarshalECBlock(b)

ECLinked(b, t, num) ==
    IF b.height = 0 THEN b.prevHeaderHash = NewHash
    ELSE /\ b.prevHeaderHash = num[b.height - 1]
         /\ b.prevLedgerKeyMR = Sha("ecblock", t[num[b.height - 1]])

ECChain(t, num, n) ==
    /\ n \in Nat /\ DOMAIN num = 0 .. (n - 1) /\ DOMAIN t = {num[h] : h \in 0 .. (n - 1)}
    /\ \A h \in 0 .. (n - 1) :
        ECRowIs(t, num[h], h) /\ ECLinked(UnmarshalECBlock(t[num[h]]), t, num)

\* The block that will follow the n stored ones.
ECOpen(b, t, num, n) == IsECBlock(b) /\ b.height = n /\ ECLinked(b, t, num)

\* The header's hash tells the height.
LEMMA ECHashTellsHeight ==
    ASSUME NEW b, NEW c, HeaderHash(b) = HeaderHash(c) PROVE b.height = c.height
<1>1. ECBlockHeader(b) = ECBlockHeader(c)
  BY DEF HeaderHash, Sha
<1>2. ECBlockHeader(b)[4] = Num(b.height) /\ ECBlockHeader(c)[4] = Num(c.height)
  BY DEF ECBlockHeader
<1> QED BY <1>1, <1>2 DEF Num

LEMMA ECRowStored ==
    ASSUME NEW b, IsECBlock(b), NEW t, NEW k, k = HeaderHash(BuildECBlockHeader(b)),
           t[k] = MarshalECBlock(b)
    PROVE  ECRowIs(t, k, b.height) /\ UnmarshalECBlock(t[k]) = BuildECBlockHeader(b)
<1> DEFINE u == BuildECBlockHeader(b)
<1>1. UnmarshalECBlock(t[k]) = u
  BY ECBlockReadsBack
<1>2. IsECBlock(u) /\ BuildECBlockHeader(u) = u /\ MarshalECBlock(u) = MarshalECBlock(b)
      /\ u.height = b.height
  BY ECBuilt
<1> QED BY <1>1, <1>2 DEF ECRowIs

LEMMA ECChainGrows ==
    ASSUME NEW t, NEW num, NEW n, ECChain(t, num, n), NEW b, ECOpen(b, t, num, n),
           NEW k, k = HeaderHash(BuildECBlockHeader(b)),
           NEW u, u = Put(t, k, MarshalECBlock(b)), NEW m, m = Put(num, n, k)
    PROVE  ECChain(u, m, n + 1) /\ m[n] = k /\ u[k] = MarshalECBlock(b)
<1>1. /\ n \in Nat /\ DOMAIN num = 0 .. (n - 1) /\ DOMAIN t = {num[h] : h \in 0 .. (n - 1)}
      /\ \A h \in 0 .. (n - 1) :
           ECRowIs(t, num[h], h) /\ ECLinked(UnmarshalECBlock(t[num[h]]), t, num)
  BY DEF ECChain
<1>2. IsECBlock(b) /\ b.height = n /\ ECLinked(b, t, num)
  BY DEF ECOpen
<1>3. DOMAIN u = DOMAIN t \cup {k} /\ u[k] = MarshalECBlock(b)
      /\ \A x \in DOMAIN t : x # k => u[x] = t[x]
  BY DEF Put
<1>4. DOMAIN m = 0 .. n /\ m[n] = k /\ \A h \in 0 .. (n - 1) : m[h] = num[h]
  BY <1>1 DEF Put
<1>5. \A h \in 0 .. (n - 1) : num[h] # k
  <2>1. SUFFICES ASSUME NEW h \in 0 .. (n - 1), num[h] = k PROVE FALSE
    OBVIOUS
  <2>2. PICK c : k = HeaderHash(c) /\ c.height = h
    BY <1>1, <2>1 DEF ECRowIs
  <2>3. PICK v : v = BuildECBlockHeader(b)
    OBVIOUS
  <2>4. v.height = n
    BY <1>2, <2>3, ECBuilt
  <2>5. HeaderHash(c) = HeaderHash(v)
    BY <2>2, <2>3
  <2>6. h = n
    BY <2>2, <2>4, <2>5, ECHashTellsHeight
  <2> QED BY <1>1, <2>6
<1>6. \A h \in 0 .. (n - 1) : u[m[h]] = t[num[h]] /\ m[h] = num[h]
  BY <1>1, <1>3, <1>4, <1>5
<1>7. ASSUME NEW h \in 0 .. (n - 1)
      PROVE  ECRowIs(u, m[h], h) /\ ECLinked(UnmarshalECBlock(u[m[h]]), u, m)
  <2> DEFINE c == UnmarshalECBlock(t[num[h]])
  <2>1. ECRowIs(t, num[h], h) /\ ECLinked(c, t, num) /\ c.height = h
    BY <1>1 DEF ECRowIs
  <2>2. ECRowIs(u, m[h], h)
    BY <1>6, <2>1 DEF ECRowIs
  <2>3. UnmarshalECBlock(u[m[h]]) = c
    BY <1>6
  <2> HIDE DEF c
  <2>4. h # 0 => h - 1 \in 0 .. (n - 1)
    BY <1>1
  <2>5. ECLinked(c, u, m)
    BY <1>6, <2>1, <2>4 DEF ECLinked
  <2> QED BY <2>2, <2>3, <2>5
<1>8. ECRowIs(u, m[n], n) /\ ECLinked(UnmarshalECBlock(u[m[n]]), u, m)
  <2> DEFINE c == BuildECBlockHeader(b)
  <2>1. ECRowIs(u, k, n) /\ UnmarshalECBlock(u[k]) = c
    BY <1>2, <1>3, ECRowStored
  <2>2. c.height = n /\ c.prevHeaderHash = b.prevHeaderHash /\ c.prevLedgerKeyMR = b.prevLedgerKeyMR
    BY <1>2, ECBuilt
  <2> HIDE DEF c
  <2>3. n # 0 => n - 1 \in 0 .. (n - 1)
    BY <1>1
  <2>4. ECLinked(c, u, m)
    BY <1>2, <1>6, <2>2, <2>3 DEF ECLinked
  <2> QED BY <1>4, <2>1, <2>4
<1>9. DOMAIN u = {m[h] : h \in 0 .. n} /\ 0 .. n = 0 .. (n - 1) \cup {n}
  BY <1>1, <1>3, <1>4
<1>10. (n + 1) \in Nat /\ (n + 1) - 1 = n
  BY <1>1
<1>11. \A h \in 0 .. n : ECRowIs(u, m[h], h) /\ ECLinked(UnmarshalECBlock(u[m[h]]), u, m)
  BY <1>7, <1>8, <1>9
<1> QED BY <1>3, <1>4, <1>9, <1>10, <1>11 DEF ECChain

\* The block after a stored one.
LEMMA ECNextIs ==
    ASSUME NEW b, IsECBlock(b), NEW u, u = NextECBlock(b)
    PROVE  /\ IsECBlock(u) /\ u.height = b.height + 1 /\ u.prevHeaderHash = HeaderHash(b)
           /\ u.prevLedgerKeyMR = Sha("ecblock", MarshalECBlock(b)) /\ u.entries = <<>>
<1>1. b.height + 1 \in Nat
  BY DEF IsECBlock
<1> DEFINE x == HeaderHash(b)
           y == ECBlockHash(b)
           z == b.height + 1
<1>2. u = [EmptyECBlock EXCEPT !.prevHeaderHash = x, !.prevLedgerKeyMR = y, !.height = z]
  BY DEF NextECBlock
<1> HIDE DEF x, y, z
<1>3. /\ IsRecord(u, ECFields) /\ u.prevHeaderHash = x /\ u.prevLedgerKeyMR = y /\ u.height = z
      /\ u.entries = <<>>
  BY ONLY <1>2 DEF EmptyECBlock, IsRecord, ECFields
<1>4. IsECBlock(u)
  BY <1>1, <1>3 DEF IsECBlock, z
<1> QED BY <1>3, <1>4 DEF x, y, z, ECBlockHash

AreCredits(s) == s \in Seq(ToSet(s)) /\ \A i \in 1 .. Len(s) : IsCredit(s[i])

LEMMA CreditsJoined ==
    ASSUME NEW r, AreCredits(r), NEW a, AreCredits(a), NEW s, s = r \o a
    PROVE  AreCredits(s)
<1> DEFINE T == ToSet(r) \cup ToSet(a)
<1>1. r \in Seq(ToSet(r)) /\ a \in Seq(ToSet(a)) /\ ToSet(r) \subseteq T /\ ToSet(a) \subseteq T
  BY DEF AreCredits
<1> HIDE DEF T
<1>2. r \in Seq(T) /\ a \in Seq(T)
  BY <1>1, SeqsIn
<1>3. IsJoin(T, r, a, s)
  BY <1>2 DEF IsJoin
<1>4. /\ s \in Seq(T) /\ Len(s) = Len(r) + Len(a)
      /\ \A i \in 1 .. Len(r) : s[i] = r[i]
      /\ \A i \in 1 .. Len(a) : s[Len(r) + i] = a[i]
  BY ONLY <1>3, JoinIs
<1>5. s \in Seq(ToSet(s))
  BY <1>4, SeqOfItself
<1>6. ASSUME NEW i \in 1 .. Len(s) PROVE IsCredit(s[i])
  <2>1. PICK m, n : m = Len(r) /\ n = Len(a)
    OBVIOUS
  <2>2. m \in Nat /\ n \in Nat /\ i \in 1 .. (m + n)
    BY <1>2, <1>4, <2>1
  <2>3. CASE i <= m
    <3>1. i \in 1 .. m
      BY ONLY <2>2, <2>3
    <3>2. s[i] = r[i] /\ IsCredit(r[i])
      BY <1>4, <2>1, <3>1 DEF AreCredits
    <3> QED BY <3>2
  <2>4. CASE ~ i <= m
    <3>1. PICK j \in 1 .. n : i = m + j
      <4>1. i - m \in 1 .. n /\ i = m + (i - m)
        BY ONLY <2>2, <2>4
      <4> QED BY <4>1
    <3>2. s[m + j] = a[j] /\ IsCredit(a[j])
      BY <1>4, <2>1 DEF AreCredits
    <3> QED BY <3>1, <3>2
  <2> QED BY <2>3, <2>4
<1> QED BY <1>5, <1>6 DEF AreCredits

LEMMA CreditsAdded ==
    ASSUME NEW b, IsECBlock(b), NEW a, AreCredits(a), NEW u, u = AddECEntries(b, a)
    PROVE  /\ IsECBlock(u) /\ u.height = b.height /\ u.prevHeaderHash = b.prevHeaderHash
           /\ u.prevLedgerKeyMR = b.prevLedgerKeyMR
<1> DEFINE s == b.entries \o a
<1>1. u = [b EXCEPT !.entries = s]
  BY DEF AddECEntries
<1>2. b = [f \in ECFields |-> b[f]] /\ DOMAIN b = ECFields
  BY DEF IsECBlock, IsRecord
<1>3. AreCredits(b.entries)
  BY DEF IsECBlock, AreCredits
<1> HIDE DEF s
<1>4. AreCredits(s)
  BY <1>3, CreditsJoined DEF s
<1>6. IsRecord(u, ECFields) /\ u.entries = s /\ \A f \in ECFields \ {"entries"} : u[f] = b[f]
  BY ONLY <1>1, <1>2 DEF IsRecord, ECFields
<1>7. /\ u.height = b.height /\ u.prevHeaderHash = b.prevHeaderHash
      /\ u.prevLedgerKeyMR = b.prevLedgerKeyMR
  BY <1>6 DEF ECFields
<1>8. b.height \in Nat
  BY DEF IsECBlock
<1>9. IsECBlock(u)
  BY <1>4, <1>6, <1>7, <1>8 DEF IsECBlock, AreCredits
<1> QED BY <1>7, <1>9

LEMMA AppendJoins ==
    ASSUME NEW S, NEW s \in Seq(S), NEW e PROVE Append(s, e) = s \o <<e>>
OBVIOUS

LEMMA ECEntryAdded ==
    ASSUME NEW b, IsECBlock(b), NEW e, IsCredit(e), NEW u, u = AddECEntry(b, e)
    PROVE  /\ IsECBlock(u) /\ u.height = b.height /\ u.prevHeaderHash = b.prevHeaderHash
           /\ u.prevLedgerKeyMR = b.prevLedgerKeyMR
<1> DEFINE a == <<e>>
<1>1. AreCredits(a)
  <2>1. a \in Seq({e}) /\ Len(a) = 1 /\ a[1] = e
    OBVIOUS
  <2> HIDE DEF a
  <2>2. a \in Seq(ToSet(a)) /\ \A i \in 1 .. Len(a) : a[i] = e
    BY <2>1, SeqOfItself
  <2> QED BY <2>2 DEF AreCredits
<1>2. u = AddECEntries(b, a)
  <2>1. b.entries \in Seq(ToSet(b.entries))
    BY DEF IsECBlock
  <2>2. Append(b.entries, e) = b.entries \o <<e>>
    BY <2>1, AppendJoins
  <2> QED BY <2>2 DEF AddECEntry, AddECEntries
<1> HIDE DEF a
<1> QED BY <1>1, <1>2, CreditsAdded

----------------------------------------------------------------------------
\* Stored directory blocks: the same, and their KeyMRs lead to their hashes.

DAt(t, num, h) == UnmarshalDBlock(t[num[h]])

DRowIs(t, mr, k, h) ==
    LET b == UnmarshalDBlock(t[k])
    IN  /\ IsSealed(b) /\ b.height = h /\ k = DBlockHash(b) /\ t[k] = MarshalDBlock(b)
        /\ BuildKeyMerkleRoot(b) \in DOMAIN mr /\ mr[BuildKeyMerkleRoot(b)] = k

DLinked(b, t, num) ==
    IF b.height = 0 THEN b.prevLedgerKeyMR = NewHash /\ b.prevKeyMR = NewHash
    ELSE /\ b.prevLedgerKeyMR = num[b.height - 1]
         /\ b.prevKeyMR = BuildKeyMerkleRoot(DAt(t, num, b.height - 1))

DChain(t, num, mr, n) ==
    /\ n \in Nat /\ DOMAIN num = 0 .. (n - 1) /\ DOMAIN t = {num[h] : h \in 0 .. (n - 1)}
    /\ DOMAIN mr = {BuildKeyMerkleRoot(DAt(t, num, h)) : h \in 0 .. (n - 1)}
    /\ \A h \in 0 .. (n - 1) :
        DRowIs(t, mr, num[h], h) /\ DLinked(DAt(t, num, h), t, num)

LEMMA DHashTellsHeight ==
    ASSUME NEW b, NEW c, IsSealed(b), IsSealed(c), DBlockHash(b) = DBlockHash(c)
    PROVE  b.height = c.height
<1>1. MarshalDBlock(b) = MarshalDBlock(c)
  BY DEF DBlockHash, Sha
<1> QED BY <1>1, DBlockReadsBack

\* The KeyMR of a sealed directory block belongs to its header and its body.
LEMMA DKeyMRTellsHeight ==
    ASSUME NEW b, NEW c, IsSealed(b), IsSealed(c), BuildKeyMerkleRoot(b) = BuildKeyMerkleRoot(c)
    PROVE  b.height = c.height
<1> DEFINE x == Sha("dheader", DBlockHeader(b))
           y == Sha("dheader", DBlockHeader(c))
           u == <<x, b.bodyMR>>
           v == <<y, c.bodyMR>>
           S == {x, y, b.bodyMR, c.bodyMR}
<1>1. b.bodyMR # Nil /\ c.bodyMR # Nil
  BY BodyMRIsHash DEF IsSealed
<1>2. x # Nil /\ y # Nil
  BY DEF Sha, Nil
<1>3. MerkleRoot(u) = MerkleRoot(v)
  BY DEF BuildKeyMerkleRoot
<1>4. x = y
  <2> HIDE DEF x, y
  <2>1. Nil \notin S /\ u \in Seq(S) /\ v \in Seq(S) /\ u # <<>> /\ Len(u) = Len(v)
    BY <1>1, <1>2
  <2> HIDE DEF u, v, S
  <2>2. u = v
    BY <1>3, <2>1, RootCommits
  <2> QED BY <2>2 DEF u, v
<1>5. DBlockHeader(b) = DBlockHeader(c)
  BY <1>4 DEF Sha
<1>6. DBlockHeader(b)[5] = Num(b.height) /\ DBlockHeader(c)[5] = Num(c.height)
  BY DEF DBlockHeader
<1> QED BY <1>5, <1>6 DEF Num

DOpen(b, t, num, n) == IsSealed(b) /\ b.height = n /\ DLinked(b, t, num)

LEMMA DChainGrows ==
    ASSUME NEW t, NEW num, NEW mr, NEW n, DChain(t, num, mr, n), NEW b, DOpen(b, t, num, n),
           NEW k, k = DBlockHash(b), NEW r, r = BuildKeyMerkleRoot(b),
           NEW u, u = Put(t, k, MarshalDBlock(b)), NEW m, m = Put(num, n, k),
           NEW w, w = Put(mr, r, k)
    PROVE  /\ DChain(u, m, w, n + 1) /\ m[n] = k /\ DAt(u, m, n) = b
           /\ \A h \in 0 .. (n - 1) : DAt(u, m, h) = DAt(t, num, h) /\ m[h] = num[h]
<1>1. /\ n \in Nat /\ DOMAIN num = 0 .. (n - 1) /\ DOMAIN t = {num[h] : h \in 0 .. (n - 1)}
      /\ DOMAIN mr = {BuildKeyMerkleRoot(DAt(t, num, h)) : h \in 0 .. (n - 1)}
      /\ \A h \in 0 .. (n - 1) :
           DRowIs(t, mr, num[h], h) /\ DLinked(DAt(t, num, h), t, num)
  BY DEF DChain
<1>2. IsSealed(b) /\ IsDBlock(b) /\ b.height = n /\ DLinked(b, t, num)
  BY DEF DOpen, IsSealed
<1>3. DOMAIN u = DOMAIN t \cup {k} /\ u[k] = MarshalDBlock(b)
      /\ \A x \in DOMAIN t : x # k => u[x] = t[x]
  BY DEF Put
<1>4. DOMAIN m = 0 .. n /\ m[n] = k /\ \A h \in 0 .. (n - 1) : m[h] = num[h]
  BY <1>1 DEF Put
<1>5. DOMAIN w = DOMAIN mr \cup {r} /\ w[r] = k /\ \A x \in DOMAIN mr : x # r => w[x] = mr[x]
  BY DEF Put
<1>6. ASSUME NEW h \in 0 .. (n - 1)
      PROVE  /\ IsSealed(DAt(t, num, h)) /\ IsDBlock(DAt(t, num, h)) /\ DAt(t, num, h).height = h
             /\ num[h] = DBlockHash(DAt(t, num, h)) /\ t[num[h]] = MarshalDBlock(DAt(t, num, h))
             /\ BuildKeyMerkleRoot(DAt(t, num, h)) \in DOMAIN mr
             /\ mr[BuildKeyMerkleRoot(DAt(t, num, h))] = num[h]
  BY <1>1 DEF DRowIs, DAt, IsSealed
<1>7. \A h \in 0 .. (n - 1) : num[h] # k /\ BuildKeyMerkleRoot(DAt(t, num, h)) # r
  <2> SUFFICES ASSUME NEW h \in 0 .. (n - 1), num[h] = k \/ BuildKeyMerkleRoot(DAt(t, num, h)) = r
               PROVE  FALSE
    OBVIOUS
  <2>1. PICK c : c = DAt(t, num, h)
    OBVIOUS
  <2>2. IsSealed(c) /\ IsDBlock(c) /\ c.height = h /\ num[h] = DBlockHash(c)
    BY <1>6, <2>1
  <2>3. h = n
    <3>1. CASE num[h] = k
      BY <1>2, <2>2, <3>1, DHashTellsHeight
    <3>2. CASE BuildKeyMerkleRoot(DAt(t, num, h)) = r
      BY <1>2, <2>1, <2>2, <3>2, DKeyMRTellsHeight
    <3> QED BY <3>1, <3>2
  <2> QED BY <1>1, <2>3
<1>8. \A h \in 0 .. (n - 1) :
        u[m[h]] = t[num[h]] /\ m[h] = num[h] /\ DAt(u, m, h) = DAt(t, num, h)
  <2>1. \A h \in 0 .. (n - 1) : u[m[h]] = t[num[h]] /\ m[h] = num[h]
    BY <1>1, <1>3, <1>4, <1>7
  <2> QED BY <2>1 DEF DAt
<1>9. DAt(u, m, n) = b
  <2>1. UnmarshalDBlock(MarshalDBlock(b)) = b
    BY <1>2, DBlockReadsBack
  <2> QED BY <1>3, <1>4, <2>1 DEF DAt
<1>10. ASSUME NEW h \in 0 .. (n - 1)
       PROVE  DRowIs(u, w, m[h], h) /\ DLinked(DAt(u, m, h), u, m)
  <2>1. PICK c : c = DAt(t, num, h)
    OBVIOUS
  <2>2. /\ IsSealed(c) /\ c.height = h /\ num[h] = DBlockHash(c) /\ t[num[h]] = MarshalDBlock(c)
        /\ BuildKeyMerkleRoot(c) \in DOMAIN mr /\ mr[BuildKeyMerkleRoot(c)] = num[h]
        /\ BuildKeyMerkleRoot(c) # r /\ DLinked(c, t, num)
    BY <1>1, <1>6, <1>7, <2>1
  <2>3. BuildKeyMerkleRoot(c) \in DOMAIN w /\ w[BuildKeyMerkleRoot(c)] = num[h]
    BY <1>5, <2>2
  <2>4. UnmarshalDBlock(u[m[h]]) = c /\ u[m[h]] = t[num[h]] /\ m[h] = num[h] /\ DAt(u, m, h) = c
    BY <1>8, <2>1 DEF DAt
  <2>5. DRowIs(u, w, m[h], h)
    BY <2>2, <2>3, <2>4 DEF DRowIs
  <2>6. h # 0 => h - 1 \in 0 .. (n - 1)
    BY <1>1
  <2>7. DLinked(c, u, m)
    BY <1>8, <2>2, <2>6 DEF DLinked
  <2> QED BY <2>4, <2>5, <2>7
<1>11. DRowIs(u, w, m[n], n) /\ DLinked(DAt(u, m, n), u, m)
  <2>1. DRowIs(u, w, k, n)
    <3>1. UnmarshalDBlock(u[k]) = b
      BY <1>4, <1>9 DEF DAt
    <3> QED BY <1>2, <1>3, <1>5, <3>1 DEF DRowIs
  <2>2. n # 0 => n - 1 \in 0 .. (n - 1)
    BY <1>1
  <2>3. DLinked(b, u, m)
    BY <1>2, <1>8, <2>2 DEF DLinked
  <2> QED BY <1>4, <1>9, <2>1, <2>3
<1>12. 0 .. n = 0 .. (n - 1) \cup {n} /\ (n + 1) \in Nat /\ (n + 1) - 1 = n
  BY <1>1
<1>13. DOMAIN u = {m[h] : h \in 0 .. n}
  <2>1. \A h \in 0 .. (n - 1) : m[h] = num[h]
    BY <1>4
  <2>2. DOMAIN u = {num[h] : h \in 0 .. (n - 1)} \cup {k} /\ m[n] = k
    BY <1>1, <1>3, <1>4
  <2> QED BY <1>12, <2>1, <2>2
<1>14. DOMAIN w = {BuildKeyMerkleRoot(DAt(u, m, h)) : h \in 0 .. n}
  <2> DEFINE f(h) == BuildKeyMerkleRoot(DAt(u, m, h))
             g(h) == BuildKeyMerkleRoot(DAt(t, num, h))
  <2>1. f(n) = r /\ \A h \in 0 .. (n - 1) : f(h) = g(h)
    BY <1>8, <1>9, Zenon
  <2>2. DOMAIN w = {g(h) : h \in 0 .. (n - 1)} \cup {r}
    BY <1>1, <1>5
  <2> HIDE DEF f, g
  <2>3. DOMAIN w = {f(h) : h \in 0 .. n}
    BY <1>12, <2>1, <2>2
  <2> QED BY <2>3 DEF f
<1>15. \A h \in 0 .. n : DRowIs(u, w, m[h], h) /\ DLinked(DAt(u, m, h), u, m)
  BY <1>10, <1>11, <1>12
<1>16. DChain(u, m, w, n + 1)
  <2>1. 0 .. ((n + 1) - 1) = 0 .. n
    BY <1>12
  <2>2. DOMAIN m = 0 .. ((n + 1) - 1) /\ DOMAIN u = {m[h] : h \in 0 .. ((n + 1) - 1)}
    BY <1>4, <1>13, <2>1
  <2>3. DOMAIN w = {BuildKeyMerkleRoot(DAt(u, m, h)) : h \in 0 .. ((n + 1) - 1)}
    BY <1>14, <2>1
  <2>4. \A h \in 0 .. ((n + 1) - 1) : DRowIs(u, w, m[h], h) /\ DLinked(DAt(u, m, h), u, m)
    BY <1>15, <2>1
  <2> QED BY <1>12, <2>2, <2>3, <2>4 DEF DChain
<1> QED BY <1>4, <1>8, <1>9, <1>16

\* There are as many stored directory blocks as heights.
LEMMA DBlocksCounted ==
    ASSUME NEW d, NEW n, DChain(d.DB, d.DB_NUM, d.DB_MR, n)
    PROVE  Cardinality(FetchAllDBlocks(d)) = n
<1> DEFINE B == FetchAllDBlocks(d)
           f == [h \in 0 .. (n - 1) |-> DAt(d.DB, d.DB_NUM, h)]
<1>1. /\ n \in Nat /\ DOMAIN d.DB = {d.DB_NUM[h] : h \in 0 .. (n - 1)}
      /\ \A h \in 0 .. (n - 1) : DAt(d.DB, d.DB_NUM, h).height = h
  BY DEF DChain, DRowIs, DAt
<1>2. B = {f[h] : h \in 0 .. (n - 1)}
  <2>1. B = {UnmarshalDBlock(d.DB[k]) : k \in DOMAIN d.DB}
    BY DEF FetchAllDBlocks, Rows
  <2> QED BY <1>1, <2>1 DEF DAt
<1>3. f \in Bijection(0 .. (n - 1), B)
  <2>1. f \in [0 .. (n - 1) -> B] /\ (\A b \in B : \E h \in 0 .. (n - 1) : f[h] = b)
        /\ \A h, i \in 0 .. (n - 1) : f[h] = f[i] => h = i
    BY <1>1, <1>2
  <2> HIDE DEF f, B
  <2>2. f \in Bijection(0 .. (n - 1), B)
    BY ONLY <2>1, Fun_IsBij
  <2> QED BY <2>2 DEF f, B
<1>4. IsFiniteSet(0 .. (n - 1)) /\ Cardinality(0 .. (n - 1)) = n
  BY <1>1, FS_Interval
<1> HIDE DEF f, B
<1>5. Cardinality(B) = n
  <2>1. ExistsBijection(0 .. (n - 1), B)
    BY <1>3 DEF ExistsBijection
  <2> QED BY <1>4, <2>1, FS_Bijection
<1> QED BY <1>5 DEF B

----------------------------------------------------------------------------
\* Stored admin blocks, and factoid blocks.

ARowIs(t, k, h) ==
    LET b == UnmarshalABlock(t[k])
    IN  /\ IsABlock(b) /\ b.count = Len(b.entries) /\ b.height = h
        /\ b.partial = Nil /\ b.full = Nil
        /\ k = Sha("ablock", t[k]) /\ t[k] = MarshalABlock(b)

ALinked(b, t, num) ==
    b.height # 0 => b.prevLedgerKeyMR = Sha("afull", t[num[b.height - 1]])

AChain(t, num, n) ==
    /\ n \in Nat /\ DOMAIN num = 0 .. (n - 1) /\ DOMAIN t = {num[h] : h \in 0 .. (n - 1)}
    /\ \A h \in 0 .. (n - 1) :
        ARowIs(t, num[h], h) /\ ALinked(UnmarshalABlock(t[num[h]]), t, num)

AOpen(b, t, num, n) ==
    /\ IsABlock(b) /\ b.partial = Nil /\ b.full = Nil /\ b.height = n /\ ALinked(b, t, num)

LEMMA SealedABlock ==
    ASSUME NEW b, IsABlock(b), b.partial = Nil, b.full = Nil, NEW u, u = SealAdminBlock(b)
    PROVE  /\ IsABlock(u) /\ u.count = Len(u.entries) /\ u.height = b.height
           /\ u.entries = b.entries /\ u.prevLedgerKeyMR = b.prevLedgerKeyMR
           /\ u.partial = Sha("ablock", MarshalABlock(u)) /\ u.full = Sha("afull", MarshalABlock(u))
<1> DEFINE n == Len(b.entries)
           v == [b EXCEPT !.count = n, !.size = 2 * n]
           x == Sha("ablock", MarshalABlock(v))
           w == [v EXCEPT !.partial = x]
           y == Sha("afull", MarshalABlock(w))
           z == [w EXCEPT !.full = y]
<1>1. b = [f \in ABFields |-> b[f]] /\ DOMAIN b = ABFields
  BY DEF IsABlock, IsRecord
<1>2. /\ IsRecord(v, ABFields) /\ v.count = n /\ v.size = 2 * n /\ v.height = b.height
      /\ v.entries = b.entries /\ v.prevLedgerKeyMR = b.prevLedgerKeyMR
      /\ v.partial = Nil /\ v.full = Nil
  <2> DEFINE q == 2 * n
             r == [b EXCEPT !.count = n, !.size = q]
  <2> HIDE DEF n, q
  <2>1. /\ IsRecord(r, ABFields) /\ r.count = n /\ r.size = q
        /\ \A f \in ABFields \ {"count", "size"} : r[f] = b[f]
    BY ONLY <1>1 DEF IsRecord, ABFields
  <2>2. v = r
    BY DEF q
  <2> HIDE DEF r, v
  <2> QED BY <2>1, <2>2 DEF ABFields, q
<1>3. SealAdminBlock(b) = BuildFullHash(BuildPartialHash(v))
  BY DEF SealAdminBlock
<1> HIDE DEF v
<1>4. BuildPartialHash(v) = w
  BY <1>2 DEF BuildPartialHash
<1> HIDE DEF x
<1>5. /\ IsRecord(w, ABFields) /\ w.partial = x /\ w.count = n /\ w.size = 2 * n
      /\ w.height = b.height /\ w.entries = b.entries /\ w.prevLedgerKeyMR = b.prevLedgerKeyMR
      /\ w.full = Nil
  <2>1. v = [f \in ABFields |-> v[f]] /\ DOMAIN v = ABFields
    BY <1>2 DEF IsRecord
  <2>2. IsRecord(w, ABFields) /\ w.partial = x /\ \A g \in ABFields \ {"partial"} : w[g] = v[g]
    BY ONLY <2>1 DEF IsRecord, ABFields
  <2> HIDE DEF w
  <2> QED BY <1>2, <2>2 DEF ABFields
<1> HIDE DEF w
<1>6. BuildFullHash(w) = z
  BY <1>5 DEF BuildFullHash
<1> HIDE DEF y
<1>7. /\ IsRecord(z, ABFields) /\ z.full = y /\ z.partial = x /\ z.count = n /\ z.size = 2 * n
      /\ z.height = b.height /\ z.entries = b.entries /\ z.prevLedgerKeyMR = b.prevLedgerKeyMR
  <2>1. w = [f \in ABFields |-> w[f]] /\ DOMAIN w = ABFields
    BY <1>5 DEF IsRecord
  <2>2. IsRecord(z, ABFields) /\ z.full = y /\ \A g \in ABFields \ {"full"} : z[g] = w[g]
    BY ONLY <2>1 DEF IsRecord, ABFields
  <2> HIDE DEF z
  <2> QED BY <1>5, <2>2 DEF ABFields
<1>8. u = z
  BY <1>3, <1>4, <1>6
<1> HIDE DEF z
<1>9. MarshalABlock(u) = MarshalABlock(v) /\ MarshalABlock(u) = MarshalABlock(w)
  BY <1>2, <1>5, <1>7, <1>8 DEF MarshalABlock
<1>10. IsABlock(u)
  BY <1>7, <1>8 DEF IsABlock
<1> QED BY <1>7, <1>8, <1>9, <1>10 DEF x, y, n

LEMMA AChainGrows ==
    ASSUME NEW t, NEW num, NEW n, AChain(t, num, n), NEW b, AOpen(b, t, num, n),
           NEW v, v = SealAdminBlock(b),
           NEW u, u = Put(t, v.partial, MarshalABlock(v)), NEW m, m = Put(num, n, v.partial)
    PROVE  /\ AChain(u, m, n + 1) /\ m[n] = v.partial /\ u[v.partial] = MarshalABlock(v)
           /\ v.height = n /\ v.full = Sha("afull", MarshalABlock(v))
<1>1. /\ n \in Nat /\ DOMAIN num = 0 .. (n - 1) /\ DOMAIN t = {num[h] : h \in 0 .. (n - 1)}
      /\ \A h \in 0 .. (n - 1) :
           ARowIs(t, num[h], h) /\ ALinked(UnmarshalABlock(t[num[h]]), t, num)
  BY DEF AChain
<1>2. IsABlock(b) /\ b.partial = Nil /\ b.full = Nil /\ b.height = n /\ ALinked(b, t, num)
  BY DEF AOpen
<1> DEFINE k == v.partial
           row == MarshalABlock(v)
           w == UnmarshalABlock(row)
<1>3. /\ IsABlock(v) /\ v.count = Len(v.entries) /\ v.height = n
      /\ v.prevLedgerKeyMR = b.prevLedgerKeyMR /\ k = Sha("ablock", row)
      /\ v.full = Sha("afull", row)
  BY <1>2, SealedABlock
<1>4. /\ IsABlock(w) /\ row = MarshalABlock(w) /\ w.prevLedgerKeyMR = b.prevLedgerKeyMR
      /\ w.height = n /\ w.count = Len(w.entries) /\ w.partial = Nil /\ w.full = Nil
  BY <1>3, ABlockReadsBack
<1> HIDE DEF k, row, w
<1>5. DOMAIN u = DOMAIN t \cup {k} /\ u[k] = row /\ \A x \in DOMAIN t : x # k => u[x] = t[x]
  BY DEF Put, k, row
<1>6. DOMAIN m = 0 .. n /\ m[n] = k /\ \A h \in 0 .. (n - 1) : m[h] = num[h]
  BY <1>1 DEF Put, k
<1>7. \A h \in 0 .. (n - 1) : num[h] # k
  <2> SUFFICES ASSUME NEW h \in 0 .. (n - 1), num[h] = k PROVE FALSE
    OBVIOUS
  <2>1. k = Sha("ablock", t[num[h]]) /\ UnmarshalABlock(t[num[h]]).height = h
    BY <1>1 DEF ARowIs
  <2>2. t[num[h]] = row
    BY <1>3, <2>1 DEF Sha
  <2>3. h = n
    BY <1>4, <2>1, <2>2 DEF w
  <2> QED BY <1>1, <2>3
<1>8. \A h \in 0 .. (n - 1) : u[m[h]] = t[num[h]] /\ m[h] = num[h]
  BY <1>1, <1>5, <1>6, <1>7
<1>9. ASSUME NEW h \in 0 .. (n - 1)
      PROVE  ARowIs(u, m[h], h) /\ ALinked(UnmarshalABlock(u[m[h]]), u, m)
  <2> DEFINE c == UnmarshalABlock(t[num[h]])
  <2>1. ARowIs(t, num[h], h) /\ ALinked(c, t, num) /\ c.height = h
    BY <1>1 DEF ARowIs
  <2>2. ARowIs(u, m[h], h)
    BY <1>8, <2>1 DEF ARowIs
  <2>3. UnmarshalABlock(u[m[h]]) = c
    BY <1>8
  <2> HIDE DEF c
  <2>4. h # 0 => h - 1 \in 0 .. (n - 1)
    BY <1>1
  <2>5. ALinked(c, u, m)
    BY <1>8, <2>1, <2>4 DEF ALinked
  <2> QED BY <2>2, <2>3, <2>5
<1>10. ARowIs(u, m[n], n) /\ ALinked(UnmarshalABlock(u[m[n]]), u, m)
  <2>1. UnmarshalABlock(u[k]) = w /\ u[k] = row /\ m[n] = k
    BY <1>5, <1>6 DEF w
  <2>2. ARowIs(u, k, n)
    BY <1>3, <1>4, <2>1 DEF ARowIs
  <2>3. n # 0 => n - 1 \in 0 .. (n - 1)
    BY <1>1
  <2>4. ALinked(w, u, m)
    BY <1>2, <1>4, <1>8, <2>3 DEF ALinked
  <2> QED BY <2>1, <2>2, <2>4
<1>11. 0 .. n = 0 .. (n - 1) \cup {n} /\ (n + 1) \in Nat /\ 0 .. ((n + 1) - 1) = 0 .. n
  BY <1>1
<1>12. DOMAIN u = {m[h] : h \in 0 .. n}
  <2>1. DOMAIN u = {num[h] : h \in 0 .. (n - 1)} \cup {k}
    BY <1>1, <1>5
  <2> QED BY <1>6, <1>11, <2>1
<1>13. AChain(u, m, n + 1)
  <2>1. DOMAIN m = 0 .. ((n + 1) - 1) /\ DOMAIN u = {m[h] : h \in 0 .. ((n + 1) - 1)}
    BY <1>6, <1>11, <1>12
  <2>2. \A h \in 0 .. ((n + 1) - 1) :
            ARowIs(u, m[h], h) /\ ALinked(UnmarshalABlock(u[m[h]]), u, m)
    BY <1>9, <1>10, <1>11
  <2> QED BY <1>11, <2>1, <2>2 DEF AChain
<1> QED BY <1>3, <1>5, <1>6, <1>13 DEF k, row

LEMMA ABEntryAdded ==
    ASSUME NEW b, IsABlock(b), NEW e, IsRecord(e, {"type", "value"}), e.type \in {"minute", "sig"},
           NEW u, u = AddABEntry(b, e)
    PROVE  /\ IsABlock(u) /\ u.height = b.height /\ u.prevLedgerKeyMR = b.prevLedgerKeyMR
           /\ u.partial = b.partial /\ u.full = b.full
<1> DEFINE s == Append(b.entries, e)
<1>1. u = [b EXCEPT !.entries = s]
  BY DEF AddABEntry
<1>2. b = [f \in ABFields |-> b[f]] /\ DOMAIN b = ABFields
  BY DEF IsABlock, IsRecord
<1>3. b.entries \in Seq(ToSet(b.entries))
      /\ \A i \in 1 .. Len(b.entries) : /\ IsRecord(b.entries[i], {"type", "value"})
                                        /\ b.entries[i].type \in {"minute", "sig"}
  BY DEF IsABlock
<1>4. s \in Seq(ToSet(b.entries) \cup {e}) /\ Len(s) = Len(b.entries) + 1
      /\ \A i \in 1 .. Len(s) : /\ IsRecord(s[i], {"type", "value"})
                                /\ s[i].type \in {"minute", "sig"}
  BY <1>3
<1>5. s \in Seq(ToSet(s))
  BY <1>4, SeqOfItself
<1> HIDE DEF s
<1>6. IsRecord(u, ABFields) /\ u.entries = s /\ \A f \in ABFields \ {"entries"} : u[f] = b[f]
  BY ONLY <1>1, <1>2 DEF IsRecord, ABFields
<1>7. /\ u.height = b.height /\ u.prevLedgerKeyMR = b.prevLedgerKeyMR
      /\ u.partial = b.partial /\ u.full = b.full
  BY <1>6 DEF ABFields
<1>8. b.height \in Nat
  BY DEF IsABlock
<1>9. IsABlock(u)
  BY <1>4, <1>5, <1>6, <1>7, <1>8 DEF IsABlock
<1> QED BY <1>7, <1>9

LEMMA NewABlock ==
    ASSUME NEW n \in Nat, NEW p, NEW u, u = CreateAdminBlock(n, p)
    PROVE  /\ IsABlock(u) /\ u.height = n /\ u.prevLedgerKeyMR = p /\ u.partial = Nil
           /\ u.full = Nil
<1>1. /\ IsRecord(u, ABFields) /\ u.height = n /\ u.prevLedgerKeyMR = p /\ u.partial = Nil
      /\ u.full = Nil /\ u.entries = <<>>
  BY DEF CreateAdminBlock, IsRecord, ABFields
<1>2. <<>> \in Seq(ToSet(<<>>)) /\ Len(<<>>) = 0
  OBVIOUS
<1> QED BY <1>1, <1>2 DEF IsABlock

FRowIs(t, k, h) == k = FBlockHash(t[k]) /\ \E p : t[k] = <<p, Num(h)>>

FChain(t, num, n) ==
    /\ n \in Nat /\ DOMAIN num = 0 .. (n - 1) /\ DOMAIN t = {num[h] : h \in 0 .. (n - 1)}
    /\ \A h \in 0 .. (n - 1) : FRowIs(t, num[h], h)

FOpen(b, n) == \E p : b = <<p, Num(n)>>

LEMMA FChainGrows ==
    ASSUME NEW t, NEW num, NEW n, FChain(t, num, n), NEW b, FOpen(b, n),
           NEW k, k = FBlockHash(b), NEW u, u = Put(t, k, b), NEW m, m = Put(num, b[2][2], k)
    PROVE  FChain(u, m, n + 1) /\ m[n] = k
<1>1. /\ n \in Nat /\ DOMAIN num = 0 .. (n - 1) /\ DOMAIN t = {num[h] : h \in 0 .. (n - 1)}
      /\ \A h \in 0 .. (n - 1) : FRowIs(t, num[h], h)
  BY DEF FChain
<1>2. b[2][2] = n
  BY DEF FOpen, Num
<1>3. DOMAIN u = DOMAIN t \cup {k} /\ u[k] = b /\ \A x \in DOMAIN t : x # k => u[x] = t[x]
  BY DEF Put
<1>4. DOMAIN m = 0 .. n /\ m[n] = k /\ \A h \in 0 .. (n - 1) : m[h] = num[h]
  BY <1>1, <1>2 DEF Put
<1>5. \A h \in 0 .. (n - 1) : num[h] # k
  <2> SUFFICES ASSUME NEW h \in 0 .. (n - 1), num[h] = k PROVE FALSE
    OBVIOUS
  <2>1. k = FBlockHash(t[num[h]]) /\ t[num[h]][2][2] = h
    BY <1>1 DEF FRowIs, Num
  <2>2. t[num[h]] = b
    BY <2>1 DEF FBlockHash, Sha
  <2> QED BY <1>1, <1>2, <2>1, <2>2
<1>6. \A h \in 0 .. (n - 1) : u[m[h]] = t[num[h]] /\ m[h] = num[h]
  BY <1>1, <1>3, <1>4, <1>5
<1>7. \A h \in 0 .. (n - 1) : FRowIs(u, m[h], h)
  BY <1>1, <1>6 DEF FRowIs
<1>8. FRowIs(u, m[n], n)
  BY <1>3, <1>4 DEF FRowIs, FOpen
<1>9. 0 .. n = 0 .. (n - 1) \cup {n} /\ (n + 1) \in Nat /\ 0 .. ((n + 1) - 1) = 0 .. n
  BY <1>1
<1>10. DOMAIN u = {m[h] : h \in 0 .. n}
  <2>1. DOMAIN u = {num[h] : h \in 0 .. (n - 1)} \cup {k}
    BY <1>1, <1>3
  <2> QED BY <1>4, <1>9, <2>1
<1>11. FChain(u, m, n + 1)
  <2>1. DOMAIN m = 0 .. ((n + 1) - 1) /\ DOMAIN u = {m[h] : h \in 0 .. ((n + 1) - 1)}
    BY <1>4, <1>9, <1>10
  <2>2. \A h \in 0 .. ((n + 1) - 1) : FRowIs(u, m[h], h)
    BY <1>7, <1>8, <1>9
  <2> QED BY <1>9, <2>1, <2>2 DEF FChain
<1> QED BY <1>4, <1>11

----------------------------------------------------------------------------
\* What is stored is fetched: a row is never the missing one.

LEMMA BytesAreSome ==
    ASSUME NEW S, NEW p \in Seq(S), NEW a, NEW b, NEW c, NEW d
    PROVE  /\ <<a, b, c, d>> \o p # <<>>
           /\ \A e, f : <<a, b, c, d, e, f>> \o p # <<>>
           /\ \A e, f, g : <<a, b, c, d, e, f, g>> \o p # <<>>
<1> DEFINE T == S \cup {a, b, c, d}
<1>1. <<a, b, c, d>> \o p # <<>>
  <2>1. Len(<<a, b, c, d>> \o p) = 4 + Len(p) /\ Len(p) \in Nat
    OBVIOUS
  <2> QED BY <2>1
<1>2. ASSUME NEW e, NEW f PROVE <<a, b, c, d, e, f>> \o p # <<>>
  <2>1. Len(<<a, b, c, d, e, f>> \o p) = 6 + Len(p) /\ Len(p) \in Nat
    OBVIOUS
  <2> QED BY <2>1
<1>3. ASSUME NEW e, NEW f, NEW g PROVE <<a, b, c, d, e, f, g>> \o p # <<>>
  <2>1. Len(<<a, b, c, d, e, f, g>> \o p) = 7 + Len(p) /\ Len(p) \in Nat
    OBVIOUS
  <2> QED BY <2>1
<1> QED BY <1>1, <1>2, <1>3

LEMMA EBytesAreSome == ASSUME NEW b, IsEBlock(b) PROVE MarshalEBlock(b) # Nil
<1>1. b.entries \in Seq(EBHashes)
  BY DEF IsEBlock
<1> QED BY <1>1, BytesAreSome DEF MarshalEBlock, EBlockHeader, Nil

LEMMA DBytesAreSome == ASSUME NEW b, IsDBlock(b) PROVE MarshalDBlock(b) # Nil
<1> DEFINE s == [i \in DOMAIN b.entries |-> MarshalDBEntry(b.entries[i])]
<1>1. Len(s) \in Nat
  <2>1. Len(b.entries) \in Nat /\ DOMAIN b.entries = 1 .. Len(b.entries)
    BY DEF IsDBlock
  <2> QED BY <2>1
<1> HIDE DEF s
<1>2. Pairs(s) \in Seq(ToSet(Pairs(s)))
  BY <1>1, PairsInARow
<1> QED BY <1>2, BytesAreSome DEF MarshalDBlock, DBlockHeader, Nil, s

LEMMA ABytesAreSome ==
    ASSUME NEW b, IsABlock(b), b.count = Len(b.entries) PROVE MarshalABlock(b) # Nil
<1> DEFINE s == [i \in 1 .. b.count |-> MarshalABEntry(b.entries[i])]
<1>1. Len(s) \in Nat
  <2>1. b.count \in Nat
    BY DEF IsABlock
  <2> QED BY <2>1
<1> HIDE DEF s
<1>2. Pairs(s) \in Seq(ToSet(Pairs(s)))
  BY <1>1, PairsInARow
<1> QED BY <1>2, BytesAreSome DEF MarshalABlock, Nil, s

LEMMA ECBytesAreSome == ASSUME NEW b, IsECBlock(b) PROVE MarshalECBlock(b) # Nil
<1>1. PICK n, S : n = Len(b.entries) /\ S = ECBytes(b)
  OBVIOUS
<1>2. PICK t : CreditList(b.entries, t, n, S) /\ MarshalECBody(b) = t[0]
  BY <1>1, ECBodyIs
<1>3. MarshalECBody(b) \in Seq(S)
  BY <1>2 DEF CreditList
<1> QED BY <1>3, BytesAreSome DEF MarshalECBlock, ECBlockHeader, Nil

LEMMA DFetched ==
    ASSUME NEW d, NEW n, DChain(d.DB, d.DB_NUM, d.DB_MR, n), NEW h \in 0 .. (n - 1)
    PROVE  /\ FetchDBHashByHeight(d, h) = d.DB_NUM[h] /\ d.DB_NUM[h] # Nil
           /\ FetchDBlockByHash(d, d.DB_NUM[h]) = DAt(d.DB, d.DB_NUM, h)
           /\ DAt(d.DB, d.DB_NUM, h) # Nil /\ IsSealed(DAt(d.DB, d.DB_NUM, h))
           /\ d.DB_NUM[h] = DBlockHash(DAt(d.DB, d.DB_NUM, h))
           /\ DAt(d.DB, d.DB_NUM, h).height = h
<1> DEFINE b == DAt(d.DB, d.DB_NUM, h)
           k == d.DB_NUM[h]
<1>1. /\ h \in DOMAIN d.DB_NUM /\ k \in DOMAIN d.DB /\ IsSealed(b) /\ k = DBlockHash(b)
      /\ d.DB[k] = MarshalDBlock(b) /\ b.height = h
  BY DEF DChain, DRowIs, DAt
<1>2. FetchDBHashByHeight(d, h) = k
  BY <1>1 DEF FetchDBHashByHeight, Get
<1>3. b = UnmarshalDBlock(d.DB[k])
  BY DEF DAt
<1> HIDE DEF b, k
<1>4. d.DB[k] # Nil
  BY <1>1, DBytesAreSome DEF IsSealed
<1>5. FetchDBlockByHash(d, k) = b
  BY <1>1, <1>3, <1>4 DEF FetchDBlockByHash, Get, Parsed
<1>6. b # Nil
  BY <1>1 DEF IsSealed, IsDBlock, IsRecord, DBFields, Nil
<1>7. k # Nil
  BY <1>1 DEF DBlockHash, Sha, Nil
<1> QED BY <1>1, <1>2, <1>5, <1>6, <1>7 DEF b, k

LEMMA ECFetched ==
    ASSUME NEW d, NEW n, ECChain(d.CB, d.CB_NUM, n), NEW h \in 0 .. (n - 1)
    PROVE  /\ Get(d.CB_NUM, h) = d.CB_NUM[h] /\ d.CB_NUM[h] \in DOMAIN d.CB
           /\ FetchECBlockByHash(d, d.CB_NUM[h]) = UnmarshalECBlock(d.CB[d.CB_NUM[h]])
           /\ UnmarshalECBlock(d.CB[d.CB_NUM[h]]) # Nil
           /\ ECRowIs(d.CB, d.CB_NUM[h], h)
<1> DEFINE k == d.CB_NUM[h]
           b == UnmarshalECBlock(d.CB[k])
<1>1. h \in DOMAIN d.CB_NUM /\ k \in DOMAIN d.CB /\ ECRowIs(d.CB, k, h)
  BY DEF ECChain
<1>2. IsECBlock(b) /\ d.CB[k] = MarshalECBlock(b)
  BY <1>1 DEF ECRowIs
<1>3. d.CB[k] # Nil
  <2> HIDE DEF b
  <2> QED BY <1>2, ECBytesAreSome
<1>4. FetchECBlockByHash(d, k) = b
  BY <1>1, <1>3 DEF FetchECBlockByHash, Get, Parsed
<1>5. b # Nil
  <2> HIDE DEF b
  <2> QED BY <1>2 DEF IsECBlock, IsRecord, ECFields, Nil
<1> QED BY <1>1, <1>4, <1>5 DEF Get

LEMMA AFetched ==
    ASSUME NEW d, NEW n, AChain(d.AB, d.AB_NUM, n), NEW h \in 0 .. (n - 1)
    PROVE  /\ Get(d.AB_NUM, h) = d.AB_NUM[h] /\ d.AB_NUM[h] \in DOMAIN d.AB
           /\ FetchABlockByHash(d, d.AB_NUM[h]) = UnmarshalABlock(d.AB[d.AB_NUM[h]])
           /\ UnmarshalABlock(d.AB[d.AB_NUM[h]]) # Nil
           /\ ARowIs(d.AB, d.AB_NUM[h], h)
<1> DEFINE k == d.AB_NUM[h]
           b == UnmarshalABlock(d.AB[k])
<1>1. h \in DOMAIN d.AB_NUM /\ k \in DOMAIN d.AB /\ ARowIs(d.AB, k, h)
  BY DEF AChain
<1>2. IsABlock(b) /\ d.AB[k] = MarshalABlock(b) /\ b.count = Len(b.entries)
  BY <1>1 DEF ARowIs
<1>3. d.AB[k] # Nil
  <2> HIDE DEF b
  <2> QED BY <1>2, ABytesAreSome
<1>4. FetchABlockByHash(d, k) = b
  BY <1>1, <1>3 DEF FetchABlockByHash, Get, Parsed
<1>5. b # Nil
  <2> HIDE DEF b
  <2> QED BY <1>2 DEF IsABlock, IsRecord, ABFields, Nil
<1> QED BY <1>1, <1>4, <1>5 DEF Get

LEMMA FFetched ==
    ASSUME NEW d, NEW n, FChain(d.SC, d.SC_NUM, n), NEW h \in 0 .. (n - 1)
    PROVE  /\ Get(d.SC_NUM, h) = d.SC_NUM[h] /\ d.SC_NUM[h] \in DOMAIN d.SC
           /\ FetchFBlockByHash(d, d.SC_NUM[h]) = d.SC[d.SC_NUM[h]]
           /\ d.SC[d.SC_NUM[h]] # Nil /\ d.SC_NUM[h] = FBlockHash(d.SC[d.SC_NUM[h]])
<1>1. h \in DOMAIN d.SC_NUM /\ d.SC_NUM[h] \in DOMAIN d.SC /\ FRowIs(d.SC, d.SC_NUM[h], h)
  BY DEF FChain
<1> QED BY <1>1 DEF FRowIs, FetchFBlockByHash, Get, Nil

----------------------------------------------------------------------------
\* The stored blocks of the four ledgers and the open ones above them.

DirCount == IF pc = "dir" THEN Height - 1 ELSE Height
EcCount  == IF pc \in {"admin", "fct", "entry"} THEN Height + 1 ELSE Height
AdmCount == IF pc \in {"fct", "entry"} THEN Height + 1 ELSE Height
FctCount == IF pc = "entry" THEN Height + 1 ELSE Height

Credits == ECChain(db.CB, db.CB_NUM, EcCount) /\ ECOpen(ecNext, db.CB, db.CB_NUM, EcCount)
Admins  == AChain(db.AB, db.AB_NUM, AdmCount) /\ AOpen(aNext, db.AB, db.AB_NUM, AdmCount)
Factoids == FChain(db.SC, db.SC_NUM, FctCount) /\ FOpen(fNext, FctCount)

Directories ==
    /\ DChain(db.DB, db.DB_NUM, db.DB_MR, DirCount)
    /\ pc = "dir" => DOpen(sealed, db.DB, db.DB_NUM, DirCount)
    /\ pc # "init" => IsDBlock(dNext)
    /\ pc \notin {"init", "dir"} => DLinked(dNext, db.DB, db.DB_NUM)
    /\ pc = "dir" => /\ dNext.prevLedgerKeyMR = DBlockHash(sealed)
                     /\ dNext.prevKeyMR = BuildKeyMerkleRoot(sealed)

LEMMA DirectoryHeight ==
    ASSUME Directories, pc # "dir" PROVE Cardinality(FetchAllDBlocks(db)) = Height
BY DBlocksCounted DEF Directories, DirCount

LEMMA InitLedgers == ASSUME Init PROVE Credits /\ Admins /\ Factoids /\ Directories
<1>1. /\ db = NewDB /\ pc = "init" /\ ecNext = EmptyECBlock /\ aNext = CreateAdminBlock(0, NewHash)
      /\ fNext = initFctChain(0) /\ dNext = CreateDBlock(0, NewHash, NewHash)
  BY DEF Init
<1>2. Height = 0
  BY <1>1 DEF Height, CreateDBlock
<1>3. /\ db.CB = <<>> /\ db.CB_NUM = <<>> /\ db.AB = <<>> /\ db.AB_NUM = <<>>
      /\ db.SC = <<>> /\ db.SC_NUM = <<>> /\ db.DB = <<>> /\ db.DB_NUM = <<>> /\ db.DB_MR = <<>>
  BY <1>1, NewDBIs DEF Tables
<1>4. DOMAIN <<>> = {} /\ 0 .. (0 - 1) = {} /\ 0 \in Nat
  OBVIOUS
<1>5. Credits
  <2>1. ECChain(<<>>, <<>>, 0)
    BY <1>4 DEF ECChain
  <2>2. IsECBlock(EmptyECBlock) /\ EmptyECBlock.height = 0 /\ EmptyECBlock.prevHeaderHash = NewHash
    <3>1. <<>> \in Seq(ToSet(<<>>)) /\ Len(<<>>) = 0
      OBVIOUS
    <3> QED BY <3>1 DEF IsECBlock, IsRecord, ECFields, EmptyECBlock
  <2>3. ECOpen(EmptyECBlock, <<>>, <<>>, 0)
    BY <2>2 DEF ECOpen, ECLinked
  <2> QED BY <1>1, <1>2, <1>3, <2>1, <2>3 DEF Credits, EcCount
<1>6. Admins
  <2>1. AChain(<<>>, <<>>, 0)
    BY <1>4 DEF AChain
  <2>2. AOpen(aNext, <<>>, <<>>, 0)
    BY <1>1, <1>4, NewABlock DEF AOpen, ALinked
  <2> QED BY <1>1, <1>2, <1>3, <2>1, <2>2 DEF Admins, AdmCount
<1>7. Factoids
  BY <1>1, <1>2, <1>3, <1>4 DEF Factoids, FctCount, FChain, FOpen, initFctChain
<1>8. Directories
  <2>1. DChain(<<>>, <<>>, <<>>, 0)
    BY <1>4 DEF DChain
  <2> QED BY <1>1, <1>2, <1>3, <2>1 DEF Directories, DirCount
<1> QED BY <1>5, <1>6, <1>7, <1>8

----------------------------------------------------------------------------
\* What the steps do to the ledgers.

LEMMA DBlockEntryPut ==
    ASSUME NEW d, IsDBlock(d), NEW i \in 1 .. 3, NEW c, NEW k, NEW u,
           u = WithEntry(d, i, DBEntry(c, k))
    PROVE  /\ IsDBlock(u) /\ \A f \in DBFields \ {"entries"} : u[f] = d[f]
           /\ Len(u.entries) = Len(d.entries) /\ u.entries[i].keyMR = k
           /\ \A j \in (1 .. Len(d.entries)) \ {i} : u.entries[j] = d.entries[j]
<1> DEFINE e == DBEntry(c, k)
           s == [d.entries EXCEPT ![i] = e]
           n == Len(d.entries)
<1>1. /\ IsRecord(d, DBFields) /\ d.height \in Nat /\ d.entries \in Seq(ToSet(d.entries)) /\ n >= 3
      /\ \A j \in 1 .. n : IsRecord(d.entries[j], {"chain", "keyMR"})
  BY DEF IsDBlock
<1>2. IsRecord(e, {"chain", "keyMR"}) /\ e.keyMR = k
  BY DEF IsRecord, DBEntry
<1> HIDE DEF e
<1>3. n \in Nat /\ DOMAIN d.entries = 1 .. n /\ i \in 1 .. n
  BY <1>1
<1>4. /\ s \in Seq(ToSet(d.entries) \cup {e}) /\ Len(s) = n /\ s[i] = e
      /\ \A j \in (1 .. n) \ {i} : s[j] = d.entries[j]
  BY <1>1, <1>3
<1>5. s \in Seq(ToSet(s))
  BY <1>4, SeqOfItself
<1>6. \A v, t, w : IsRecord(v, DBFields) /\ w = [v EXCEPT !.entries = t]
         => IsRecord(w, DBFields) /\ w.entries = t /\ \A f \in DBFields \ {"entries"} : w[f] = v[f]
  BY DBEntrySet
<1>7. u = [d EXCEPT !.entries = s]
  BY DEF e, WithEntry
<1> HIDE DEF s
<1>8. IsRecord(u, DBFields) /\ u.entries = s /\ \A f \in DBFields \ {"entries"} : u[f] = d[f]
  BY <1>1, <1>6, <1>7
<1>9. u.height = d.height
  BY <1>8 DEF DBFields
<1>10. \A j \in 1 .. n : IsRecord(s[j], {"chain", "keyMR"})
  <2> SUFFICES ASSUME NEW j \in 1 .. n PROVE IsRecord(s[j], {"chain", "keyMR"})
    OBVIOUS
  <2>1. CASE j = i
    BY <1>2, <1>4, <2>1
  <2>2. CASE j # i
    BY <1>1, <1>4, <2>2
  <2> QED BY <2>1, <2>2
<1>11. IsDBlock(u)
  BY <1>1, <1>4, <1>5, <1>8, <1>9, <1>10 DEF IsDBlock
<1> QED BY <1>2, <1>4, <1>8, <1>11

LEMMA DBlockEntryAppended ==
    ASSUME NEW d, IsDBlock(d), NEW c, NEW k, NEW u,
           u = WithMore(d, DBEntry(c, k))
    PROVE  /\ IsDBlock(u) /\ \A f \in DBFields \ {"entries"} : u[f] = d[f]
           /\ Len(u.entries) = Len(d.entries) + 1 /\ u.entries[Len(d.entries) + 1].keyMR = k
           /\ \A j \in 1 .. Len(d.entries) : u.entries[j] = d.entries[j]
<1> DEFINE e == DBEntry(c, k)
           s == Append(d.entries, e)
           n == Len(d.entries)
<1>1. /\ IsRecord(d, DBFields) /\ d.height \in Nat /\ d.entries \in Seq(ToSet(d.entries)) /\ n >= 3
      /\ \A j \in 1 .. n : IsRecord(d.entries[j], {"chain", "keyMR"})
  BY DEF IsDBlock
<1>2. IsRecord(e, {"chain", "keyMR"}) /\ e.keyMR = k
  BY DEF IsRecord, DBEntry
<1> HIDE DEF e
<1>3. n \in Nat /\ DOMAIN d.entries = 1 .. n
  BY <1>1
<1>4. /\ s \in Seq(ToSet(d.entries) \cup {e}) /\ Len(s) = n + 1 /\ s[n + 1] = e
      /\ \A j \in 1 .. n : s[j] = d.entries[j]
  BY <1>1, <1>3
<1>5. s \in Seq(ToSet(s))
  BY <1>4, SeqOfItself
<1>6. \A v, t, w : IsRecord(v, DBFields) /\ w = [v EXCEPT !.entries = t]
         => IsRecord(w, DBFields) /\ w.entries = t /\ \A f \in DBFields \ {"entries"} : w[f] = v[f]
  BY DBEntrySet
<1>7. u = [d EXCEPT !.entries = s]
  BY DEF e, WithMore
<1> HIDE DEF s
<1>8. IsRecord(u, DBFields) /\ u.entries = s /\ \A f \in DBFields \ {"entries"} : u[f] = d[f]
  BY <1>1, <1>6, <1>7
<1>9. u.height = d.height
  BY <1>8 DEF DBFields
<1>10. \A j \in 1 .. (n + 1) : IsRecord(s[j], {"chain", "keyMR"})
  <2> SUFFICES ASSUME NEW j \in 1 .. (n + 1) PROVE IsRecord(s[j], {"chain", "keyMR"})
    OBVIOUS
  <2>1. CASE j = n + 1
    BY <1>2, <1>4, <2>1
  <2>2. CASE j # n + 1
    <3>1. j \in 1 .. n
      BY <1>3, <2>2
    <3> QED BY <1>1, <1>4, <3>1
  <2> QED BY <2>1, <2>2
<1>11. IsDBlock(u)
  BY <1>1, <1>3, <1>4, <1>5, <1>8, <1>9, <1>10 DEF IsDBlock
<1> QED BY <1>2, <1>4, <1>8, <1>11

\* The open directory block is the same but for its list.
SameHeader(u, d) == \A f \in DBFields \ {"entries"} : u[f] = d[f]

LEMMA ListedInDBlock ==
    ASSUME Engine, IsDBlock(dNext),
           newEntryCreditBlock \/ newAdminBlock \/ newFactoidBlock \/ newEntryBlock
    PROVE  IsDBlock(dNext') /\ SameHeader(dNext', dNext) /\ Height' = Height
<1>0. Tabled
  BY DEF Engine
<1>1. ASSUME NEW i \in 1 .. 3, NEW c, NEW k, dNext' = WithEntry(dNext, i, DBEntry(c, k))
      PROVE  IsDBlock(dNext') /\ SameHeader(dNext', dNext)
  BY <1>1, DBlockEntryPut DEF SameHeader
<1>2. IsDBlock(dNext') /\ SameHeader(dNext', dNext)
  <2>1. CASE newEntryCreditBlock
    <3>1. \A b : b = BuildECBlockHeader(ecNext) =>
             dNext' = WithEntry(dNext, 2, DBEntry(SystemChain("ec"), HeaderHash(b)))
      BY <1>0, <2>1, ECBlockSealed
    <3> QED BY <1>1, <3>1
  <2>2. CASE newAdminBlock
    <3>1. \A b : b = SealAdminBlock(aNext) =>
             dNext' = WithEntry(dNext, 1, DBEntry(SystemChain("admin"), b.partial))
      BY <1>0, <2>2, ABlockSealed
    <3> QED BY <1>1, <3>1
  <2>3. CASE newFactoidBlock
    BY <1>0, <1>1, <2>3, FBlockSealed
  <2>4. CASE newEntryBlock
    <3>1. PICK c \in todo : EBPassed(c) \/ EBStored(c)
      BY <2>4, EBlockSealed
    <3>2. CASE EBPassed(c)
      BY <3>2 DEF EBPassed, SameHeader
    <3>3. CASE EBStored(c)
      BY <3>3, DBlockEntryAppended DEF EBStored, SameHeader
    <3> QED BY <3>1, <3>2, <3>3
  <2> QED BY <2>1, <2>2, <2>3, <2>4
<1>3. Height' = Height
  BY <1>2 DEF SameHeader, Height, DBFields
<1> QED BY <1>2, <1>3

\* Steps that leave a ledger alone.
LEMMA CreditsKept ==
    ASSUME Credits, db'.CB = db.CB, db'.CB_NUM = db.CB_NUM, ecNext' = ecNext, EcCount' = EcCount
    PROVE  Credits'
BY DEF Credits

LEMMA AdminsKept ==
    ASSUME Admins, db'.AB = db.AB, db'.AB_NUM = db.AB_NUM, aNext' = aNext, AdmCount' = AdmCount
    PROVE  Admins'
BY DEF Admins

LEMMA FactoidsKept ==
    ASSUME Factoids, db'.SC = db.SC, db'.SC_NUM = db.SC_NUM, fNext' = fNext, FctCount' = FctCount
    PROVE  Factoids'
BY DEF Factoids

LEMMA DirectoriesKept ==
    ASSUME Directories, db'.DB = db.DB, db'.DB_NUM = db.DB_NUM, db'.DB_MR = db.DB_MR,
           pc # "dir", pc' # "dir", Height' = Height, pc' # "init" => pc # "init" /\ IsDBlock(dNext'),
           SameHeader(dNext', dNext)
    PROVE  Directories'
<1>1. DirCount' = DirCount
  BY DEF DirCount
<1>2. pc # "init" => DLinked(dNext, db.DB, db.DB_NUM)
  BY DEF Directories
<1>3. pc # "init" => DLinked(dNext', db.DB, db.DB_NUM)
  BY <1>2 DEF DLinked, SameHeader, DBFields
<1> QED BY <1>1, <1>3 DEF Directories

Ledgers == Credits /\ Admins /\ Factoids /\ Directories

LedgerTables == {"CB", "CB_NUM", "AB", "AB_NUM", "SC", "SC_NUM", "DB", "DB_NUM", "DB_MR"}

LEMMA LedgersKept ==
    ASSUME Ledgers, \A f \in LedgerTables : db'[f] = db[f],
           UNCHANGED <<ecNext, aNext, fNext, dNext, sealed>>,
           pc' = pc \/ (pc # "init" /\ {pc, pc'} \subseteq {"init", "serve", "build"})
    PROVE  Ledgers'
<1>1. UNCHANGED <<ecNext, aNext, fNext, dNext>> /\ Height' = Height
  BY DEF Height
<1>2. EcCount' = EcCount /\ AdmCount' = AdmCount /\ FctCount' = FctCount /\ DirCount' = DirCount
  BY <1>1 DEF EcCount, AdmCount, FctCount, DirCount
<1>3. Credits' /\ Admins' /\ Factoids'
  BY <1>1, <1>2, CreditsKept, AdminsKept, FactoidsKept DEF Ledgers, LedgerTables
<1>4. Directories'
  BY <1>1, <1>2 DEF Ledgers, Directories, LedgerTables
<1> QED BY <1>3, <1>4 DEF Ledgers

LEMMA SetOutIsDBlock ==
    ASSUME NEW n \in Nat, NEW p, NEW q, NEW t, NEW u, IsSetOut(u, n, p, q, t, Placeholders)
    PROVE  /\ IsDBlock(u) /\ u.height = n /\ u.prevKeyMR = p /\ u.prevLedgerKeyMR = q
           /\ u.timestamp = t
<1>1. \A v, m, r, s, x, y : IsSetOut(v, m, r, s, x, y) =>
        /\ IsRecord(v, DBFields) /\ v.height = m /\ v.prevKeyMR = r /\ v.prevLedgerKeyMR = s
        /\ v.timestamp = x /\ v.entries = y
  BY SetOutDBlock
<1>2. /\ IsRecord(u, DBFields) /\ u.height = n /\ u.prevKeyMR = p /\ u.prevLedgerKeyMR = q
      /\ u.timestamp = t /\ u.entries = Placeholders
  BY <1>1
<1> DEFINE s == Placeholders
<1>3. s = [i \in 1 .. 3 |-> Placeholder] /\ IsRecord(Placeholder, {"chain", "keyMR"})
  BY DEF Placeholders, Placeholder, IsRecord
<1> HIDE DEF s
<1>4. s \in Seq({Placeholder}) /\ Len(s) = 3 /\ \A i \in 1 .. 3 : s[i] = Placeholder
  BY <1>3
<1>5. s \in Seq(ToSet(s))
  BY <1>4, SeqOfItself
<1>6. \A i \in 1 .. Len(s) : IsRecord(s[i], {"chain", "keyMR"})
  BY <1>3, <1>4
<1>7. IsDBlock(u)
  BY <1>2, <1>4, <1>5, <1>6 DEF IsDBlock, s
<1> QED BY <1>2, <1>7

\* A ledger's open block is made from the last stored one.
LEMMA CreditsStart ==
    ASSUME NEW n, ECChain(db.CB, db.CB_NUM, n), WebAssumption
    PROVE  ECOpen(initECChain(n), db.CB, db.CB_NUM, n)
<1>1. n \in Nat
  BY DEF ECChain
<1>2. CASE n = 0
  <2> DEFINE e == [m \in 1 .. (LastMinute + 1) |->
                MarkerOf(IF m = 1 THEN "server" ELSE "minute", m - 1)]
             u == [EmptyECBlock EXCEPT !.entries = e]
  <2>1. initECChain(n) = u
    BY <1>2 DEF initECChain
  <2>2. LastMinute + 1 \in Nat
    BY DEF WebAssumption
  <2>3. ASSUME NEW m \in 1 .. (LastMinute + 1) PROVE IsCredit(e[m])
    <3>1. e[m] = [ecid |-> IF m = 1 THEN "server" ELSE "minute", msg |-> Nil, index |-> 0,
                  num |-> m - 1]
      BY DEF MarkerOf, ECEntry
    <3>2. m - 1 \in Nat
      BY <2>2
    <3> HIDE DEF e
    <3> QED BY <3>1, <3>2 DEF IsCredit, IsRecord, CreditFields, Markers
  <2>4. DOMAIN e = 1 .. (LastMinute + 1) /\ e = [m \in 1 .. (LastMinute + 1) |-> e[m]]
    OBVIOUS
  <2> HIDE DEF e
  <2>5. e \in Seq(ToSet(e)) /\ Len(e) = LastMinute + 1
    <3>1. \A m \in 1 .. (LastMinute + 1) : e[m] \in ToSet(e)
      BY <2>4 DEF ToSet
    <3>2. e \in [1 .. (LastMinute + 1) -> ToSet(e)]
      BY <2>4, <3>1
    <3>3. PICK k : k = LastMinute + 1
      OBVIOUS
    <3>4. k \in Nat /\ e \in [1 .. k -> ToSet(e)]
      BY <2>2, <3>2, <3>3
    <3>5. e \in Seq(ToSet(e)) /\ Len(e) = k
      BY ONLY <3>4
    <3> QED BY <3>3, <3>5
  <2>6. /\ IsRecord(u, ECFields) /\ u.entries = e /\ u.height = 0 /\ u.prevHeaderHash = NewHash
    BY DEF EmptyECBlock, IsRecord, ECFields
  <2> HIDE DEF u
  <2>7. IsECBlock(u)
    BY <2>3, <2>5, <2>6 DEF IsECBlock
  <2> QED BY <1>2, <2>1, <2>6, <2>7 DEF ECOpen, ECLinked
<1>3. CASE n > 0
  <2> DEFINE h == n - 1
  <2>1. h \in 0 .. (n - 1) /\ n - 1 = h
    BY <1>1, <1>3
  <2> HIDE DEF h
  <2> DEFINE k == db.CB_NUM[h]
             b == UnmarshalECBlock(db.CB[k])
  <2>2. /\ Get(db.CB_NUM, h) = k /\ FetchECBlockByHash(db, k) = b /\ ECRowIs(db.CB, k, h)
    BY <2>1, ECFetched
  <2>3. IsECBlock(b) /\ b.height = h /\ k = HeaderHash(b) /\ db.CB[k] = MarshalECBlock(b)
    BY <2>2 DEF ECRowIs
  <2>4. FetchECBlockByHeight(db, n - 1) = b
    BY <2>1, <2>2 DEF FetchECBlockByHeight
  <2>5. initECChain(n) = NextECBlock(b)
    BY <1>3, <2>4 DEF initECChain
  <2> HIDE DEF b, k
  <2> DEFINE u == NextECBlock(b)
  <2>6. /\ IsECBlock(u) /\ u.height = h + 1 /\ u.prevHeaderHash = k
        /\ u.prevLedgerKeyMR = Sha("ecblock", db.CB[k])
    BY <2>3, ECNextIs
  <2>7. u.height = n
    BY <1>1, <2>1, <2>6
  <2> HIDE DEF u
  <2>8. ECOpen(u, db.CB, db.CB_NUM, n)
    BY <2>1, <2>6, <2>7, <1>3 DEF ECOpen, ECLinked, k
  <2> QED BY <2>5, <2>8 DEF u
<1> QED BY <1>1, <1>2, <1>3

LEMMA AdminsStart ==
    ASSUME NEW n, AChain(db.AB, db.AB_NUM, n)
    PROVE  AOpen(initAChain(n), db.AB, db.AB_NUM, n)
<1>1. n \in Nat
  BY DEF AChain
<1>2. CASE n = 0
  BY <1>1, <1>2, NewABlock DEF initAChain, AOpen, ALinked
<1>3. CASE n > 0
  <2> DEFINE h == n - 1
  <2>1. h \in 0 .. (n - 1) /\ n - 1 = h
    BY <1>1, <1>3
  <2> HIDE DEF h
  <2> DEFINE k == db.AB_NUM[h]
             b == UnmarshalABlock(db.AB[k])
  <2>2. /\ Get(db.AB_NUM, h) = k /\ FetchABlockByHash(db, k) = b /\ ARowIs(db.AB, k, h)
    BY <2>1, AFetched
  <2>3. IsABlock(b) /\ b.full = Nil /\ db.AB[k] = MarshalABlock(b)
    BY <2>2 DEF ARowIs
  <2>4. FetchABlockByHeight(db, n - 1) = b
    BY <2>1, <2>2 DEF FetchABlockByHeight
  <2> HIDE DEF b, k
  <2>5. BuildFullHash(b).full = Sha("afull", db.AB[k])
    <3> DEFINE y == Sha("afull", MarshalABlock(b))
    <3>1. b = [f \in ABFields |-> b[f]] /\ DOMAIN b = ABFields
      BY <2>3 DEF IsABlock, IsRecord
    <3>2. BuildFullHash(b) = [b EXCEPT !.full = y]
      BY <2>3 DEF BuildFullHash
    <3> HIDE DEF y
    <3>3. BuildFullHash(b).full = y
      BY <3>1, <3>2 DEF ABFields
    <3> QED BY <2>3, <3>3 DEF y
  <2> DEFINE p == Sha("afull", db.AB[k])
             u == CreateAdminBlock(n, p)
  <2>6. initAChain(n) = u
    BY <1>3, <2>4, <2>5 DEF initAChain
  <2> HIDE DEF p
  <2>7. IsABlock(u) /\ u.height = n /\ u.prevLedgerKeyMR = p /\ u.partial = Nil /\ u.full = Nil
    BY <1>1, NewABlock
  <2> HIDE DEF u
  <2>8. AOpen(u, db.AB, db.AB_NUM, n)
    BY <2>1, <2>7 DEF AOpen, ALinked, p, k
  <2> QED BY <2>6, <2>8
<1> QED BY <1>1, <1>2, <1>3

\* An entry more does not change what an open admin block owes.
LEMMA AOpenAdded ==
    ASSUME NEW b, NEW t, NEW num, NEW n, AOpen(b, t, num, n),
           NEW e, IsRecord(e, {"type", "value"}), e.type \in {"minute", "sig"}
    PROVE  AOpen(AddABEntry(b, e), t, num, n)
BY ABEntryAdded DEF AOpen, ALinked

LEMMA SigIsEntry ==
    /\ \A v : IsRecord(ABEntry("sig", v), {"type", "value"}) /\ ABEntry("sig", v).type = "sig"
    /\ \A v : IsRecord(ABEntry("minute", v), {"type", "value"}) /\ ABEntry("minute", v).type = "minute"
BY DEF ABEntry, IsRecord

LEMMA ECOpenAdded ==
    ASSUME NEW b, NEW t, NEW num, NEW n, ECOpen(b, t, num, n), NEW e, IsCredit(e)
    PROVE  ECOpen(AddECEntry(b, e), t, num, n)
BY ECEntryAdded DEF ECOpen, ECLinked

LEMMA ECOpenJoined ==
    ASSUME NEW b, NEW t, NEW num, NEW n, ECOpen(b, t, num, n), NEW a, AreCredits(a)
    PROVE  ECOpen(AddECEntries(b, a), t, num, n)
BY CreditsAdded DEF ECOpen, ECLinked

LEMMA CreditsAre ==
    /\ \A n \in Nat : IsCredit(MarkerOf("server", n)) /\ IsCredit(MarkerOf("minute", n))
    /\ \A x : IsCredit(CommitOf(x))
    /\ \A i, n \in Words : IsCredit(Increase("tx", i, n))
BY DEF MarkerOf, CommitOf, Increase, ECEntry, IsCredit, IsRecord, CreditFields, Markers

\* The objects of a transaction, one for every output.
LEMMA PurchaseIs ==
    ASSUME NEW t \in Payments
    PROVE  AreCredits([i \in DOMAIN t |-> Increase("tx", i - 1, t[i])])
<1> DEFINE s == [i \in DOMAIN t |-> Increase("tx", i - 1, t[i])]
           n == Len(t)
<1>1. n \in Nat /\ n \in Words /\ DOMAIN t = 1 .. n /\ \A i \in 1 .. n : t[i] \in Words
  BY WebAssumption
<1>2. ASSUME NEW i \in 1 .. n PROVE IsCredit(s[i])
  <2>1. i - 1 \in Words
    <3>1. PICK w \in Int : Words = 0 .. w
      <4>1. Words = 0 .. (2 * Unit(Chunks) - 1) /\ Chunks \in Nat
        BY WordIs
      <4>2. Unit(Chunks) \in Nat
        BY <4>1, Units
      <4>3. 2 * Unit(Chunks) - 1 \in Int
        BY <4>2
      <4> QED BY <4>1, <4>3
    <3>2. PICK k : k = Len(t)
      OBVIOUS
    <3>3. k \in Nat /\ k \in 0 .. w /\ i \in 1 .. k
      BY <1>1, <3>1, <3>2
    <3>4. i - 1 \in 0 .. w
      BY ONLY <3>3, w \in Int
    <3> QED BY <3>1, <3>4
  <2>2. s[i] = Increase("tx", i - 1, t[i])
    BY <1>1
  <2> QED BY <1>1, <2>1, <2>2, CreditsAre
<1>3. s = [i \in 1 .. n |-> s[i]]
  BY <1>1
<1> HIDE DEF s, n
<1>4. s \in Seq(ToSet(s)) /\ Len(s) = n
  <2>1. DOMAIN s = 1 .. n /\ \A i \in 1 .. n : s[i] \in ToSet(s)
    BY <1>3 DEF ToSet
  <2>2. s \in [1 .. n -> ToSet(s)]
    BY <1>3, <2>1
  <2> QED BY <1>1, <2>2
<1> QED BY <1>2, <1>4 DEF AreCredits, s

LEMMA StartLedgers == ASSUME Engine, Ledgers, Start PROVE Ledgers'
<1> DEFINE n == Cardinality(FetchAllDBlocks(db))
<1>1. /\ pc = "init" /\ pc' \in {"ec", "serve"} /\ db' = db /\ sealed' = sealed
      /\ dNext' = initDChain(n) /\ ecNext' = initECChain(n) /\ fNext' = initFctChain(n)
      /\ aNext' = IF n = 0 THEN initAChain(n) ELSE SignDirectoryBlock(initAChain(n), db, n)
  BY DEF Start
<1>2. n = Height
  BY <1>1, DirectoryHeight DEF Ledgers
<1>3. n \in Nat
  BY <1>2 DEF Engine, Control
<1> HIDE DEF n
<1>4. /\ EcCount = n /\ AdmCount = n /\ FctCount = n /\ DirCount = n
  BY <1>1, <1>2 DEF EcCount, AdmCount, FctCount, DirCount
<1>5. /\ ECChain(db.CB, db.CB_NUM, n) /\ AChain(db.AB, db.AB_NUM, n) /\ FChain(db.SC, db.SC_NUM, n)
      /\ DChain(db.DB, db.DB_NUM, db.DB_MR, n)
  BY <1>4 DEF Ledgers, Credits, Admins, Factoids, Directories
<1>6. IsDBlock(dNext') /\ dNext'.height = n /\ DLinked(dNext', db.DB, db.DB_NUM)
  <2> DEFINE h == n - 1
             prev == FetchDBlockByHash(db, FetchDBHashByHeight(db, n - 1))
             p == IF n = 0 THEN NewHash ELSE BuildKeyMerkleRoot(prev)
             q == IF n = 0 THEN NewHash ELSE DBlockHash(prev)
             t == Timestamp(n)
  <2>1. IsSetOut(dNext', n, p, q, t, Placeholders)
    BY <1>1 DEF initDChain, IsSetOut
  <2>2. n # 0 => /\ prev = DAt(db.DB, db.DB_NUM, n - 1)
                 /\ DBlockHash(prev) = db.DB_NUM[n - 1]
    <3>1. SUFFICES ASSUME n # 0
                   PROVE  prev = DAt(db.DB, db.DB_NUM, n - 1) /\ DBlockHash(prev) = db.DB_NUM[n - 1]
      OBVIOUS
    <3>2. PICK j : j = n - 1
      OBVIOUS
    <3>3. j \in 0 .. (n - 1)
      BY <1>3, <3>1, <3>2
    <3>4. /\ FetchDBHashByHeight(db, j) = db.DB_NUM[j]
          /\ FetchDBlockByHash(db, db.DB_NUM[j]) = DAt(db.DB, db.DB_NUM, j)
          /\ db.DB_NUM[j] = DBlockHash(DAt(db.DB, db.DB_NUM, j))
      BY <1>5, <3>3, DFetched
    <3>5. prev = FetchDBlockByHash(db, FetchDBHashByHeight(db, j))
      BY <3>2
    <3> HIDE DEF prev
    <3> QED BY <3>2, <3>4, <3>5
  <2> HIDE DEF prev, p, q, t
  <2>3. /\ IsDBlock(dNext') /\ dNext'.height = n /\ dNext'.prevKeyMR = p
        /\ dNext'.prevLedgerKeyMR = q
    BY <1>3, <2>1, SetOutIsDBlock
  <2>4. DLinked(dNext', db.DB, db.DB_NUM)
    BY <2>2, <2>3 DEF DLinked, p, q
  <2> QED BY <2>3, <2>4
<1>7. Height' = n
  BY <1>6 DEF Height
<1>8. /\ EcCount' = n /\ AdmCount' = n /\ FctCount' = n /\ DirCount' = n
  BY <1>1, <1>7 DEF EcCount, AdmCount, FctCount, DirCount
<1>9. Credits'
  BY <1>1, <1>5, <1>8, CreditsStart, WebAssumption DEF Credits
<1>10. Admins'
  <2>1. AOpen(initAChain(n), db.AB, db.AB_NUM, n)
    BY <1>5, AdminsStart
  <2>2. AOpen(SignDirectoryBlock(initAChain(n), db, n), db.AB, db.AB_NUM, n)
    BY <2>1, AOpenAdded, SigIsEntry DEF SignDirectoryBlock
  <2>3. AOpen(aNext', db.AB, db.AB_NUM, n)
    BY <1>1, <2>1, <2>2
  <2> QED BY <1>1, <1>5, <1>8, <2>3 DEF Admins
<1>11. Factoids'
  BY <1>1, <1>5, <1>8 DEF Factoids, FOpen, initFctChain
<1>12. Directories'
  BY <1>1, <1>5, <1>6, <1>8 DEF Directories
<1> QED BY <1>9, <1>10, <1>11, <1>12 DEF Ledgers

\* A block joins its ledger.
LEMMA CreditsStored ==
    ASSUME Engine, Ledgers, newEntryCreditBlock
    PROVE  /\ Credits' /\ Height' = Height
           /\ dNext' = WithEntry(dNext, 2, DBEntry(SystemChain("ec"), db'.CB_NUM[Height]))
           /\ \A h \in 0 .. (Height - 1) : db'.CB_NUM[h] = db.CB_NUM[h]
           /\ \A k \in DOMAIN db.CB : k \in DOMAIN db'.CB
           /\ SameBut(db', db, {"CB", "CB_NUM", "CHAIN_HEAD"})
<1> DEFINE block == BuildECBlockHeader(ecNext)
           n == Height
           k == HeaderHash(block)
<1>0. Tabled /\ IsDBlock(dNext) /\ pc = "ec"
  BY DEF Engine, Ledgers, Directories, newEntryCreditBlock
<1>1. /\ pc' = "admin" /\ ecNext' = AddECEntry(NextECBlock(block), MarkerOf("server", 0))
      /\ db' = ProcessECBlockBatch(db, block) /\ dNext' = WithEntry(dNext, 2, DBEntry(SystemChain("ec"), k))
  BY <1>0, ECBlockSealed
<1>2. Height' = Height
  BY <1>0, ListedInDBlock
<1>3. ECChain(db.CB, db.CB_NUM, n) /\ ECOpen(ecNext, db.CB, db.CB_NUM, n)
  BY <1>0 DEF Ledgers, Credits, EcCount
<1>4. IsECBlock(block) /\ BuildECBlockHeader(block) = block /\ block.height = n
      /\ MarshalECBlock(block) = MarshalECBlock(ecNext)
  BY <1>3, ECBuilt DEF ECOpen
<1> HIDE DEF block
<1>5. /\ SameBut(db', db, {"CB", "CB_NUM", "CHAIN_HEAD"})
      /\ db'.CB = Put(db.CB, k, MarshalECBlock(block)) /\ db'.CB_NUM = Put(db.CB_NUM, n, k)
  <2>1. IsRecord(db, Tables)
    BY <1>0 DEF Tabled
  <2> QED BY <1>1, <1>4, <2>1, ECBlockBatch
<1>6. /\ ECChain(db'.CB, db'.CB_NUM, n + 1) /\ db'.CB_NUM[n] = k /\ db'.CB[k] = MarshalECBlock(block)
  <2>1. k = HeaderHash(BuildECBlockHeader(ecNext)) /\ db'.CB = Put(db.CB, k, MarshalECBlock(ecNext))
    BY <1>4, <1>5 DEF block
  <2> HIDE DEF k
  <2>2. \A t, num, b, m, u : ECChain(t, num, n) /\ ECOpen(b, t, num, n)
          /\ k = HeaderHash(BuildECBlockHeader(b)) /\ u = Put(t, k, MarshalECBlock(b))
          /\ m = Put(num, n, k)
          => ECChain(u, m, n + 1) /\ m[n] = k /\ u[k] = MarshalECBlock(b)
    BY ECChainGrows
  <2> QED BY <1>3, <1>4, <1>5, <2>1, <2>2
<1>7. ECOpen(ecNext', db'.CB, db'.CB_NUM, n + 1)
  <2> DEFINE u == NextECBlock(block)
  <2>1. /\ IsECBlock(u) /\ u.height = n + 1 /\ u.prevHeaderHash = k
        /\ u.prevLedgerKeyMR = Sha("ecblock", MarshalECBlock(block))
    BY <1>4, ECNextIs
  <2> HIDE DEF u
  <2>2. (n + 1) - 1 = n /\ n + 1 # 0
    BY DEF Engine, Control
  <2>3. ECOpen(u, db'.CB, db'.CB_NUM, n + 1)
    BY <1>6, <2>1, <2>2 DEF ECOpen, ECLinked
  <2> QED BY <1>1, <2>3, ECOpenAdded, CreditsAre DEF u
<1>8. EcCount' = n + 1
  BY <1>1, <1>2 DEF EcCount
<1>9. \A h \in 0 .. (n - 1) : db'.CB_NUM[h] = db.CB_NUM[h]
  <2>1. DOMAIN db.CB_NUM = 0 .. (n - 1) /\ n \in Nat
    BY <1>3 DEF ECChain
  <2> HIDE DEF n, k
  <2> QED BY <1>5, <2>1 DEF Put
<1>10. \A x \in DOMAIN db.CB : x \in DOMAIN db'.CB
  BY <1>5 DEF Put
<1> QED BY <1>1, <1>2, <1>5, <1>6, <1>7, <1>8, <1>9, <1>10 DEF Credits

LEMMA AdminsStored ==
    ASSUME Engine, Ledgers, newAdminBlock
    PROVE  /\ Admins' /\ Height' = Height
           /\ dNext' = WithEntry(dNext, 1, DBEntry(SystemChain("admin"), db'.AB_NUM[Height]))
           /\ \A h \in 0 .. (Height - 1) : db'.AB_NUM[h] = db.AB_NUM[h]
           /\ \A k \in DOMAIN db.AB : k \in DOMAIN db'.AB
           /\ SameBut(db', db, {"AB", "AB_NUM", "CHAIN_HEAD"})
<1> DEFINE block == SealAdminBlock(aNext)
           n == Height
           k == block.partial
<1>0. Tabled /\ IsDBlock(dNext) /\ pc = "admin"
  BY DEF Engine, Ledgers, Directories, newAdminBlock
<1>1. /\ pc' = "fct" /\ aNext' = CreateAdminBlock(block.height + 1, block.full)
      /\ db' = ProcessABlockBatch(db, block)
      /\ dNext' = WithEntry(dNext, 1, DBEntry(SystemChain("admin"), k))
  BY <1>0, ABlockSealed
<1>2. Height' = Height
  BY <1>0, ListedInDBlock
<1>3. AChain(db.AB, db.AB_NUM, n) /\ AOpen(aNext, db.AB, db.AB_NUM, n)
  BY <1>0 DEF Ledgers, Admins, AdmCount
<1>4. k = Sha("ablock", MarshalABlock(block)) /\ block.height = n
  BY <1>3, SealedABlock DEF AOpen
<1>5. /\ SameBut(db', db, {"AB", "AB_NUM", "CHAIN_HEAD"})
      /\ db'.AB = Put(db.AB, k, MarshalABlock(block)) /\ db'.AB_NUM = Put(db.AB_NUM, n, k)
  <2>1. IsRecord(db, Tables)
    BY <1>0 DEF Tabled
  <2>2. k # Nil
    BY <1>4 DEF Sha, Nil
  <2>3. BuildPartialHash(block).partial = k
    BY <2>2 DEF BuildPartialHash
  <2> HIDE DEF block
  <2> QED BY <1>1, <1>4, <2>1, <2>3, ABlockBatch
<1>6. /\ AChain(db'.AB, db'.AB_NUM, n + 1) /\ db'.AB_NUM[n] = k /\ db'.AB[k] = MarshalABlock(block)
      /\ block.full = Sha("afull", MarshalABlock(block))
  <2>1. \A t, num, b, v, m, u : AChain(t, num, n) /\ AOpen(b, t, num, n)
          /\ v = SealAdminBlock(b) /\ u = Put(t, v.partial, MarshalABlock(v))
          /\ m = Put(num, n, v.partial)
          => AChain(u, m, n + 1) /\ m[n] = v.partial /\ u[v.partial] = MarshalABlock(v)
             /\ v.full = Sha("afull", MarshalABlock(v))
    BY AChainGrows
  <2> QED BY <1>3, <1>5, <2>1
<1> HIDE DEF block
<1>7. AOpen(aNext', db'.AB, db'.AB_NUM, n + 1)
  <2>1. n \in Nat /\ n + 1 \in Nat /\ (n + 1) - 1 = n /\ n + 1 # 0
    BY DEF Engine, Control
  <2> DEFINE u == CreateAdminBlock(n + 1, block.full)
  <2>2. /\ IsABlock(u) /\ u.height = n + 1 /\ u.prevLedgerKeyMR = block.full /\ u.partial = Nil
        /\ u.full = Nil
    BY <2>1, NewABlock
  <2> HIDE DEF u
  <2>3. AOpen(u, db'.AB, db'.AB_NUM, n + 1)
    BY <1>6, <2>1, <2>2 DEF AOpen, ALinked
  <2> QED BY <1>1, <1>4, <2>3 DEF u
<1>8. AdmCount' = n + 1
  BY <1>1, <1>2 DEF AdmCount
<1>9. \A h \in 0 .. (n - 1) : db'.AB_NUM[h] = db.AB_NUM[h]
  <2>1. DOMAIN db.AB_NUM = 0 .. (n - 1) /\ n \in Nat
    BY <1>3 DEF AChain
  <2> HIDE DEF n, k
  <2> QED BY <1>5, <2>1 DEF Put
<1>10. \A x \in DOMAIN db.AB : x \in DOMAIN db'.AB
  BY <1>5 DEF Put
<1> QED BY <1>1, <1>2, <1>5, <1>6, <1>7, <1>8, <1>9, <1>10 DEF Admins

LEMMA FactoidsStored ==
    ASSUME Engine, Ledgers, newFactoidBlock
    PROVE  /\ Factoids' /\ Height' = Height
           /\ dNext' = WithEntry(dNext, 3, DBEntry(SystemChain("factoid"), db'.SC_NUM[Height]))
           /\ \A h \in 0 .. (Height - 1) : db'.SC_NUM[h] = db.SC_NUM[h]
           /\ \A k \in DOMAIN db.SC : k \in DOMAIN db'.SC
           /\ SameBut(db', db, {"SC", "SC_NUM", "CHAIN_HEAD"})
<1> DEFINE n == Height
           k == FBlockHash(fNext)
<1>0. Tabled /\ IsDBlock(dNext) /\ pc = "fct"
  BY DEF Engine, Ledgers, Directories, newFactoidBlock
<1>1. /\ pc' = "entry" /\ fNext' = <<k, Num(n + 1)>> /\ db' = ProcessFBlockBatch(db, fNext)
      /\ dNext' = WithEntry(dNext, 3, DBEntry(SystemChain("factoid"), k))
  BY <1>0, FBlockSealed
<1>2. Height' = Height
  BY <1>0, ListedInDBlock
<1>3. FChain(db.SC, db.SC_NUM, n) /\ FOpen(fNext, n)
  BY <1>0 DEF Ledgers, Factoids, FctCount
<1>4. /\ SameBut(db', db, {"SC", "SC_NUM", "CHAIN_HEAD"})
      /\ db'.SC = Put(db.SC, k, fNext) /\ db'.SC_NUM = Put(db.SC_NUM, fNext[2][2], k)
  <2>1. IsRecord(db, Tables)
    BY <1>0 DEF Tabled
  <2> QED BY <1>1, <2>1, FBlockBatch
<1>5. fNext[2][2] = n
  BY <1>3 DEF FOpen, Num
<1>6. FChain(db'.SC, db'.SC_NUM, n + 1) /\ db'.SC_NUM[n] = k
  BY <1>3, <1>4, FChainGrows
<1>7. FOpen(fNext', n + 1)
  BY <1>1 DEF FOpen
<1>8. FctCount' = n + 1
  BY <1>1, <1>2 DEF FctCount
<1>9. \A h \in 0 .. (n - 1) : db'.SC_NUM[h] = db.SC_NUM[h]
  <2>1. DOMAIN db.SC_NUM = 0 .. (n - 1) /\ n \in Nat
    BY <1>3 DEF FChain
  <2> HIDE DEF n, k
  <2> QED BY <1>4, <1>5, <2>1 DEF Put
<1>10. \A x \in DOMAIN db.SC : x \in DOMAIN db'.SC
  BY <1>4 DEF Put
<1> QED BY <1>1, <1>2, <1>4, <1>6, <1>7, <1>8, <1>9, <1>10 DEF Factoids

\* The directory block is sealed, and written.
LEMMA DirectorySealed ==
    ASSUME Engine, Ledgers, newDirectoryBlock
    PROVE  /\ Ledgers' /\ sealed' = SealDirectoryBlock(dNext) /\ Height' = Height + 1 /\ db' = db
           /\ sealed'.entries = dNext.entries /\ sealed'.height = Height
           /\ sealed'.timestamp = dNext.timestamp
<1> DEFINE block == SealDirectoryBlock(dNext)
           n == block.height + 1
           p == BuildKeyMerkleRoot(block)
           q == DBlockHash(block)
<1>1. /\ pc = "entry" /\ sealed' = block
      /\ IsSetOut(dNext', n, p, q, Timestamp(n), Placeholders)
      /\ pc' = "dir" /\ UNCHANGED <<db, ecNext, aNext, fNext>>
  BY DEF newDirectoryBlock, IsSetOut
<1>2. /\ IsDBlock(dNext) /\ DLinked(dNext, db.DB, db.DB_NUM) /\ Height \in Nat
      /\ DChain(db.DB, db.DB_NUM, db.DB_MR, Height)
  BY <1>1 DEF Engine, Control, Ledgers, Directories, DirCount
<1>3. IsRecord(dNext, DBFields)
  BY <1>2 DEF IsDBlock
<1>4. /\ IsRecord(block, DBFields) /\ block.count = Len(dNext.entries)
      /\ block.bodyMR = BuildBodyMR(dNext) /\ BuildBodyMR(block) = BuildBodyMR(dNext)
      /\ block.height = dNext.height /\ block.entries = dNext.entries
      /\ block.prevKeyMR = dNext.prevKeyMR /\ block.prevLedgerKeyMR = dNext.prevLedgerKeyMR
      /\ block.timestamp = dNext.timestamp
  BY <1>3, SealedDBlock DEF DBFields
<1> HIDE DEF block
<1>5. IsSealed(block)
  BY <1>2, <1>4 DEF IsSealed, IsDBlock
<1>6. DOpen(block, db.DB, db.DB_NUM, Height)
  BY <1>2, <1>4, <1>5 DEF DOpen, DLinked, Height
<1>7. n \in Nat /\ n = Height + 1
  BY <1>2, <1>4 DEF Height
<1> HIDE DEF n, p, q
<1>8. /\ IsDBlock(dNext') /\ dNext'.height = n /\ dNext'.prevKeyMR = p
      /\ dNext'.prevLedgerKeyMR = q
  BY <1>1, <1>7, SetOutIsDBlock
<1>9. Height' = Height + 1
  BY <1>7, <1>8 DEF Height
<1>10. /\ DirCount' = Height /\ EcCount' = EcCount /\ AdmCount' = AdmCount /\ FctCount' = FctCount
  BY <1>1, <1>2, <1>9 DEF DirCount, EcCount, AdmCount, FctCount
<1>11. Directories'
  BY <1>1, <1>2, <1>6, <1>8, <1>10 DEF Directories, p, q
<1>12. Credits' /\ Admins' /\ Factoids'
  BY <1>1, <1>10, CreditsKept, AdminsKept, FactoidsKept DEF Ledgers
<1> QED BY <1>1, <1>4, <1>9, <1>11, <1>12 DEF Ledgers, Height, block

LEMMA DirectoryWritten ==
    ASSUME Engine, Ledgers, WriteDirectoryBlock
    PROVE  /\ Ledgers' /\ Height' = Height /\ SameBut(db', db, {"DB", "DB_NUM", "DB_MR", "CHAIN_HEAD"})
           /\ DAt(db'.DB, db'.DB_NUM, Height - 1) = sealed
           /\ \A h \in 0 .. (Height - 2) :
                DAt(db'.DB, db'.DB_NUM, h) = DAt(db.DB, db.DB_NUM, h)
                /\ db'.DB_NUM[h] = db.DB_NUM[h]
           /\ db'.DB = Put(db.DB, DBlockHash(sealed), MarshalDBlock(sealed))
           /\ db'.DB_MR = Put(db.DB_MR, BuildKeyMerkleRoot(sealed), DBlockHash(sealed))
<1> DEFINE n == Height - 1
           k == DBlockHash(sealed)
           r == BuildKeyMerkleRoot(sealed)
<1>1. /\ pc = "dir" /\ db' = ProcessDBlockBatch(db, sealed) /\ pc' = "serve"
      /\ aNext' = SignDirectoryBlock(aNext, db', Height)
      /\ UNCHANGED <<eNext, ecNext, fNext, dNext>>
  BY DEF WriteDirectoryBlock
<1>2. IsRecord(db, Tables) /\ Height \in Nat
  BY DEF Engine, Tabled, Control
<1>3. /\ DChain(db.DB, db.DB_NUM, db.DB_MR, n) /\ DOpen(sealed, db.DB, db.DB_NUM, n)
      /\ IsDBlock(dNext) /\ dNext.prevLedgerKeyMR = k /\ dNext.prevKeyMR = r
  BY <1>1 DEF Ledgers, Directories, DirCount
<1>4. n \in Nat /\ n + 1 = Height /\ sealed.height = n /\ n - 1 = Height - 2
  BY <1>2, <1>3 DEF DChain, DOpen
<1> HIDE DEF k, r
<1>5. /\ SameBut(db', db, {"DB", "DB_NUM", "DB_MR", "CHAIN_HEAD"})
      /\ db'.DB = Put(db.DB, k, MarshalDBlock(sealed)) /\ db'.DB_NUM = Put(db.DB_NUM, n, k)
      /\ db'.DB_MR = Put(db.DB_MR, r, k)
  BY <1>1, <1>2, <1>4, DBlockBatch DEF k, r
<1> HIDE DEF n
<1>6. /\ DChain(db'.DB, db'.DB_NUM, db'.DB_MR, n + 1) /\ db'.DB_NUM[n] = k
      /\ DAt(db'.DB, db'.DB_NUM, n) = sealed
      /\ \A h \in 0 .. (n - 1) : DAt(db'.DB, db'.DB_NUM, h) = DAt(db.DB, db.DB_NUM, h)
                                 /\ db'.DB_NUM[h] = db.DB_NUM[h]
  <2>1. k = DBlockHash(sealed) /\ r = BuildKeyMerkleRoot(sealed)
    BY DEF k, r
  <2> QED BY <1>3, <1>5, <2>1, DChainGrows
<1>7. Height' = Height
  BY <1>1 DEF Height
<1>8. /\ DirCount' = n + 1 /\ EcCount' = EcCount /\ AdmCount' = AdmCount /\ FctCount' = FctCount
  BY <1>1, <1>4, <1>7 DEF DirCount, EcCount, AdmCount, FctCount
<1>9. Directories'
  <2>1. DLinked(dNext, db'.DB, db'.DB_NUM)
    BY <1>3, <1>4, <1>6 DEF DLinked, Height, k, r, n
  <2> QED BY <1>1, <1>3, <1>6, <1>8, <2>1 DEF Directories
<1>10. /\ db'.CB = db.CB /\ db'.CB_NUM = db.CB_NUM /\ db'.AB = db.AB /\ db'.AB_NUM = db.AB_NUM
       /\ db'.SC = db.SC /\ db'.SC_NUM = db.SC_NUM
  BY <1>5 DEF SameBut, Tables
<1>11. Credits' /\ Factoids'
  BY <1>1, <1>8, <1>10, CreditsKept, FactoidsKept DEF Ledgers
<1>12. Admins'
  <2>1. AChain(db.AB, db.AB_NUM, AdmCount) /\ AOpen(aNext, db.AB, db.AB_NUM, AdmCount)
    BY DEF Ledgers, Admins
  <2>2. PICK v : aNext' = AddABEntry(aNext, ABEntry("sig", v))
    BY <1>1 DEF SignDirectoryBlock
  <2>3. AOpen(aNext', db.AB, db.AB_NUM, AdmCount)
    BY <2>1, <2>2, AOpenAdded, SigIsEntry
  <2> QED BY <1>8, <1>10, <2>1, <2>3 DEF Admins
<1> QED BY <1>4, <1>5, <1>6, <1>7, <1>9, <1>11, <1>12 DEF Ledgers, k, r, n

\* The list of messages goes into the open blocks.
LEMMA ListLedgers == ASSUME Engine, Ledgers, buildFromProcessList PROVE Ledgers'
<1> DEFINE m == Head(plist)
<1>0. Tabled /\ Control /\ OpenEBlocks
  BY DEF Engine
<1>1. /\ pc = "build" /\ plist # <<>> /\ pc' \in {"build", "ec"}
      /\ UNCHANGED <<fNext, dNext, sealed>>
      /\ \/ m.type = "reveal" /\ buildReveal(UnmarshalEntry(m.body))
         \/ m.type = "commit" /\ buildCommit(m.body)
         \/ m.type = "buy"    /\ buildIncreaseBalance(m.body)
         \/ m.type = "eom"    /\ buildEndOfMinute(m.body)
  BY DEF buildFromProcessList
<1>2. /\ m.type = "reveal" => \E c \in Chains, x \in Contents : UnmarshalEntry(m.body) = Entry(c, x)
      /\ m.type = "eom" => m.body \in 1 .. LastMinute
      /\ m.type = "buy" => m.body \in Payments
  BY <1>0, <1>1, NextMessage
<1> HIDE DEF m
<1>3. \A f \in LedgerTables : db'[f] = db[f]
  <2>1. CASE m.type = "reveal" /\ buildReveal(UnmarshalEntry(m.body))
    <3>1. PICK c \in Chains, x \in Contents : UnmarshalEntry(m.body) = Entry(c, x)
      BY <1>2, <2>1
    <3>2. SameBut(db', db, {"ENTRY", "CHAIN_HASH"})
      BY <1>0, <2>1, <3>1, Revealed
    <3> QED BY <3>2 DEF SameBut, Tables, LedgerTables
  <2>2. CASE db' = db
    BY <2>2
  <2> QED BY <1>1, <2>1, <2>2 DEF buildCommit, buildIncreaseBalance, buildEndOfMinute
<1>4. ECOpen(ecNext, db.CB, db.CB_NUM, EcCount) /\ AOpen(aNext, db.AB, db.AB_NUM, AdmCount)
  BY DEF Ledgers, Credits, Admins
<1>5. ECOpen(ecNext', db.CB, db.CB_NUM, EcCount)
  <2>1. \/ UNCHANGED ecNext
        \/ \E e : IsCredit(e) /\ ecNext' = AddECEntry(ecNext, e)
        \/ \E s : AreCredits(s) /\ ecNext' = AddECEntries(ecNext, s)
    <3>1. CASE m.type = "reveal" /\ buildReveal(UnmarshalEntry(m.body))
      BY <3>1 DEF buildReveal
    <3>2. CASE m.type = "commit" /\ buildCommit(m.body)
      BY <3>2, CreditsAre DEF buildCommit
    <3>3. CASE m.type = "buy" /\ buildIncreaseBalance(m.body)
      <4>1. PICK t \in Payments : t = m.body
        BY <1>2, <3>3
      <4>2. ecNext' = AddECEntries(ecNext, [i \in DOMAIN t |-> Increase("tx", i - 1, t[i])])
        BY <3>3, <4>1 DEF buildIncreaseBalance
      <4> QED BY <4>2, PurchaseIs
    <3>4. CASE m.type = "eom" /\ buildEndOfMinute(m.body)
      <4>1. m.body \in Nat
        BY <1>2, <3>4, WebAssumption
      <4> QED BY <3>4, <4>1, CreditsAre DEF buildEndOfMinute
    <3> QED BY <1>1, <3>1, <3>2, <3>3, <3>4
  <2> QED BY <1>4, <2>1, ECOpenAdded, ECOpenJoined
<1>6. AOpen(aNext', db.AB, db.AB_NUM, AdmCount)
  <2>1. UNCHANGED aNext \/ \E v : aNext' = AddABEntry(aNext, ABEntry("minute", v))
    BY <1>1 DEF buildReveal, buildCommit, buildIncreaseBalance, buildEndOfMinute
  <2> QED BY <1>4, <2>1, AOpenAdded, SigIsEntry
<1>7. Height' = Height
  BY <1>1 DEF Height
<1>8. EcCount' = EcCount /\ AdmCount' = AdmCount /\ FctCount' = FctCount /\ DirCount' = DirCount
  BY <1>1, <1>7 DEF EcCount, AdmCount, FctCount, DirCount
<1>9. Credits' /\ Admins'
  BY <1>3, <1>5, <1>6, <1>8 DEF Ledgers, Credits, Admins, LedgerTables
<1>10. Factoids' /\ Directories'
  <2>1. SameHeader(dNext', dNext) /\ (pc # "init" => IsDBlock(dNext'))
    BY <1>1 DEF SameHeader, Ledgers, Directories
  <2> QED BY <1>1, <1>3, <1>7, <1>8, <2>1, FactoidsKept, DirectoriesKept DEF Ledgers, LedgerTables
<1> QED BY <1>9, <1>10 DEF Ledgers

\* The steps that seal a block.
LEMMA SealingLedgers ==
    ASSUME Engine, Ledgers,
           newEntryCreditBlock \/ newAdminBlock \/ newFactoidBlock \/ newEntryBlock
    PROVE  Ledgers'
<1>0. Tabled /\ IsDBlock(dNext) /\ {pc, pc'} \subseteq {"ec", "admin", "fct", "entry"}
  BY DEF Engine, Ledgers, Directories, newEntryCreditBlock, newAdminBlock, newFactoidBlock,
         newEntryBlock
<1>1. IsDBlock(dNext') /\ SameHeader(dNext', dNext) /\ Height' = Height
  BY <1>0, ListedInDBlock
<1>2. CASE newEntryCreditBlock
  <2>1. Credits' /\ SameBut(db', db, {"CB", "CB_NUM", "CHAIN_HEAD"})
    BY <1>2, CreditsStored
  <2>2. pc = "ec" /\ pc' = "admin" /\ UNCHANGED <<aNext, fNext>>
    BY <1>2 DEF newEntryCreditBlock
  <2>3. AdmCount' = AdmCount /\ FctCount' = FctCount
    BY <1>1, <2>2 DEF AdmCount, FctCount
  <2>4. \A f \in LedgerTables \ {"CB", "CB_NUM"} : db'[f] = db[f]
    BY <2>1 DEF SameBut, Tables, LedgerTables
  <2> QED BY <1>0, <1>1, <2>1, <2>2, <2>3, <2>4, AdminsKept, FactoidsKept, DirectoriesKept
             DEF Ledgers, LedgerTables
<1>3. CASE newAdminBlock
  <2>1. Admins' /\ SameBut(db', db, {"AB", "AB_NUM", "CHAIN_HEAD"})
    BY <1>3, AdminsStored
  <2>2. pc = "admin" /\ pc' = "fct" /\ UNCHANGED <<ecNext, fNext>>
    BY <1>3 DEF newAdminBlock
  <2>3. EcCount' = EcCount /\ FctCount' = FctCount
    BY <1>1, <2>2 DEF EcCount, FctCount
  <2>4. \A f \in LedgerTables \ {"AB", "AB_NUM"} : db'[f] = db[f]
    BY <2>1 DEF SameBut, Tables, LedgerTables
  <2> QED BY <1>0, <1>1, <2>1, <2>2, <2>3, <2>4, CreditsKept, FactoidsKept, DirectoriesKept
             DEF Ledgers, LedgerTables
<1>4. CASE newFactoidBlock
  <2>1. Factoids' /\ SameBut(db', db, {"SC", "SC_NUM", "CHAIN_HEAD"})
    BY <1>4, FactoidsStored
  <2>2. pc = "fct" /\ pc' = "entry" /\ UNCHANGED <<ecNext, aNext>>
    BY <1>4 DEF newFactoidBlock
  <2>3. EcCount' = EcCount /\ AdmCount' = AdmCount
    BY <1>1, <2>2 DEF EcCount, AdmCount
  <2>4. \A f \in LedgerTables \ {"SC", "SC_NUM"} : db'[f] = db[f]
    BY <2>1 DEF SameBut, Tables, LedgerTables
  <2> QED BY <1>0, <1>1, <2>1, <2>2, <2>3, <2>4, CreditsKept, AdminsKept, DirectoriesKept
             DEF Ledgers, LedgerTables
<1>5. CASE newEntryBlock
  <2>1. pc = "entry" /\ UNCHANGED <<pc, ecNext, aNext, fNext>>
    BY <1>5 DEF newEntryBlock
  <2>2. EcCount' = EcCount /\ AdmCount' = AdmCount /\ FctCount' = FctCount
    BY <1>1, <2>1 DEF EcCount, AdmCount, FctCount
  <2>3. \A f \in LedgerTables : db'[f] = db[f]
    <3>1. PICK c \in todo : EBPassed(c) \/ EBStored(c)
      BY <1>5, EBlockSealed
    <3>2. CASE EBPassed(c)
      BY <3>2 DEF EBPassed
    <3>3. CASE EBStored(c)
      <4>1. EBSealed(c).entries # <<>> /\ db' = ProcessEBlockBatch(db, EBSealed(c))
        BY <3>3 DEF EBStored, EBFields
      <4>2. SameBut(db', db, {"EB", "EB_MR", "EB_CHAIN_NUM", "CHAIN_HEAD"})
        <5>1. IsRecord(db, Tables)
          BY <1>0 DEF Tabled
        <5> QED BY <4>1, <5>1, EBlockBatch
      <4> QED BY <4>2 DEF SameBut, Tables, LedgerTables
    <3> QED BY <3>1, <3>2, <3>3
  <2> QED BY <1>0, <1>1, <2>1, <2>2, <2>3, CreditsKept, AdminsKept, FactoidsKept, DirectoriesKept
             DEF Ledgers, LedgerTables
<1> QED BY <1>2, <1>3, <1>4, <1>5

LEMMA RestartLedgers == ASSUME Engine, Ledgers, Restart PROVE Ledgers'
<1>1. pc = "serve" /\ pc' = "init" /\ UNCHANGED <<db, ecNext, aNext, fNext, dNext, sealed>>
  BY DEF Restart, open
<1> QED BY <1>1, LedgersKept

LEMMA OtherLedgers ==
    ASSUME Engine, Ledgers,
           EndOfMinute \/ UNCHANGED <<store, engine>> \/ \E msgs : Post(msgs)
    PROVE  Ledgers'
<1>1. /\ UNCHANGED <<db, ecNext, aNext, fNext, dNext, sealed>>
      /\ pc' = pc \/ (pc # "init" /\ {pc, pc'} \subseteq {"init", "serve", "build"})
  BY DEF EndOfMinute, Post, store, engine, open
<1> QED BY <1>1, LedgersKept

LEMMA NextLedgers == ASSUME Engine, Ledgers, [Next]_vars PROVE Ledgers'
<1>1. CASE Start
  BY <1>1, StartLedgers
<1>2. CASE Restart
  BY <1>2, RestartLedgers
<1>3. CASE EndOfMinute
  BY <1>3, OtherLedgers
<1>4. CASE Build
  BY <1>4, ListLedgers, SealingLedgers, DirectorySealed, DirectoryWritten DEF Build
<1>5. CASE \E msgs : Post(msgs)
  BY <1>5, OtherLedgers
<1>6. CASE Requests \/ Reads
  BY <1>6, ReadsKeep, OtherLedgers
<1>7. CASE UNCHANGED vars
  BY <1>7, OtherLedgers DEF vars
<1> QED BY <1>1, <1>2, <1>3, <1>4, <1>5, <1>6, <1>7 DEF Next

LEMMA AlwaysLedgers == Spec => []Ledgers
<1>1. Init => Ledgers
  BY InitLedgers DEF Ledgers
<1> QED BY <1>1, NextLedgers, AlwaysEngine, PTL DEF Spec

\* Types, and the heights of what is built, what is stored and what is cached.
THEOREM TypesOK == Spec => []TypeOK
<1>1. ASSUME Engine, Ledgers PROVE TypeOK
  <2>1. Control
    BY <1>1 DEF Engine
  <2>2. pc # "init" => Height = Cardinality(DBlocks) + IF pc = "dir" THEN 1 ELSE 0
    <3>1. Cardinality(DBlocks) = DirCount
      BY <1>1, DBlocksCounted DEF Ledgers, Directories, DBlocks
    <3> QED BY <2>1, <3>1 DEF DirCount, Control
  <2>3. dbLock = (pc = "dir") /\ (sealed # Nil) = (pc = "dir")
    BY <2>1, Zenon DEF Control
  <2> QED BY <2>1, <2>2, <2>3 DEF TypeOK, Control, Points
<1> QED BY <1>1, AlwaysEngine, AlwaysLedgers, PTL

\* The entry credit block that is about to be stored is read back, with a purchase
\* of any amount with any output.
THEOREM PurchasesAreReadBack == Spec => []PurchasesReadBack
<1>1. ASSUME Ledgers PROVE PurchasesReadBack
  <2> SUFFICES ASSUME NEW n \in Words, NEW v \in Words,
                      NEW b, b = [ecNext EXCEPT !.entries = <<Increase("tx", n, v)>> \o @]
               PROVE  UnmarshalECBlock(MarshalECBlock(b)) = BuildECBlockHeader(b)
    BY DEF PurchasesReadBack
  <2> DEFINE e == Increase("tx", n, v)
             r == ecNext.entries
             s == <<e>> \o r
  <2>1. IsECBlock(ecNext)
    BY <1>1 DEF Ledgers, Credits, ECOpen
  <2>2. r \in Seq(ToSet(r)) /\ \A i \in 1 .. Len(r) : IsCredit(r[i])
    BY <2>1 DEF IsECBlock
  <2>3. IsCredit(e)
    BY CreditsAre
  <2> HIDE DEF e, r
  <2>4. s \in Seq(ToSet(r) \cup {e}) /\ Len(s) = Len(r) + 1 /\ s[1] = e
        /\ \A i \in 2 .. Len(s) : s[i] = r[i - 1]
    BY <2>2
  <2>5. \A i \in 1 .. Len(s) : IsCredit(s[i])
    <3> SUFFICES ASSUME NEW i \in 1 .. Len(s) PROVE IsCredit(s[i])
      OBVIOUS
    <3>1. CASE i = 1
      BY <2>3, <2>4, <3>1
    <3>2. CASE i # 1
      <4>1. i \in 2 .. Len(s) /\ i - 1 \in 1 .. Len(r)
        BY <2>2, <2>4, <3>2
      <4> QED BY <2>2, <2>4, <4>1
    <3> QED BY <3>1, <3>2
  <2>6. s \in Seq(ToSet(s))
    BY <2>4, SeqOfItself
  <2>7. b = [ecNext EXCEPT !.entries = s]
    BY DEF e, r
  <2> HIDE DEF s
  <2>8. IsRecord(b, ECFields) /\ b.entries = s /\ b.height = ecNext.height
    <3>1. ecNext = [f \in ECFields |-> ecNext[f]] /\ DOMAIN ecNext = ECFields
      BY <2>1 DEF IsECBlock, IsRecord
    <3> QED BY ONLY <2>7, <3>1 DEF IsRecord, ECFields
  <2>9. IsECBlock(b)
    BY <2>1, <2>5, <2>6, <2>8 DEF IsECBlock
  <2> QED BY <2>9, ECBlockReadsBack
<1> QED BY <1>1, AlwaysLedgers, PTL

----------------------------------------------------------------------------
\* Stored entry blocks. A row is found under its block's hash, a KeyMR leads to
\* the block that has it, and a block names its stored predecessor.

EAt(t, k) == UnmarshalEBlock(t[k])

ERowIs(t, k) ==
    LET b == EAt(t, k)
    IN  /\ IsEBlock(b) /\ b.entries # <<>> /\ b = BuildEBlockHeader(b)
        /\ k = EBlockHash(b) /\ t[k] = MarshalEBlock(b)

\* The predecessor has a height below h.
ELinked(b, h, t) ==
    IF b.seq = 0 THEN b.prevLedgerKeyMR = NewHash /\ b.prevKeyMR = NewHash
    ELSE /\ b.prevLedgerKeyMR \in DOMAIN t
         /\ LET prev == EAt(t, b.prevLedgerKeyMR)
            IN  prev.seq = b.seq - 1 /\ EBlockKeyMR(prev) = b.prevKeyMR /\ prev.height < h

ETables(t, mr) ==
    /\ \A k \in DOMAIN t :
        /\ ERowIs(t, k) /\ ELinked(EAt(t, k), EAt(t, k).height, t)
        /\ EBlockKeyMR(EAt(t, k)) \in DOMAIN mr
    /\ \A r \in DOMAIN mr : mr[r] \in DOMAIN t /\ EBlockKeyMR(EAt(t, mr[r])) = r

\* Rows are added and none is changed.
Grown(t, u) == DOMAIN t \subseteq DOMAIN u /\ \A k \in DOMAIN t : u[k] = t[k]

LEMMA ELinkedKept ==
    ASSUME NEW b, NEW h, NEW t, ELinked(b, h, t), NEW u, Grown(t, u)
    PROVE  ELinked(b, h, u)
BY DEF ELinked, Grown, EAt

LEMMA ETablesGrow ==
    ASSUME NEW t, NEW mr, ETables(t, mr), NEW b, IsEBlock(b), b.entries # <<>>,
           ELinked(b, b.height, t),
           NEW k, k = EBlockHash(b), NEW r, r = EBlockKeyMR(b),
           NEW u, u = Put(t, k, MarshalEBlock(b)), NEW w, w = Put(mr, r, k)
    PROVE  /\ ETables(u, w) /\ Grown(t, u) /\ Grown(mr, w)
           /\ k \in DOMAIN u /\ EAt(u, k) = BuildEBlockHeader(b)
           /\ r \in DOMAIN w /\ w[r] = k
<1> DEFINE v == BuildEBlockHeader(b)
<1>1. /\ DOMAIN u = DOMAIN t \cup {k} /\ u[k] = MarshalEBlock(b)
      /\ \A x \in DOMAIN t : x # k => u[x] = t[x]
  BY DEF Put
<1>2. /\ DOMAIN w = DOMAIN mr \cup {r} /\ w[r] = k
      /\ \A x \in DOMAIN mr : x # r => w[x] = mr[x]
  BY DEF Put
<1>3. EAt(u, k) = v
  BY <1>1, EBlockReadsBack DEF EAt
<1>4. /\ IsEBlock(v) /\ BuildEBlockHeader(v) = v /\ MarshalEBlock(v) = MarshalEBlock(b)
      /\ EBlockHash(v) = k /\ EBlockKeyMR(v) = r
  BY BuiltEBlock
<1>5. /\ v.entries = b.entries /\ v.seq = b.seq /\ v.height = b.height
      /\ v.prevKeyMR = b.prevKeyMR /\ v.prevLedgerKeyMR = b.prevLedgerKeyMR
  BY BuiltFields
<1> HIDE DEF v
<1>6. Grown(t, u)
  <2>1. k \in DOMAIN t => t[k] = u[k]
    <3>1. SUFFICES ASSUME k \in DOMAIN t PROVE t[k] = u[k]
      OBVIOUS
    <3>2. k = EBlockHash(EAt(t, k)) /\ t[k] = MarshalEBlock(EAt(t, k))
      BY <3>1 DEF ETables, ERowIs
    <3> QED BY <1>1, <3>2 DEF EBlockHash, Sha
  <2> QED BY <1>1, <2>1 DEF Grown
<1>7. \A x \in DOMAIN t : EAt(u, x) = EAt(t, x)
  BY <1>6 DEF Grown, EAt
<1>8. Grown(mr, w)
  <2>1. r \in DOMAIN mr => mr[r] = k
    <3>1. SUFFICES ASSUME r \in DOMAIN mr PROVE mr[r] = k
      OBVIOUS
    <3> DEFINE c == EAt(t, mr[r])
    <3>2. mr[r] \in DOMAIN t /\ EBlockKeyMR(c) = r /\ ERowIs(t, mr[r])
      BY <3>1 DEF ETables
    <3>3. IsEBlock(c) /\ c.entries # <<>> /\ mr[r] = EBlockHash(c)
      BY <3>2 DEF ERowIs
    <3> HIDE DEF c
    <3>4. MarshalEBlock(c) = MarshalEBlock(b)
      BY <3>2, <3>3, EBKeyMRCommits
    <3> QED BY <3>3, <3>4 DEF EBlockHash
  <2> QED BY <1>2, <2>1 DEF Grown
<1>9. ASSUME NEW x \in DOMAIN u
      PROVE  /\ ERowIs(u, x) /\ ELinked(EAt(u, x), EAt(u, x).height, u)
             /\ EBlockKeyMR(EAt(u, x)) \in DOMAIN w
  <2>1. CASE x = k
    <3>1. ERowIs(u, x)
      BY <1>1, <1>3, <1>4, <1>5, <2>1 DEF ERowIs
    <3>2. ELinked(b, b.height, u)
      BY <1>6, ELinkedKept
    <3>3. ELinked(v, v.height, u)
      BY <1>5, <3>2 DEF ELinked
    <3> QED BY <1>2, <1>3, <1>4, <2>1, <3>1, <3>3
  <2>2. CASE x # k
    <3>1. x \in DOMAIN t
      BY <1>1, <2>2
    <3>2. /\ ERowIs(t, x) /\ ELinked(EAt(t, x), EAt(t, x).height, t)
          /\ EBlockKeyMR(EAt(t, x)) \in DOMAIN mr
      BY <3>1 DEF ETables
    <3>3. EAt(u, x) = EAt(t, x) /\ u[x] = t[x]
      BY <1>6, <1>7, <3>1 DEF Grown
    <3>4. ERowIs(u, x)
      BY <3>2, <3>3 DEF ERowIs
    <3>5. ELinked(EAt(u, x), EAt(u, x).height, u)
      BY <1>6, <3>2, <3>3, ELinkedKept
    <3> QED BY <1>2, <3>2, <3>3, <3>4, <3>5
  <2> QED BY <2>1, <2>2
<1>10. ASSUME NEW x \in DOMAIN w PROVE w[x] \in DOMAIN u /\ EBlockKeyMR(EAt(u, w[x])) = x
  <2>1. CASE x = r
    BY <1>1, <1>2, <1>3, <1>4, <2>1
  <2>2. CASE x # r
    <3>1. x \in DOMAIN mr /\ w[x] = mr[x]
      BY <1>2, <2>2
    <3>2. mr[x] \in DOMAIN t /\ EBlockKeyMR(EAt(t, mr[x])) = x
      BY <3>1 DEF ETables
    <3> QED BY <1>1, <1>7, <3>1, <3>2
  <2> QED BY <2>1, <2>2
<1>11. ETables(u, w)
  BY <1>9, <1>10 DEF ETables
<1> QED BY <1>1, <1>2, <1>3, <1>6, <1>8, <1>11 DEF v

----------------------------------------------------------------------------
\* The range of keys that belongs to a chain id.

\* Ids that do not end in the largest byte.
Ordinary(c) == c[Len(c)] # ByteMax

IsChainID(c) == c \in Seq(0 .. ByteMax) /\ c # <<>>

LEMMA ChainIDs == \A c, d \in Chains : IsChainID(c) /\ Len(c) = Len(d)
BY WebAssumption DEF IsChainID

LEMMA SomeSeq ==
    ASSUME NEW S, NEW s \in Seq(S), s # <<>>
    PROVE  Len(s) \in Nat \ {0} /\ DOMAIN s = 1 .. Len(s) /\ \A i \in 1 .. Len(s) : s[i] \in S
OBVIOUS

LEMMA LongerSeq ==
    ASSUME NEW S, NEW s \in Seq(S), NEW x, NEW t, t = Append(s, x)
    PROVE  /\ t \in Seq(S \cup {x}) /\ Len(t) = Len(s) + 1 /\ t[Len(s) + 1] = x
           /\ \A i \in 1 .. Len(s) : t[i] = s[i]
<1>1. s \in Seq(S \cup {x})
  OBVIOUS
<1> QED BY <1>1

LEMMA ChainIDIs ==
    ASSUME NEW c, IsChainID(c)
    PROVE  /\ Len(c) \in Nat \ {0} /\ DOMAIN c = 1 .. Len(c)
           /\ \A i \in 1 .. Len(c) : c[i] \in 0 .. ByteMax
BY SomeSeq DEF IsChainID

\* The end of the range.
LEMMA LimitIs ==
    ASSUME NEW c, IsChainID(c), NEW n, n = Len(c), NEW u, u = addOneToByteArray(c)
    PROVE  /\ n \in Nat \ {0} /\ DOMAIN c = 1 .. n /\ DOMAIN u = 1 .. n /\ Len(u) = n
           /\ \A i \in 1 .. n : c[i] \in 0 .. ByteMax
           /\ \A i \in 1 .. (n - 1) : u[i] = c[i]
           /\ u[n] = IF Ordinary(c) THEN c[n] + 1 ELSE 0
<1>0. ByteMax \in Nat \ {0}
  BY ByteAssumption
<1>1. n \in Nat \ {0} /\ DOMAIN c = 1 .. n /\ \A i \in 1 .. n : c[i] \in 0 .. ByteMax
  BY ChainIDIs
<1> DEFINE v == (c[n] + 1) % (ByteMax + 1)
<1>2. u = [c EXCEPT ![n] = v]
  BY DEF addOneToByteArray
<1>3. v = IF Ordinary(c) THEN c[n] + 1 ELSE 0
  <2>1. c[n] + 1 \in Nat /\ ByteMax + 1 \in Nat \ {0} /\ 0 \in Nat /\ 1 \in Nat
    BY <1>0, <1>1
  <2>2. CASE c[n] = ByteMax
    <3>1. c[n] + 1 = 1 * (ByteMax + 1) + 0 /\ 0 \in 0 .. ((ByteMax + 1) - 1)
      BY <1>0, <2>2
    <3> QED BY <2>1, <2>2, <3>1, DivisionIsUnique DEF Ordinary
  <2>3. CASE c[n] # ByteMax
    <3>1. c[n] + 1 = 0 * (ByteMax + 1) + (c[n] + 1) /\ c[n] + 1 \in 0 .. ((ByteMax + 1) - 1)
      BY <1>0, <1>1, <2>3
    <3> QED BY <2>1, <2>3, <3>1, DivisionIsUnique DEF Ordinary
  <2> QED BY <2>2, <2>3
<1> HIDE DEF v
<1>4. DOMAIN u = 1 .. n /\ u[n] = v /\ \A i \in 1 .. (n - 1) : u[i] = c[i]
  BY <1>1, <1>2
<1>5. Len(u) = n
  <2>1. u = [i \in 1 .. n |-> u[i]]
    BY <1>1, <1>2
  <2> QED BY <1>1, <2>1
<1> QED BY <1>1, <1>3, <1>4, <1>5

\* A longer key is no prefix.
LEMMA LongerIsNoPrefix ==
    ASSUME NEW a, NEW b, Len(a) \in Nat, Len(b) \in Nat, Len(a) > Len(b)
    PROVE  ~IsStrictPrefix(a, b)
BY DEF IsStrictPrefix, IsPrefix

LEMMA KeyIs ==
    ASSUME NEW d, IsChainID(d), NEW j, NEW k, k = Append(d, j)
    PROVE  /\ Len(d) \in Nat \ {0} /\ Len(k) = Len(d) + 1 /\ DOMAIN k = 1 .. (Len(d) + 1)
           /\ k[Len(d) + 1] = j /\ \A i \in 1 .. Len(d) : k[i] = d[i]
<1>0. PICK S : S = 0 .. ByteMax
  OBVIOUS
<1>1. d \in Seq(S) /\ Len(d) \in Nat \ {0}
  BY <1>0, ChainIDIs DEF IsChainID
<1>2. /\ k \in Seq(S \cup {j}) /\ Len(k) = Len(d) + 1 /\ k[Len(d) + 1] = j
      /\ \A i \in 1 .. Len(d) : k[i] = d[i]
  BY ONLY <1>1, LongerSeq, k = Append(d, j)
<1> QED BY <1>1, <1>2

\* In the range of c are the keys of c, unless c ends in the largest byte.
LEMMA KeysOfChain ==
    ASSUME NEW c, IsChainID(c), NEW d, IsChainID(d), Len(c) = Len(d), NEW j, NEW k, k = Append(d, j),
           NEW u, u = addOneToByteArray(c)
    PROVE  (~KeyLess(k, c) /\ KeyLess(k, u)) <=> (d = c /\ Ordinary(c))
<1> DEFINE n == Len(c)
<1>1. /\ n \in Nat \ {0} /\ DOMAIN c = 1 .. n /\ DOMAIN u = 1 .. n /\ Len(u) = n
      /\ \A i \in 1 .. n : c[i] \in 0 .. ByteMax
      /\ \A i \in 1 .. (n - 1) : u[i] = c[i]
      /\ u[n] = IF Ordinary(c) THEN c[n] + 1 ELSE 0
  BY LimitIs
<1>2. \A i \in 1 .. n : d[i] \in 0 .. ByteMax
  BY ChainIDIs
<1>3. Len(k) = n + 1 /\ DOMAIN k = 1 .. (n + 1) /\ \A i \in 1 .. n : k[i] = d[i]
  BY KeyIs
<1>4. ByteMax \in Nat
  BY ByteAssumption
<1>5. Len(c) = n
  OBVIOUS
<1> HIDE DEF n
<1>6. ~IsStrictPrefix(k, c) /\ ~IsStrictPrefix(k, u)
  <2>1. Len(k) \in Nat /\ Len(c) \in Nat /\ Len(u) \in Nat /\ Len(k) > Len(c) /\ Len(k) > Len(u)
    BY <1>1, <1>3, <1>5
  <2> QED BY <2>1, LongerIsNoPrefix
<1>7. (1 .. (n + 1)) \cap (1 .. n) = 1 .. n
  BY <1>1
<1>8. KeyLess(k, c) <=> \E i \in 1 .. n : d[i] < c[i] /\ \A l \in 1 .. (i - 1) : d[l] = c[l]
  <2>1. KeyLess(k, c) <=> \E i \in 1 .. n : k[i] < c[i] /\ \A l \in 1 .. (i - 1) : k[l] = c[l]
    BY <1>1, <1>3, <1>6, <1>7 DEF KeyLess
  <2> QED BY <1>1, <1>3, <2>1
<1>9. KeyLess(k, u) <=> \E i \in 1 .. n : d[i] < u[i] /\ \A l \in 1 .. (i - 1) : d[l] = u[l]
  <2>1. KeyLess(k, u) <=> \E i \in 1 .. n : k[i] < u[i] /\ \A l \in 1 .. (i - 1) : k[l] = u[l]
    BY <1>1, <1>3, <1>6, <1>7 DEF KeyLess
  <2> QED BY <1>1, <1>3, <2>1
<1>10. ASSUME ~KeyLess(k, c), KeyLess(k, u) PROVE d = c /\ Ordinary(c)
  <2>1. PICK i \in 1 .. n : d[i] < u[i] /\ \A l \in 1 .. (i - 1) : d[l] = u[l]
    BY <1>9, <1>10
  <2>2. \A l \in 1 .. (i - 1) : d[l] = c[l]
    BY <1>1, <2>1
  <2>3. i = n /\ Ordinary(c)
    <3>1. ASSUME i # n PROVE FALSE
      <4>1. u[i] = c[i]
        BY <1>1, <3>1
      <4> QED BY <1>8, <1>10, <2>1, <2>2, <4>1
    <3>2. ASSUME ~Ordinary(c), i = n PROVE FALSE
      BY <1>1, <1>2, <1>4, <2>1, <3>2
    <3> QED BY <3>1, <3>2
  <2>4. ~(d[n] < c[n])
    BY <1>8, <1>10, <2>2, <2>3
  <2>5. d[n] = c[n]
    BY <1>1, <1>2, <1>4, <2>1, <2>3, <2>4
  <2>6. \A l \in 1 .. n : d[l] = c[l]
    BY <1>1, <2>2, <2>3, <2>5
  <2>7. d = c
    <3>1. c \in Seq(0 .. ByteMax) /\ d \in Seq(0 .. ByteMax) /\ Len(d) = n /\ Len(c) = n
      BY <1>5 DEF IsChainID
    <3> QED BY <2>6, <3>1
  <2> QED BY <2>3, <2>7
<1>11. ASSUME d = c, Ordinary(c) PROVE ~KeyLess(k, c) /\ KeyLess(k, u)
  <2>1. ~KeyLess(k, c)
    BY <1>1, <1>4, <1>8, <1>11
  <2>2. d[n] < u[n] /\ \A l \in 1 .. (n - 1) : d[l] = u[l]
    BY <1>1, <1>4, <1>11
  <2>3. n \in 1 .. n
    BY <1>1
  <2> QED BY <1>9, <2>1, <2>2, <2>3
<1> QED BY <1>10, <1>11

\* The keys of a chain are ordered by their numbers.
LEMMA KeyOrder ==
    ASSUME NEW c, IsChainID(c), NEW i \in Nat, NEW j \in Nat
    PROVE  /\ KeyLess(Append(c, i), Append(c, j)) <=> i < j
           /\ Append(c, i) = Append(c, j) => i = j
<1> DEFINE n == Len(c)
           a == Append(c, i)
           b == Append(c, j)
<1>0. ASSUME NEW x, NEW k, k = Append(c, x)
      PROVE  /\ n \in Nat \ {0} /\ Len(k) = n + 1 /\ DOMAIN k = 1 .. (n + 1) /\ k[n + 1] = x
             /\ \A l \in 1 .. n : k[l] = c[l]
  BY <1>0, KeyIs
<1>1. /\ n \in Nat \ {0} /\ Len(a) = n + 1 /\ DOMAIN a = 1 .. (n + 1) /\ a[n + 1] = i
      /\ \A l \in 1 .. n : a[l] = c[l]
  BY <1>0
<1>2. /\ Len(b) = n + 1 /\ DOMAIN b = 1 .. (n + 1) /\ b[n + 1] = j
      /\ \A l \in 1 .. n : b[l] = c[l]
  BY <1>0
<1>3. a \in Seq((0 .. ByteMax) \cup {i}) /\ b \in Seq((0 .. ByteMax) \cup {j})
  BY LongerSeq DEF IsChainID
<1>4. \A l \in 1 .. n : c[l] \in 0 .. ByteMax
  BY ChainIDIs
<1>5. ByteMax \in Nat
  BY ByteAssumption
<1> HIDE DEF n, a, b
<1>6. ~IsStrictPrefix(a, b)
  <2>1. SubSeq(a, 1, n + 1) = a /\ SubSeq(b, 1, n + 1) = b
    BY <1>1, <1>2, <1>3
  <2> QED BY <1>1, <1>2, <2>1 DEF IsStrictPrefix, IsPrefix
<1>7. KeyLess(a, b) <=> \E x \in 1 .. (n + 1) : a[x] < b[x] /\ \A l \in 1 .. (x - 1) : a[l] = b[l]
  BY <1>1, <1>2, <1>6 DEF KeyLess
<1>8. ASSUME i < j PROVE KeyLess(a, b)
  <2>1. n + 1 \in 1 .. (n + 1) /\ a[n + 1] < b[n + 1] /\ \A l \in 1 .. ((n + 1) - 1) : a[l] = b[l]
    BY <1>1, <1>2, <1>8
  <2> QED BY <1>7, <2>1
<1>9. ASSUME KeyLess(a, b) PROVE i < j
  <2>1. PICK x \in 1 .. (n + 1) : a[x] < b[x]
    BY <1>7, <1>9
  <2>2. CASE x \in 1 .. n
    BY <1>1, <1>2, <1>4, <1>5, <2>1, <2>2
  <2>3. CASE x = n + 1
    BY <1>1, <1>2, <2>1, <2>3
  <2> QED BY <1>1, <2>2, <2>3
<1>10. a = b => i = j
  BY <1>1, <1>2
<1> QED BY <1>8, <1>9, <1>10 DEF a, b

\* The m stored blocks of the chain c are filed under their numbers, and no other.
Numbered(c, m, num, t) ==
    /\ m \in Nat
    /\ \A j \in Nat : Append(c, j) \in DOMAIN num <=> j < m
    /\ \A j \in 0 .. (m - 1) : LET b == EAt(t, num[Append(c, j)]) IN b.chain = c /\ b.seq = j
    /\ \A k \in DOMAIN t : LET b == EAt(t, k)
                           IN  b.chain = c => b.seq < m /\ num[Append(c, b.seq)] = k

Filed(num, t) ==
    /\ \A k \in DOMAIN num : num[k] \in DOMAIN t /\ \E c \in Chains, j \in Nat : k = Append(c, j)
    /\ \A c \in Chains : Ordinary(c) => \E m \in Nat : Numbered(c, m, num, t)

KeysBelow(c, n) == {Append(c, j) : j \in 0 .. (n - 1)}

LEMMA CountKeys ==
    ASSUME NEW c, IsChainID(c), NEW n \in Nat PROVE Cardinality(KeysBelow(c, n)) = n
<1> DEFINE f == [j \in 0 .. (n - 1) |-> Append(c, j)]
           K == KeysBelow(c, n)
<1>1. f \in [0 .. (n - 1) -> K] /\ \A k \in K : \E j \in 0 .. (n - 1) : f[j] = k
  BY DEF KeysBelow
<1>2. \A i, j \in 0 .. (n - 1) : f[i] = f[j] => i = j
  <2> SUFFICES ASSUME NEW i \in 0 .. (n - 1), NEW j \in 0 .. (n - 1), f[i] = f[j] PROVE i = j
    OBVIOUS
  <2>1. i \in Nat /\ j \in Nat /\ Append(c, i) = Append(c, j)
    OBVIOUS
  <2> QED BY <2>1, KeyOrder
<1> HIDE DEF f, K
<1>3. ExistsBijection(0 .. (n - 1), K)
  <2>1. f \in Bijection(0 .. (n - 1), K)
    BY ONLY <1>1, <1>2, Fun_IsBij
  <2> QED BY <2>1 DEF ExistsBijection
<1>4. IsFiniteSet(0 .. (n - 1)) /\ Cardinality(0 .. (n - 1)) = n
  BY FS_Interval
<1>5. Cardinality(K) = n
  BY <1>3, <1>4, FS_Bijection
<1> QED BY <1>5 DEF K

LEMMA EFetched ==
    ASSUME NEW d, ETables(d.EB, d.EB_MR), NEW k \in DOMAIN d.EB
    PROVE  FetchEBlockByHash(d, k) = EAt(d.EB, k) /\ EAt(d.EB, k) # Nil /\ IsEBlock(EAt(d.EB, k))
<1> DEFINE b == EAt(d.EB, k)
<1>1. IsEBlock(b) /\ d.EB[k] = MarshalEBlock(b)
  BY DEF ETables, ERowIs
<1>2. b = UnmarshalEBlock(d.EB[k])
  BY DEF EAt
<1> HIDE DEF b
<1>3. d.EB[k] # Nil
  BY <1>1, EBytesAreSome
<1>4. FetchEBlockByHash(d, k) = b
  BY <1>2, <1>3 DEF FetchEBlockByHash, Get, Parsed
<1>5. b # Nil
  BY <1>1 DEF IsEBlock, IsRecord, EBFields, Nil
<1> QED BY <1>1, <1>4, <1>5 DEF b

InRange(num, c) == {k \in DOMAIN num : ~KeyLess(k, c) /\ KeyLess(k, addOneToByteArray(c))}

LEMMA RangeIs ==
    ASSUME NEW num, NEW t, Filed(num, t), NEW c \in Chains
    PROVE  /\ ~Ordinary(c) => InRange(num, c) = {}
           /\ \A m : Ordinary(c) /\ Numbered(c, m, num, t) => InRange(num, c) = KeysBelow(c, m)
<1>1. \A k \in DOMAIN num : \E d \in Chains, j \in Nat : k = Append(d, j)
  BY DEF Filed
<1>2. ASSUME NEW d \in Chains, NEW j \in Nat, NEW k, k = Append(d, j)
      PROVE  (~KeyLess(k, c) /\ KeyLess(k, addOneToByteArray(c))) <=> (d = c /\ Ordinary(c))
  <2>1. IsChainID(c) /\ IsChainID(d) /\ Len(c) = Len(d)
    BY ChainIDs
  <2>2. PICK u : u = addOneToByteArray(c)
    OBVIOUS
  <2>3. (~KeyLess(k, c) /\ KeyLess(k, u)) <=> (d = c /\ Ordinary(c))
    BY <1>2, <2>1, <2>2, KeysOfChain
  <2> QED BY <2>2, <2>3
<1>3. \A k : k \in InRange(num, c) <=>
            k \in DOMAIN num /\ Ordinary(c) /\ \E j \in Nat : k = Append(c, j)
  <2> TAKE k
  <2>1. k \in InRange(num, c) => k \in DOMAIN num /\ Ordinary(c) /\ \E j \in Nat : k = Append(c, j)
    <3> SUFFICES ASSUME k \in InRange(num, c)
                 PROVE  k \in DOMAIN num /\ Ordinary(c) /\ \E j \in Nat : k = Append(c, j)
      OBVIOUS
    <3>1. k \in DOMAIN num /\ ~KeyLess(k, c) /\ KeyLess(k, addOneToByteArray(c))
      BY DEF InRange
    <3>2. PICK d \in Chains, j \in Nat : k = Append(d, j)
      BY <1>1, <3>1
    <3> QED BY <1>2, <3>1, <3>2
  <2>2. ASSUME k \in DOMAIN num, Ordinary(c), NEW j \in Nat, k = Append(c, j)
        PROVE  k \in InRange(num, c)
    BY <1>2, <2>2 DEF InRange
  <2> QED BY <2>1, <2>2
<1>4. ~Ordinary(c) => InRange(num, c) = {}
  BY <1>3
<1>5. ASSUME NEW m, Ordinary(c), Numbered(c, m, num, t) PROVE InRange(num, c) = KeysBelow(c, m)
  <2>1. m \in Nat /\ \A j \in Nat : Append(c, j) \in DOMAIN num <=> j < m
    BY <1>5 DEF Numbered
  <2>2. \A k : k \in InRange(num, c) <=> \E j \in Nat : k = Append(c, j) /\ j < m
    BY <1>3, <1>5, <2>1
  <2>3. \A k : k \in KeysBelow(c, m) <=> \E j \in Nat : k = Append(c, j) /\ j < m
    BY <2>1 DEF KeysBelow
  <2> QED BY <2>2, <2>3
<1> QED BY <1>4, <1>5

\* The scan finds the blocks of an ordinary chain in order.
LEMMA ScanIs ==
    ASSUME NEW d, ETables(d.EB, d.EB_MR), Filed(d.EB_CHAIN_NUM, d.EB), NEW c \in Chains,
           NEW u, u = FetchAllEBlocksByChain(d, c)
    PROVE  /\ ~Ordinary(c) => u = <<>>
           /\ \A m : Ordinary(c) /\ Numbered(c, m, d.EB_CHAIN_NUM, d.EB) =>
                u = [i \in 1 .. m |-> EAt(d.EB, d.EB_CHAIN_NUM[Append(c, i - 1)])]
<1> DEFINE num == d.EB_CHAIN_NUM
           keys == InRange(num, c)
           key(i) == CHOOSE k \in keys : Cardinality({o \in keys : KeyLess(o, k)}) = i - 1
<1>1. u = [i \in 1 .. Cardinality(keys) |-> FetchEBlockByHash(d, num[key(i)])]
  BY DEF FetchAllEBlocksByChain, InRange
<1>2. IsChainID(c)
  BY ChainIDs
<1>3. ~Ordinary(c) => u = <<>>
  <2> SUFFICES ASSUME ~Ordinary(c) PROVE u = <<>>
    OBVIOUS
  <2>1. keys = {}
    BY RangeIs
  <2>2. Cardinality(keys) = 0
    BY <2>1, FS_EmptySet
  <2> HIDE DEF keys, key
  <2> QED BY <1>1, <2>2
<1>4. ASSUME NEW m, Ordinary(c), Numbered(c, m, num, d.EB)
      PROVE  u = [i \in 1 .. m |-> EAt(d.EB, num[Append(c, i - 1)])]
  <2>1. keys = KeysBelow(c, m) /\ m \in Nat
    BY <1>4, RangeIs DEF Numbered
  <2>2. Cardinality(keys) = m
    BY <1>2, <2>1, CountKeys
  <2>3. ASSUME NEW j \in 0 .. (m - 1)
        PROVE  Append(c, j) \in keys /\ Cardinality({o \in keys : KeyLess(o, Append(c, j))}) = j
    <3>1. Append(c, j) \in keys
      BY <2>1 DEF KeysBelow
    <3>2. {o \in keys : KeyLess(o, Append(c, j))} = KeysBelow(c, j)
      <4>1. ASSUME NEW i \in 0 .. (m - 1) PROVE KeyLess(Append(c, i), Append(c, j)) <=> i < j
        BY <1>2, <2>1, KeyOrder
      <4>2. \A o : o \in {x \in keys : KeyLess(x, Append(c, j))} <=>
                     \E i \in 0 .. (m - 1) : o = Append(c, i) /\ i < j
        BY <2>1, <4>1 DEF KeysBelow
      <4>3. \A o : o \in KeysBelow(c, j) <=> \E i \in 0 .. (m - 1) : o = Append(c, i) /\ i < j
        BY <2>1 DEF KeysBelow
      <4> QED BY <4>2, <4>3
    <3> QED BY <1>2, <2>1, <3>1, <3>2, CountKeys
  <2>4. ASSUME NEW i \in 1 .. m PROVE key(i) = Append(c, i - 1)
    <3>1. PICK j \in 0 .. (m - 1) : j = i - 1
      BY <2>1
    <3>2. Append(c, j) \in keys /\ Cardinality({o \in keys : KeyLess(o, Append(c, j))}) = i - 1
      BY <2>3, <3>1
    <3>3. ASSUME NEW k \in keys, Cardinality({o \in keys : KeyLess(o, k)}) = i - 1
          PROVE  k = Append(c, j)
      <4>1. PICK l \in 0 .. (m - 1) : k = Append(c, l)
        BY <2>1 DEF KeysBelow
      <4>2. Cardinality({o \in keys : KeyLess(o, k)}) = l
        BY <2>3, <4>1
      <4> QED BY <3>1, <3>3, <4>1, <4>2
    <3> HIDE DEF keys
    <3> QED BY <3>1, <3>2, <3>3
  <2>5. ASSUME NEW i \in 1 .. m
        PROVE  FetchEBlockByHash(d, num[key(i)]) = EAt(d.EB, num[Append(c, i - 1)])
    <3>1. i - 1 \in 0 .. (m - 1)
      BY <2>1
    <3>2. Append(c, i - 1) \in DOMAIN num
      BY <2>3, <3>1 DEF InRange
    <3>3. num[Append(c, i - 1)] \in DOMAIN d.EB
      BY <3>2 DEF Filed
    <3> QED BY <2>4, <3>3, EFetched
  <2> HIDE DEF keys, key, num
  <2> QED BY <1>1, <2>2, <2>5
<1> QED BY <1>3, <1>4

\* What an entry block opened after the stored ones of its chain continues.
LEMMA NextOfScan ==
    ASSUME NEW d, ETables(d.EB, d.EB_MR), Filed(d.EB_CHAIN_NUM, d.EB), NEW c \in Chains,
           NEW h, \A k \in DOMAIN d.EB : EAt(d.EB, k).height < h,
           NEW s, s = FetchAllEBlocksByChain(d, c),
           NEW u, u = MakeEBlock(c, Len(s), IF s = <<>> THEN Nil ELSE Last(s))
    PROVE  /\ IsEBlock(u) /\ u.chain = c /\ u.entries = <<>> /\ ELinked(u, h, d.EB)
           /\ Ordinary(c) => Numbered(c, u.seq, d.EB_CHAIN_NUM, d.EB)
<1>1. CASE s = <<>>
  <2>1. /\ IsEBlock(u) /\ u.chain = c /\ u.seq = 0 /\ u.entries = <<>>
        /\ u.prevKeyMR = NewHash /\ u.prevLedgerKeyMR = NewHash
    <3>1. Len(s) = 0 /\ 0 \in Nat
      BY <1>1
    <3>2. u = MakeEBlock(c, 0, Nil)
      BY <1>1, <3>1
    <3> QED BY <3>1, <3>2, MadeEBlock
  <2>2. ELinked(u, h, d.EB)
    BY <2>1 DEF ELinked
  <2>3. ASSUME Ordinary(c) PROVE Numbered(c, 0, d.EB_CHAIN_NUM, d.EB)
    <3>1. PICK m \in Nat : Numbered(c, m, d.EB_CHAIN_NUM, d.EB)
      BY <2>3 DEF Filed
    <3>2. s = [i \in 1 .. m |-> EAt(d.EB, d.EB_CHAIN_NUM[Append(c, i - 1)])]
      BY <2>3, <3>1, ScanIs
    <3>3. m = 0
      <4>1. DOMAIN s = 1 .. m
        BY ONLY <3>2
      <4>2. DOMAIN s = {}
        BY <1>1
      <4> QED BY <4>1, <4>2
    <3> QED BY <3>1, <3>3
  <2> QED BY <2>1, <2>2, <2>3
<1>2. CASE s # <<>>
  <2>1. Ordinary(c)
    BY <1>2, ScanIs
  <2>2. PICK m \in Nat : Numbered(c, m, d.EB_CHAIN_NUM, d.EB)
    BY <2>1 DEF Filed
  <2> DEFINE f(i) == EAt(d.EB, d.EB_CHAIN_NUM[Append(c, i - 1)])
  <2>3. s = [i \in 1 .. m |-> f(i)]
    BY <2>1, <2>2, ScanIs
  <2> HIDE DEF f
  <2>4. m # 0
    BY <1>2, <2>3
  <2>5. Len(s) = m /\ Last(s) = f(m)
    BY <2>3, <2>4 DEF Last
  <2>6. PICK j \in 0 .. (m - 1) : j = m - 1
    BY <2>4
  <2>7. f(m) = EAt(d.EB, d.EB_CHAIN_NUM[Append(c, j)])
    BY <2>6 DEF f
  <2>8. PICK k : k = d.EB_CHAIN_NUM[Append(c, j)]
    OBVIOUS
  <2>9. k \in DOMAIN d.EB /\ EAt(d.EB, k).chain = c /\ EAt(d.EB, k).seq = j
    <3>1. j \in Nat /\ j < m
      BY <2>6
    <3>2. Append(c, j) \in DOMAIN d.EB_CHAIN_NUM
      BY <2>2, <3>1 DEF Numbered
    <3>3. EAt(d.EB, d.EB_CHAIN_NUM[Append(c, j)]).chain = c /\ EAt(d.EB, d.EB_CHAIN_NUM[Append(c, j)]).seq = j
      BY <2>2, <2>6 DEF Numbered
    <3> QED BY <2>8, <3>2, <3>3 DEF Filed
  <2> DEFINE p == EAt(d.EB, k)
  <2>10. k = EBlockHash(p) /\ p.height < h /\ p # Nil
    BY <2>9, EFetched DEF ETables, ERowIs
  <2>11. u = MakeEBlock(c, m, p)
    BY <1>2, <2>5, <2>7, <2>8
  <2> HIDE DEF p
  <2>12. /\ IsEBlock(u) /\ u.chain = c /\ u.seq = m /\ u.entries = <<>>
         /\ u.prevKeyMR = EBlockKeyMR(p) /\ u.prevLedgerKeyMR = EBlockHash(p)
    BY <2>10, <2>11, MadeEBlock
  <2>13. ELinked(u, h, d.EB)
    BY <2>4, <2>6, <2>9, <2>10, <2>12 DEF ELinked, p
  <2> QED BY <2>2, <2>12, <2>13
<1> QED BY <1>1, <1>2

----------------------------------------------------------------------------
\* An entry block is stored.

\* Every element is a marker or the hash of a stored entry, and a marker is last.
Known(s, e) == \A i \in DOMAIN s : s[i] \in Markings \cup DOMAIN e
Closed(s)   == s # <<>> => s[Len(s)] \in Markings

\* The heights of the stored blocks are below n.
Contained(t, e, n) ==
    \A k \in DOMAIN t : LET b == EAt(t, k) IN b.height < n /\ Known(b.entries, e) /\ Closed(b.entries)

\* The block follows the stored ones, whose heights are below h.
Follows(b, h, t, num) ==
    ELinked(b, h, t) /\ (Ordinary(b.chain) => Numbered(b.chain, b.seq, num, t))

LEMMA SameKey ==
    ASSUME NEW c \in Chains, NEW d \in Chains, NEW i, NEW j, Append(c, i) = Append(d, j)
    PROVE  c = d /\ i = j
<1>1. IsChainID(c) /\ IsChainID(d) /\ Len(c) = Len(d)
  BY ChainIDs
<1>2. PICK k : k = Append(c, i)
  OBVIOUS
<1> DEFINE n == Len(c)
<1>3. n \in Nat \ {0} /\ k[n + 1] = i /\ \A l \in 1 .. n : k[l] = c[l]
  BY <1>1, <1>2, KeyIs
<1>4. k[n + 1] = j /\ \A l \in 1 .. n : k[l] = d[l]
  BY <1>1, <1>2, KeyIs
<1>5. PICK S : S = 0 .. ByteMax
  OBVIOUS
<1>6. c \in Seq(S) /\ d \in Seq(S)
  BY <1>1, <1>5 DEF IsChainID
<1>7. c = d
  BY <1>1, <1>3, <1>4, <1>6
<1> QED BY <1>3, <1>4, <1>7

\* What a block that is stored does to the tables; its chain is filed further.
LEMMA FiledGrows ==
    ASSUME NEW t, NEW mr, ETables(t, mr), NEW num, Filed(num, t),
           NEW b, IsEBlock(b), b.entries # <<>>, Follows(b, b.height, t, num),
           NEW k, k = EBlockHash(b), NEW r, r = EBlockKeyMR(b),
           NEW u, u = Put(t, k, MarshalEBlock(b)), NEW w, w = Put(mr, r, k),
           NEW v, v = Put(num, Append(b.chain, b.seq), k)
    PROVE  /\ Filed(v, u) /\ (Ordinary(b.chain) => Numbered(b.chain, b.seq + 1, v, u))
           /\ \A c \in Chains : \A m : c # b.chain /\ Numbered(c, m, num, t) => Numbered(c, m, v, u)
<1> DEFINE a == b.chain
           n == b.seq
           key == Append(a, n)
<1>1. /\ Grown(t, u) /\ k \in DOMAIN u /\ EAt(u, k) = BuildEBlockHeader(b)
  BY ETablesGrow DEF Follows
<1>2. EAt(u, k).chain = a /\ EAt(u, k).seq = n
  BY <1>1, BuiltFields
<1>3. a \in Chains /\ n \in Nat
  BY DEF IsEBlock
<1>4. DOMAIN u = DOMAIN t \cup {k}
  BY DEF Put
<1>5. DOMAIN v = DOMAIN num \cup {key} /\ v[key] = k
      /\ \A x \in DOMAIN num : x # key => v[x] = num[x]
  BY DEF Put
<1>6. \A x \in DOMAIN t : EAt(u, x) = EAt(t, x)
  BY <1>1 DEF Grown, EAt
<1> HIDE DEF a, n, key
<1>7. \A c \in Chains, j \in Nat : Append(c, j) = key <=> c = a /\ j = n
  <2>1. ASSUME NEW c \in Chains, NEW j \in Nat, Append(c, j) = key PROVE c = a /\ j = n
    BY <1>3, <2>1, SameKey DEF key
  <2> QED BY <2>1 DEF key
<1>8. ASSUME NEW c \in Chains, NEW m, c # a, Numbered(c, m, num, t) PROVE Numbered(c, m, v, u)
  <2>1. /\ m \in Nat
        /\ \A j \in Nat : Append(c, j) \in DOMAIN num <=> j < m
        /\ \A j \in 0 .. (m - 1) : EAt(t, num[Append(c, j)]).chain = c
                                   /\ EAt(t, num[Append(c, j)]).seq = j
        /\ \A x \in DOMAIN t : EAt(t, x).chain = c =>
                EAt(t, x).seq < m /\ num[Append(c, EAt(t, x).seq)] = x
    BY <1>8 DEF Numbered
  <2>2. \A j \in Nat : Append(c, j) \in DOMAIN v <=> j < m
    BY <1>5, <1>7, <1>8, <2>1
  <2>3. ASSUME NEW j \in 0 .. (m - 1)
        PROVE  /\ v[Append(c, j)] = num[Append(c, j)] /\ Append(c, j) \in DOMAIN num
               /\ EAt(u, v[Append(c, j)]).chain = c /\ EAt(u, v[Append(c, j)]).seq = j
    <3>1. j \in Nat /\ j < m
      BY <2>1
    <3>2. Append(c, j) \in DOMAIN num /\ Append(c, j) # key
      BY <1>7, <1>8, <2>1, <3>1
    <3>3. num[Append(c, j)] \in DOMAIN t
      BY <3>2 DEF Filed
    <3> QED BY <1>5, <1>6, <2>1, <3>2, <3>3
  <2>4. ASSUME NEW x \in DOMAIN u, EAt(u, x).chain = c
        PROVE  EAt(u, x).seq < m /\ v[Append(c, EAt(u, x).seq)] = x
    <3>1. x # k /\ x \in DOMAIN t
      BY <1>2, <1>4, <1>8, <2>4
    <3>2. EAt(t, x).seq < m /\ num[Append(c, EAt(t, x).seq)] = x /\ EAt(u, x) = EAt(t, x)
      BY <1>6, <2>1, <2>4, <3>1
    <3>3. EAt(t, x).seq \in Nat
      BY <3>1 DEF ETables, ERowIs, IsEBlock
    <3>4. EAt(t, x).seq \in 0 .. (m - 1)
      BY <2>1, <3>2, <3>3
    <3> QED BY <2>3, <3>2, <3>4
  <2> QED BY <2>1, <2>2, <2>3, <2>4 DEF Numbered
<1>9. ASSUME Ordinary(a) PROVE Numbered(a, n + 1, v, u)
  <2>0. Numbered(a, n, num, t)
    BY <1>9 DEF Follows, a, n
  <2>1. /\ \A j \in Nat : Append(a, j) \in DOMAIN num <=> j < n
        /\ \A j \in 0 .. (n - 1) : EAt(t, num[Append(a, j)]).chain = a
                                   /\ EAt(t, num[Append(a, j)]).seq = j
        /\ \A x \in DOMAIN t : EAt(t, x).chain = a =>
                EAt(t, x).seq < n /\ num[Append(a, EAt(t, x).seq)] = x
    BY <2>0 DEF Numbered
  <2>2. \A j \in Nat : Append(a, j) \in DOMAIN v <=> j < n + 1
    <3> SUFFICES ASSUME NEW j \in Nat PROVE Append(a, j) \in DOMAIN v <=> j < n + 1
      OBVIOUS
    <3>1. Append(a, j) \in DOMAIN v <=> (j < n \/ j = n)
      BY <1>3, <1>5, <1>7, <2>1
    <3> QED BY <1>3, <3>1
  <2>3. ASSUME NEW j \in 0 .. ((n + 1) - 1)
        PROVE  /\ j < n => v[Append(a, j)] = num[Append(a, j)]
               /\ EAt(u, v[Append(a, j)]).chain = a /\ EAt(u, v[Append(a, j)]).seq = j
    <3>1. CASE j = n
      BY <1>2, <1>5, <3>1 DEF key
    <3>2. CASE j # n
      <4>1. j \in 0 .. (n - 1) /\ j \in Nat /\ j < n
        BY <1>3, <3>2
      <4>2. Append(a, j) \in DOMAIN num /\ Append(a, j) # key
        BY <1>3, <1>7, <2>1, <4>1
      <4>3. num[Append(a, j)] \in DOMAIN t
        BY <4>2 DEF Filed
      <4> QED BY <1>5, <1>6, <2>1, <4>1, <4>2, <4>3
    <3> QED BY <1>3, <3>1, <3>2
  <2>4. ASSUME NEW x \in DOMAIN u, EAt(u, x).chain = a
        PROVE  EAt(u, x).seq < n + 1 /\ v[Append(a, EAt(u, x).seq)] = x
    <3>1. CASE x = k
      BY <1>2, <1>3, <1>5, <3>1 DEF key
    <3>2. CASE x # k
      <4>1. x \in DOMAIN t
        BY <1>4, <3>2
      <4>2. EAt(t, x).seq < n /\ num[Append(a, EAt(t, x).seq)] = x /\ EAt(u, x) = EAt(t, x)
        BY <1>6, <2>1, <2>4, <4>1
      <4>3. EAt(t, x).seq \in Nat
        BY <4>1 DEF ETables, ERowIs, IsEBlock
      <4>4. EAt(t, x).seq \in 0 .. ((n + 1) - 1) /\ EAt(t, x).seq < n + 1
        BY <1>3, <4>2, <4>3
      <4> QED BY <2>3, <4>2, <4>4
    <3> QED BY <3>1, <3>2
  <2> QED BY <1>3, <2>2, <2>3, <2>4 DEF Numbered
<1>10. Filed(v, u)
  <2>1. \A x \in DOMAIN v : v[x] \in DOMAIN u /\ \E c \in Chains, j \in Nat : x = Append(c, j)
    <3> SUFFICES ASSUME NEW x \in DOMAIN v
                 PROVE  v[x] \in DOMAIN u /\ \E c \in Chains, j \in Nat : x = Append(c, j)
      OBVIOUS
    <3>1. CASE x = key
      BY <1>3, <1>4, <1>5, <3>1 DEF key
    <3>2. CASE x # key
      <4>1. x \in DOMAIN num /\ v[x] = num[x]
        BY <1>5, <3>2
      <4> QED BY <1>4, <4>1 DEF Filed
    <3> QED BY <3>1, <3>2
  <2>2. ASSUME NEW c \in Chains, Ordinary(c) PROVE \E m \in Nat : Numbered(c, m, v, u)
    <3>1. CASE c = a
      BY <1>3, <1>9, <2>2, <3>1
    <3>2. CASE c # a
      <4>1. PICK m \in Nat : Numbered(c, m, num, t)
        BY <2>2 DEF Filed
      <4> QED BY <1>8, <3>2, <4>1
    <3> QED BY <3>1, <3>2
  <2> QED BY <2>1, <2>2 DEF Filed
<1> QED BY <1>8, <1>9, <1>10 DEF a, n

LEMMA ContainedGrows ==
    ASSUME NEW t, NEW mr, ETables(t, mr), NEW e, NEW n, Contained(t, e, n),
           NEW b, IsEBlock(b), b.entries # <<>>, ELinked(b, b.height, t),
           b.height < n, Known(b.entries, e), Closed(b.entries),
           NEW u, u = Put(t, EBlockHash(b), MarshalEBlock(b))
    PROVE  Contained(u, e, n)
<1>0. PICK k, r, w : k = EBlockHash(b) /\ r = EBlockKeyMR(b) /\ w = Put(mr, r, k)
  OBVIOUS
<1>1. Grown(t, u) /\ EAt(u, k) = BuildEBlockHeader(b)
  BY <1>0, ETablesGrow
<1>2. EAt(u, k).entries = b.entries /\ EAt(u, k).height = b.height
  BY <1>1, BuiltFields
<1>3. DOMAIN u = DOMAIN t \cup {k}
  BY <1>0 DEF Put
<1>4. \A x \in DOMAIN t : EAt(u, x) = EAt(t, x)
  BY <1>1 DEF Grown, EAt
<1> QED BY <1>2, <1>3, <1>4 DEF Contained

\* What holds of some stored entries holds of more, and what is below n is below m.
LEMMA KnownKept ==
    ASSUME NEW s, NEW e, Known(s, e), NEW f, DOMAIN e \subseteq DOMAIN f PROVE Known(s, f)
BY DEF Known

LEMMA ContainedKept ==
    ASSUME NEW t, NEW mr, ETables(t, mr), NEW e, NEW n \in Nat, Contained(t, e, n),
           NEW f, DOMAIN e \subseteq DOMAIN f, NEW m \in Nat, n <= m
    PROVE  Contained(t, f, m)
<1>1. \A k \in DOMAIN t : EAt(t, k).height \in Nat
  BY DEF ETables, ERowIs, IsEBlock
<1> QED BY <1>1, KnownKept DEF Contained

LEMMA FollowsKept ==
    ASSUME NEW t, NEW mr, ETables(t, mr), NEW num, NEW b, NEW h \in Nat, Follows(b, h, t, num),
           NEW m \in Nat, h <= m
    PROVE  Follows(b, m, t, num)
<1>1. \A k \in DOMAIN t : EAt(t, k).height \in Nat
  BY DEF ETables, ERowIs, IsEBlock
<1> QED BY <1>1 DEF Follows, ELinked

----------------------------------------------------------------------------
\* The chains of entry blocks.

OpenHeight == IF pc = "entry" THEN Height + 1 ELSE Height

HeadsStored ==
    \A c \in Chains : Chain(c) \in DOMAIN db.CHAIN_HEAD => db.CHAIN_HEAD[Chain(c)] \in DOMAIN db.EB_MR

StoredChains ==
    /\ ETables(db.EB, db.EB_MR) /\ Contained(db.EB, db.ENTRY, OpenHeight)
    /\ Filed(db.EB_CHAIN_NUM, db.EB) /\ HeadsStored

OpenFollows(c, h) ==
    Follows(eNext[c], h, db.EB, db.EB_CHAIN_NUM) /\ Known(eNext[c].entries, db.ENTRY)

OpenClosed(c) == Closed(eNext[c].entries)
OpenIsNew(c)  == eNext[c].entries = <<>>

OpenChains ==
    /\ \A c \in DOMAIN eNext : OpenFollows(c, IF c \in todo THEN Height ELSE OpenHeight)
    /\ pc # "build" => \A c \in DOMAIN eNext : OpenClosed(c)
    /\ pc \in {"init", "serve", "dir", "entry"} => \A c \in DOMAIN eNext \ todo : OpenIsNew(c)
    /\ pc = "build" => plist # <<>> /\ plist[Len(plist)].type = "eom"

EntryChains == StoredChains /\ OpenChains

EntryTables == {"EB", "EB_MR", "EB_CHAIN_NUM"}

\* The head of a chain stays what it was: the other heads have other keys.
SameHeads == \A c \in Chains : /\ Chain(c) \in DOMAIN db'.CHAIN_HEAD => Chain(c) \in DOMAIN db.CHAIN_HEAD
                               /\ Chain(c) \in DOMAIN db.CHAIN_HEAD =>
                                    db'.CHAIN_HEAD[Chain(c)] = db.CHAIN_HEAD[Chain(c)]

LEMMA SystemHeads ==
    ASSUME NEW n, NEW k, db'.CHAIN_HEAD = Put(db.CHAIN_HEAD, SystemChain(n), k) PROVE SameHeads
<1>1. \A c : Chain(c) # SystemChain(n)
  BY DEF Chain, SystemChain
<1> QED BY <1>1 DEF Put, SameHeads

LEMMA Heights == ASSUME Control PROVE Height \in Nat /\ OpenHeight \in Nat /\ Height <= OpenHeight
BY DEF Control, OpenHeight

\* Steps that store no entry block.
LEMMA StoredKept ==
    ASSUME Control, Control', StoredChains, \A f \in EntryTables : db'[f] = db[f], SameHeads,
           DOMAIN db.ENTRY \subseteq DOMAIN db'.ENTRY, OpenHeight <= OpenHeight'
    PROVE  StoredChains'
<1>1. db'.EB = db.EB /\ db'.EB_MR = db.EB_MR /\ db'.EB_CHAIN_NUM = db.EB_CHAIN_NUM
  BY DEF EntryTables
<1>2. OpenHeight \in Nat /\ OpenHeight' \in Nat
  BY DEF Control, OpenHeight, Height
<1>3. Contained(db.EB, db'.ENTRY, OpenHeight')
  BY <1>2, ContainedKept DEF StoredChains
<1>4. HeadsStored'
  BY <1>1 DEF StoredChains, HeadsStored, SameHeads
<1> QED BY <1>1, <1>3, <1>4 DEF StoredChains

LEMMA OpenKept ==
    ASSUME StoredChains, \A f \in EntryTables : db'[f] = db[f],
           DOMAIN db.ENTRY \subseteq DOMAIN db'.ENTRY,
           NEW c, eNext'[c] = eNext[c], NEW h \in Nat, OpenFollows(c, h), NEW m \in Nat, h <= m
    PROVE  OpenFollows(c, m)'
<1>1. db'.EB = db.EB /\ db'.EB_CHAIN_NUM = db.EB_CHAIN_NUM /\ ETables(db.EB, db.EB_MR)
  BY DEF EntryTables, StoredChains
<1>2. Follows(eNext[c], m, db.EB, db.EB_CHAIN_NUM) /\ Known(eNext[c].entries, db'.ENTRY)
  BY <1>1, FollowsKept, KnownKept DEF OpenFollows
<1> QED BY <1>1, <1>2 DEF OpenFollows

\* A chain that is opened from what is stored.
LEMMA Opened ==
    ASSUME Control, StoredChains, pc # "entry", NEW c \in Chains, NEW u, u = initEChainFromDB(c)
    PROVE  /\ IsEBlock(u) /\ u.chain = c /\ u.entries = <<>>
           /\ Follows(u, Height, db.EB, db.EB_CHAIN_NUM) /\ Known(u.entries, db.ENTRY)
           /\ Closed(u.entries)
<1>1. \A k \in DOMAIN db.EB : EAt(db.EB, k).height < Height
  BY DEF StoredChains, Contained, OpenHeight
<1>2. PICK s : s = FetchAllEBlocksByChain(db, c)
  OBVIOUS
<1>3. u = MakeEBlock(c, Len(s), IF s = <<>> THEN Nil ELSE Last(s))
  BY <1>2 DEF initEChainFromDB
<1>4. ETables(db.EB, db.EB_MR) /\ Filed(db.EB_CHAIN_NUM, db.EB)
  BY DEF StoredChains
<1>5. /\ IsEBlock(u) /\ u.chain = c /\ u.entries = <<>> /\ ELinked(u, Height, db.EB)
      /\ Ordinary(c) => Numbered(c, u.seq, db.EB_CHAIN_NUM, db.EB)
  BY <1>1, <1>2, <1>3, <1>4, NextOfScan
<1>6. Follows(u, Height, db.EB, db.EB_CHAIN_NUM)
  BY <1>5 DEF Follows
<1>7. Known(u.entries, db.ENTRY) /\ Closed(u.entries)
  BY <1>5 DEF Known, Closed
<1> QED BY <1>5, <1>6, <1>7

LEMMA InitChains == ASSUME Init PROVE EntryChains
<1>1. db = NewDB /\ pc = "init" /\ eNext = <<>> /\ todo = {}
  BY DEF Init, Empty
<1>2. /\ db.EB = <<>> /\ db.EB_MR = <<>> /\ db.EB_CHAIN_NUM = <<>> /\ db.CHAIN_HEAD = <<>>
      /\ DOMAIN <<>> = {}
  BY <1>1, NewDBIs DEF Tables
<1>3. ETables(db.EB, db.EB_MR) /\ Contained(db.EB, db.ENTRY, OpenHeight) /\ HeadsStored
  BY <1>2 DEF ETables, Contained, HeadsStored
<1>4. Filed(db.EB_CHAIN_NUM, db.EB)
  <2>1. \A c : Numbered(c, 0, <<>>, <<>>)
    BY <1>2 DEF Numbered
  <2>2. 0 \in Nat
    OBVIOUS
  <2> QED BY <1>2, <2>1, <2>2 DEF Filed
<1>5. OpenChains
  BY <1>1, <1>2 DEF OpenChains
<1> QED BY <1>3, <1>4, <1>5 DEF EntryChains, StoredChains

LEMMA StartChains == ASSUME Engine, Engine', Ledgers, EntryChains, Start PROVE EntryChains'
<1> DEFINE n == Cardinality(FetchAllDBlocks(db))
<1>0. Control /\ Control' /\ Tabled /\ StoredChains
  BY DEF Engine, EntryChains
<1>1. /\ pc = "init" /\ pc' \in {"ec", "serve"} /\ UNCHANGED <<db, todo>>
      /\ eNext' = [c \in FetchAllChains(db) |-> initEChainFromDB(c)] /\ dNext' = initDChain(n)
  BY DEF Start
<1>2. n = Height
  BY <1>1, DirectoryHeight DEF Ledgers
<1>3. Height' = n
  <2> DEFINE prev == FetchDBlockByHash(db, FetchDBHashByHeight(db, n - 1))
             p == IF n = 0 THEN NewHash ELSE BuildKeyMerkleRoot(prev)
             q == IF n = 0 THEN NewHash ELSE DBlockHash(prev)
             t == Timestamp(n)
             e == Placeholders
             u == dNext'
  <2>1. IsSetOut(u, n, p, q, t, e)
    BY <1>1 DEF initDChain, IsSetOut
  <2> HIDE DEF prev, p, q, t, e, u
  <2>2. \A v, m, r, s, x, y : IsSetOut(v, m, r, s, x, y) => IsRecord(v, DBFields) /\ v.height = m
    BY SetOutDBlock
  <2>3. u.height = n
    BY ONLY <2>1, <2>2
  <2> QED BY <2>3 DEF u, Height
<1> HIDE DEF n
<1>4. OpenHeight' = Height /\ OpenHeight = Height /\ Height \in Nat /\ todo = {}
  BY <1>0, <1>1, <1>2, <1>3 DEF OpenHeight, Control
<1>5. StoredChains'
  <2>1. SameHeads /\ \A f \in EntryTables : db'[f] = db[f]
    BY <1>1 DEF SameHeads
  <2>2. OpenHeight <= OpenHeight' /\ DOMAIN db.ENTRY \subseteq DOMAIN db'.ENTRY
    BY <1>1, <1>4
  <2> QED BY <1>0, <2>1, <2>2, StoredKept
<1>6. ASSUME NEW c \in DOMAIN eNext' PROVE OpenFollows(c, Height)' /\ OpenClosed(c)' /\ OpenIsNew(c)'
  <2>1. c \in Chains /\ eNext'[c] = initEChainFromDB(c)
    BY <1>0, <1>1 DEF FetchAllChains, Tabled
  <2>2. PICK u : u = eNext'[c]
    OBVIOUS
  <2>3. /\ u.entries = <<>> /\ Follows(u, Height, db.EB, db.EB_CHAIN_NUM)
        /\ Known(u.entries, db.ENTRY) /\ Closed(u.entries)
    BY <1>0, <1>1, <2>1, <2>2, Opened
  <2> QED BY <1>1, <1>2, <1>3, <2>2, <2>3 DEF OpenFollows, OpenClosed, OpenIsNew
<1>7. OpenChains'
  BY <1>1, <1>2, <1>3, <1>4, <1>6 DEF OpenChains
<1> QED BY <1>5, <1>7 DEF EntryChains

\* Steps that leave the database, the open entry blocks and the heights alone.
LEMMA ChainsKept ==
    ASSUME Engine, Engine', EntryChains, UNCHANGED <<db, eNext, dNext, todo>>,
           \/ pc' = pc /\ plist' = plist
           \/ pc = "serve" /\ pc' \in {"init", "serve"}
           \/ pc = "serve" /\ pc' = "build" /\ plist' # <<>> /\ plist'[Len(plist')].type = "eom"
    PROVE  EntryChains'
<1>1. Height' = Height /\ OpenHeight' = OpenHeight
  BY DEF Height, OpenHeight
<1>2. StoredChains'
  BY <1>1 DEF EntryChains, StoredChains, HeadsStored
<1>3. \A c, h : OpenFollows(c, h)' <=> OpenFollows(c, h)
  BY DEF OpenFollows
<1>4. \A c : (OpenClosed(c)' <=> OpenClosed(c)) /\ (OpenIsNew(c)' <=> OpenIsNew(c))
  BY DEF OpenClosed, OpenIsNew
<1>5. OpenChains'
  BY <1>1, <1>3, <1>4 DEF EntryChains, OpenChains
<1> QED BY <1>2, <1>5 DEF EntryChains

LEMMA QuietChains ==
    ASSUME Engine, Engine', EntryChains,
           Restart \/ EndOfMinute \/ UNCHANGED <<store, engine>> \/ \E msgs : Post(msgs)
    PROVE  EntryChains'
<1>0. Control
  BY DEF Engine
<1>1. CASE Restart
  BY <1>1, ChainsKept DEF Restart, open
<1>2. CASE EndOfMinute
  <2>1. /\ pc = "serve" /\ UNCHANGED <<db, eNext, dNext, todo>> /\ plist' = Append(plist, EOM(minute))
        /\ pc' \in {"serve", "build"}
    BY <1>2 DEF EndOfMinute, store, open
  <2>2. plist' # <<>> /\ plist'[Len(plist')] = EOM(minute)
    <3>1. plist \in Seq(Messages)
      BY <1>0 DEF Control
    <3>2. PICK m : m = EOM(minute)
      OBVIOUS
    <3>3. Append(plist, m) # <<>> /\ Append(plist, m)[Len(Append(plist, m))] = m
      BY ONLY <3>1
    <3> QED BY <2>1, <3>2, <3>3
  <2>3. EOM(minute).type = "eom"
    BY DEF EOM
  <2> QED BY <2>1, <2>2, <2>3, ChainsKept
<1>3. CASE UNCHANGED <<store, engine>>
  BY <1>3, ChainsKept DEF store, engine, open
<1>4. CASE \E msgs : Post(msgs)
  BY <1>4, ChainsKept DEF Post, store, open
<1> QED BY <1>1, <1>2, <1>3, <1>4

\* An open entry block with one entry more.
LEMMA SameFollows ==
    ASSUME NEW b, NEW u, \A f \in {"chain", "seq", "prevKeyMR", "prevLedgerKeyMR"} : u[f] = b[f],
           NEW h, NEW t, NEW num, Follows(b, h, t, num)
    PROVE  Follows(u, h, t, num)
<1>1. u.chain = b.chain /\ u.seq = b.seq /\ u.prevKeyMR = b.prevKeyMR
      /\ u.prevLedgerKeyMR = b.prevLedgerKeyMR
  OBVIOUS
<1> QED BY <1>1 DEF Follows, ELinked

LEMMA KnownMore ==
    ASSUME NEW S, NEW s \in Seq(S), NEW e, Known(s, e), NEW x, x \in Markings \cup DOMAIN e,
           NEW t, t = Append(s, x)
    PROVE  Known(t, e) /\ t # <<>> /\ t[Len(t)] = x
<1>1. DOMAIN t = 1 .. (Len(s) + 1) /\ t[Len(s) + 1] = x /\ (\A i \in 1 .. Len(s) : t[i] = s[i])
      /\ Len(t) = Len(s) + 1 /\ Len(s) \in Nat /\ DOMAIN s = 1 .. Len(s)
  OBVIOUS
<1>2. t # <<>>
  OBVIOUS
<1> QED BY <1>1, <1>2 DEF Known

LEMMA FollowsMore ==
    ASSUME NEW b, IsEBlock(b), NEW x \in EBHashes, NEW u, u = AddEBEntry(b, x),
           NEW h, NEW t, NEW num, Follows(b, h, t, num),
           NEW e, Known(b.entries, e), x \in Markings \cup DOMAIN e
    PROVE  Follows(u, h, t, num) /\ Known(u.entries, e) /\ u.entries[Len(u.entries)] = x
<1>1. IsEBlock(u) /\ u.entries = Append(b.entries, x) /\ \A f \in EBFields \ {"entries"} : u[f] = b[f]
  BY EBEntryAdded
<1>2. Follows(u, h, t, num)
  BY <1>1, SameFollows DEF EBFields
<1>3. b.entries \in Seq(EBHashes)
  BY DEF IsEBlock
<1>4. \A s, r : s \in Seq(EBHashes) /\ Known(s, e) /\ r = Append(s, x) =>
        Known(r, e) /\ r # <<>> /\ r[Len(r)] = x
  BY KnownMore
<1>5. PICK s : s = b.entries
  OBVIOUS
<1>6. Known(u.entries, e) /\ u.entries[Len(u.entries)] = x
  BY ONLY <1>1, <1>3, <1>4, <1>5, Known(b.entries, e)
<1> QED BY <1>2, <1>6

LEMMA RevealChains ==
    ASSUME Engine, Engine', EntryChains, pc = "build", todo = {}, OpenHeight' = Height, Height' = Height,
           NEW c \in Chains, NEW x \in Contents, buildReveal(Entry(c, x))
    PROVE  StoredChains' /\ \A o \in DOMAIN eNext' : OpenFollows(o, Height)'
<1> DEFINE h == EntryHash(Entry(c, x))
           b == OpenBlock(c)
           u == AddEBEntry(b, h)
<1>0. Control /\ Control' /\ Tabled /\ OpenEBlocks /\ StoredChains /\ Height \in Nat /\ OpenHeight = Height
  BY DEF Engine, EntryChains, Control, OpenHeight
<1>1. /\ SameBut(db', db, {"ENTRY", "CHAIN_HASH"}) /\ eNext' = Put(eNext, c, u)
      /\ db'.ENTRY = Put(db.ENTRY, h, MarshalEntry(Entry(c, x)))
  BY <1>0, Revealed
<1>2. h \in EBHashes /\ h \in DOMAIN db'.ENTRY /\ DOMAIN db.ENTRY \subseteq DOMAIN db'.ENTRY
  BY <1>1, EntryHashIn DEF Put
<1>3. (\A f \in EntryTables : db'[f] = db[f]) /\ db'.CHAIN_HEAD = db.CHAIN_HEAD
  BY <1>1 DEF SameBut, EntryTables, Tables
<1>4. StoredChains'
  <2>1. SameHeads
    BY <1>3 DEF SameHeads
  <2> QED BY <1>0, <1>2, <1>3, <2>1, StoredKept
<1>5. IsEBlock(b) /\ Follows(b, Height, db.EB, db.EB_CHAIN_NUM) /\ Known(b.entries, db.ENTRY)
  <2>1. IsEBlock(b)
    BY <1>0, OpenBlockIs
  <2>2. CASE c \in DOMAIN eNext
    <3>1. b = eNext[c] /\ OpenFollows(c, Height)
      BY <1>0, <2>2 DEF OpenBlock, EntryChains, OpenChains
    <3> QED BY <2>1, <3>1 DEF OpenFollows
  <2>3. CASE c \notin DOMAIN eNext
    <3>1. b = initEChainFromDB(c)
      BY <2>3 DEF OpenBlock
    <3> HIDE DEF b
    <3>2. pc # "entry"
      OBVIOUS
    <3> QED BY <1>0, <2>1, <3>1, <3>2, Opened
  <2> QED BY <2>2, <2>3, <2>1
<1>6. Known(b.entries, db'.ENTRY)
  BY <1>2, <1>5, KnownKept
<1> HIDE DEF h, b
<1>7. Follows(u, Height, db.EB, db.EB_CHAIN_NUM) /\ Known(u.entries, db'.ENTRY)
  BY <1>2, <1>5, <1>6, FollowsMore
<1> HIDE DEF u
<1>8. ASSUME NEW o \in DOMAIN eNext' PROVE OpenFollows(o, Height)'
  <2>1. o = c => eNext'[o] = u
    BY <1>1 DEF Put
  <2>2. o # c => o \in DOMAIN eNext /\ eNext'[o] = eNext[o]
    BY <1>1 DEF Put
  <2>3. db'.EB = db.EB /\ db'.EB_CHAIN_NUM = db.EB_CHAIN_NUM
    BY <1>3 DEF EntryTables
  <2>4. CASE o = c
    BY <1>0, <1>7, <2>1, <2>3, <2>4 DEF OpenFollows
  <2>5. CASE o # c
    <3>1. OpenFollows(o, Height)
      BY <1>0, <2>2, <2>5 DEF EntryChains, OpenChains
    <3>2. \A m \in Nat : Height <= m => OpenFollows(o, m)'
      BY <1>0, <1>2, <1>3, <2>2, <2>5, <3>1, OpenKept
    <3> QED BY <1>0, <3>2
  <2> QED BY <2>4, <2>5
<1> QED BY <1>4, <1>8

\* The marker closes every block.
LEMMA MinuteChains ==
    ASSUME Engine, Engine', EntryChains, pc = "build", todo = {}, OpenHeight' = Height, Height' = Height,
           NEW m \in 1 .. LastMinute, buildEndOfMinute(m)
    PROVE  StoredChains' /\ \A o \in DOMAIN eNext' : OpenFollows(o, Height)' /\ OpenClosed(o)'
<1> DEFINE x == MinuteMarker(m)
<1>0. Control /\ Control' /\ Tabled /\ OpenEBlocks /\ StoredChains /\ Height \in Nat /\ OpenHeight = Height
  BY DEF Engine, EntryChains, Control, OpenHeight
<1>1. /\ eNext' = [c \in DOMAIN eNext |-> IF Touched(eNext[c]) THEN AddEBEntry(eNext[c], x)
                                           ELSE eNext[c]]
      /\ db' = db
  BY DEF buildEndOfMinute
<1>2. x \in EBHashes /\ x \in Markings
  BY DEF EBHashes, Markings
<1>3. StoredChains'
  <2>1. SameHeads /\ \A f \in EntryTables : db'[f] = db[f]
    BY <1>1 DEF SameHeads
  <2> QED BY <1>0, <1>1, <2>1, StoredKept
<1>4. ASSUME NEW o \in DOMAIN eNext' PROVE OpenFollows(o, Height)' /\ OpenClosed(o)'
  <2>1. o \in DOMAIN eNext /\ IsEBlock(eNext[o])
    BY <1>0, <1>1 DEF OpenEBlocks
  <2>2. /\ Follows(eNext[o], Height, db.EB, db.EB_CHAIN_NUM) /\ Known(eNext[o].entries, db.ENTRY)
    BY <1>0, <2>1 DEF EntryChains, OpenChains, OpenFollows
  <2>3. CASE Touched(eNext[o])
    <3>1. eNext'[o] = AddEBEntry(eNext[o], x)
      BY <1>1, <2>1, <2>3
    <3> HIDE DEF x
    <3>2. \A u : u = AddEBEntry(eNext[o], x) =>
            /\ Follows(u, Height, db.EB, db.EB_CHAIN_NUM) /\ Known(u.entries, db.ENTRY)
            /\ u.entries[Len(u.entries)] = x
      BY <1>2, <2>1, <2>2, FollowsMore
    <3> QED BY <1>0, <1>1, <1>2, <3>1, <3>2 DEF OpenFollows, OpenClosed, Closed
  <2>4. CASE ~Touched(eNext[o])
    <3>1. eNext'[o] = eNext[o]
      BY <1>1, <2>1, <2>4
    <3>2. Closed(eNext[o].entries)
      <4> SUFFICES ASSUME eNext[o].entries # <<>> PROVE eNext[o].entries[Len(eNext[o].entries)] \in Markings
        BY DEF Closed
      <4> DEFINE s == eNext[o].entries
      <4>1. s \in Seq(EBHashes) /\ s # <<>>
        BY <2>1 DEF IsEBlock
      <4>2. s[Len(s)] \in EBHashes /\ Last(s)[1] = "minute"
        BY <2>4, <4>1 DEF Touched
      <4>3. s[Len(s)][1] = "minute"
        BY <4>1, <4>2 DEF Last
      <4> HIDE DEF s
      <4>4. s[Len(s)] \notin EntryHashes
        BY <4>3 DEF EntryHashes, EntryHash, Sha
      <4> QED BY <4>2, <4>4 DEF EBHashes, s
    <3> QED BY <1>0, <1>1, <2>2, <3>1, <3>2 DEF OpenFollows, OpenClosed
  <2> QED BY <2>3, <2>4
<1> QED BY <1>3, <1>4

LEMMA LastOfTail ==
    ASSUME NEW S, NEW s \in Seq(S), s # <<>>, Len(s) # 1
    PROVE  Tail(s) # <<>> /\ Tail(s)[Len(Tail(s))] = s[Len(s)]
<1>1. Len(s) \in Nat \ {0, 1}
  BY SomeSeq
<1>2. Tail(s) \in Seq(S) /\ Len(Tail(s)) = Len(s) - 1
      /\ \A i \in 1 .. Len(Tail(s)) : Tail(s)[i] = s[i + 1]
  BY HeadTailProperties
<1>3. Len(Tail(s)) \in 1 .. Len(Tail(s)) /\ Len(Tail(s)) + 1 = Len(s)
  BY <1>1, <1>2
<1>4. Tail(s) # <<>>
  <2>1. PICK t : t = Tail(s)
    OBVIOUS
  <2>2. Len(t) # 0
    BY <1>1, <1>2, <2>1
  <2>3. t # <<>>
    BY ONLY <2>2
  <2> QED BY <2>1, <2>3
<1>5. PICK n : n = Len(Tail(s))
  OBVIOUS
<1>6. Tail(s)[n] = s[n + 1] /\ n + 1 = Len(s)
  BY <1>2, <1>3, <1>5
<1> QED BY <1>4, <1>5, <1>6

LEMMA ListChains == ASSUME Engine, Engine', EntryChains, buildFromProcessList PROVE EntryChains'
<1> DEFINE m == Head(plist)
<1>0. Control /\ Control' /\ Tabled /\ OpenEBlocks /\ StoredChains /\ OpenChains
  BY DEF Engine, EntryChains
<1>1. /\ pc = "build" /\ plist # <<>> /\ plist' = Tail(plist)
      /\ pc' = (IF Len(plist) = 1 THEN "ec" ELSE pc) /\ UNCHANGED <<todo, dNext>>
  BY DEF buildFromProcessList
<1>2. \/ m.type = "reveal" /\ buildReveal(UnmarshalEntry(m.body))
      \/ m.type = "eom" /\ buildEndOfMinute(m.body)
      \/ m.type \in {"commit", "buy"} /\ UNCHANGED <<db, eNext>>
  BY DEF buildFromProcessList, buildCommit, buildIncreaseBalance
<1>3. /\ m.type = "reveal" => \E c \in Chains, x \in Contents : UnmarshalEntry(m.body) = Entry(c, x)
      /\ m.type = "eom" => m.body \in 1 .. LastMinute
  BY <1>0, <1>1, NextMessage
<1>4. plist \in Seq(Messages) /\ plist[Len(plist)].type = "eom"
  BY <1>0, <1>1 DEF Control, OpenChains
<1>5. Len(plist) = 1 => m.type = "eom"
  BY <1>1, <1>4
<1>6. Len(plist) # 1 => Tail(plist) # <<>> /\ Tail(plist)[Len(Tail(plist))].type = "eom"
  <2> SUFFICES ASSUME Len(plist) # 1
               PROVE  Tail(plist) # <<>> /\ Tail(plist)[Len(Tail(plist))] = plist[Len(plist)]
    BY <1>4
  <2> QED BY <1>1, <1>4, LastOfTail
<1> HIDE DEF m
<1>7. Height' = Height /\ OpenHeight = Height /\ OpenHeight' = Height /\ Height \in Nat /\ todo = {}
  BY <1>0, <1>1 DEF Height, OpenHeight, Control
<1>8. /\ StoredChains' /\ \A o \in DOMAIN eNext' : OpenFollows(o, Height)'
      /\ m.type = "eom" => \A o \in DOMAIN eNext' : OpenClosed(o)'
  <2>1. CASE m.type = "reveal" /\ buildReveal(UnmarshalEntry(m.body))
    <3>1. PICK c \in Chains, x \in Contents : UnmarshalEntry(m.body) = Entry(c, x)
      BY <1>3, <2>1
    <3>2. buildReveal(Entry(c, x))
      BY <2>1, <3>1
    <3> QED BY <1>1, <1>7, <2>1, <3>2, RevealChains
  <2>2. CASE m.type = "eom" /\ buildEndOfMinute(m.body)
    BY <1>1, <1>3, <1>7, <2>2, MinuteChains
  <2>3. CASE m.type \in {"commit", "buy"} /\ UNCHANGED <<db, eNext>>
    <3>1. StoredChains'
      <4>1. SameHeads /\ \A f \in EntryTables : db'[f] = db[f]
        BY <2>3 DEF SameHeads
      <4> QED BY <1>0, <1>7, <2>3, <4>1, StoredKept
    <3>2. \A o \in DOMAIN eNext' : OpenFollows(o, Height)'
      BY <1>0, <1>7, <2>3 DEF OpenChains, OpenFollows
    <3> QED BY <2>3, <3>1, <3>2
  <2> QED BY <1>2, <2>1, <2>2, <2>3
<1>9. OpenChains'
  <2>1. \A o \in DOMAIN eNext' : OpenFollows(o, IF o \in todo THEN Height ELSE OpenHeight)'
    BY <1>1, <1>7, <1>8
  <2>2. pc' # "build" => \A o \in DOMAIN eNext' : OpenClosed(o)'
    BY <1>1, <1>5, <1>8
  <2>3. pc' = "build" => plist' # <<>> /\ plist'[Len(plist')].type = "eom"
    BY <1>1, <1>6
  <2> QED BY <1>1, <2>1, <2>2, <2>3 DEF OpenChains
<1> QED BY <1>8, <1>9 DEF EntryChains

\* Another block is sealed or written, and becomes the head of its own chain.
LEMMA HeadPutChains ==
    ASSUME Engine, Engine', EntryChains, UNCHANGED eNext, SameBut(db', db, Tables \ (EntryTables \cup {"ENTRY"})),
           NEW n, NEW k, db'.CHAIN_HEAD = Put(db.CHAIN_HEAD, SystemChain(n), k), Height' = Height,
           \/ pc = "ec" /\ pc' = "admin"
           \/ pc = "admin" /\ pc' = "fct"
           \/ pc = "fct" /\ pc' = "entry" /\ todo' = DOMAIN eNext
           \/ pc = "dir" /\ pc' = "serve"
    PROVE  EntryChains'
<1>0. Control /\ Control' /\ StoredChains /\ OpenChains /\ Height \in Nat
  BY DEF Engine, EntryChains, Control
<1>1. (\A f \in EntryTables : db'[f] = db[f]) /\ db'.ENTRY = db.ENTRY
  BY DEF SameBut, EntryTables, Tables
<1>2. OpenHeight = Height /\ OpenHeight <= OpenHeight' /\ todo = {}
      /\ \A c \in DOMAIN eNext : (IF c \in todo THEN Height ELSE OpenHeight)' = Height
  BY <1>0 DEF OpenHeight, Control
<1>3. StoredChains'
  BY <1>0, <1>1, <1>2, SystemHeads, StoredKept
<1>4. ASSUME NEW c \in DOMAIN eNext PROVE OpenFollows(c, Height)'
  <2>1. OpenFollows(c, Height)
    BY <1>0, <1>2 DEF OpenChains
  <2>2. eNext'[c] = eNext[c] /\ db'.ENTRY = db.ENTRY /\ db'.EB = db.EB /\ db'.EB_CHAIN_NUM = db.EB_CHAIN_NUM
    BY <1>1 DEF EntryTables
  <2> QED BY <2>1, <2>2 DEF OpenFollows
<1>5. \A c : (OpenClosed(c)' <=> OpenClosed(c)) /\ (OpenIsNew(c)' <=> OpenIsNew(c))
  BY DEF OpenClosed, OpenIsNew
<1>6. OpenChains'
  BY <1>0, <1>2, <1>4, <1>5 DEF OpenChains
<1> QED BY <1>3, <1>6 DEF EntryChains

LEMMA SealChains ==
    ASSUME Engine, Engine', Ledgers, EntryChains, newEntryCreditBlock \/ newAdminBlock \/ newFactoidBlock
    PROVE  EntryChains'
<1>0. Tabled /\ IsRecord(db, Tables)
  BY DEF Engine, Tabled
<1>1. CASE newEntryCreditBlock
  <2>1. PICK block : block = BuildECBlockHeader(ecNext)
    OBVIOUS
  <2>2. pc = "ec" /\ pc' = "admin" /\ UNCHANGED eNext /\ db' = ProcessECBlockBatch(db, block)
    BY <1>0, <1>1, <2>1, ECBlockSealed
  <2>3. Height' = Height /\ SameBut(db', db, {"CB", "CB_NUM", "CHAIN_HEAD"})
    BY <1>1, CreditsStored
  <2>4. PICK k : db'.CHAIN_HEAD = Put(db.CHAIN_HEAD, SystemChain("ec"), k)
    BY <1>0, <2>2, ECBlockBatch
  <2>5. SameBut(db', db, Tables \ (EntryTables \cup {"ENTRY"}))
    BY <2>3 DEF SameBut, Tables, EntryTables
  <2> QED BY <2>2, <2>3, <2>4, <2>5, HeadPutChains
<1>2. CASE newAdminBlock
  <2>1. PICK block : block = SealAdminBlock(aNext)
    OBVIOUS
  <2>2. pc = "admin" /\ pc' = "fct" /\ UNCHANGED eNext /\ db' = ProcessABlockBatch(db, block)
    BY <1>0, <1>2, <2>1, ABlockSealed
  <2>3. Height' = Height /\ SameBut(db', db, {"AB", "AB_NUM", "CHAIN_HEAD"})
    BY <1>2, AdminsStored
  <2>4. PICK k : db'.CHAIN_HEAD = Put(db.CHAIN_HEAD, SystemChain("admin"), k)
    BY <1>0, <2>2, ABlockBatch
  <2>5. SameBut(db', db, Tables \ (EntryTables \cup {"ENTRY"}))
    BY <2>3 DEF SameBut, Tables, EntryTables
  <2> QED BY <2>2, <2>3, <2>4, <2>5, HeadPutChains
<1>3. CASE newFactoidBlock
  <2>2. pc = "fct" /\ pc' = "entry" /\ todo' = DOMAIN eNext /\ UNCHANGED eNext /\ db' = ProcessFBlockBatch(db, fNext)
    BY <1>0, <1>3, FBlockSealed
  <2>3. Height' = Height /\ SameBut(db', db, {"SC", "SC_NUM", "CHAIN_HEAD"})
    BY <1>3, FactoidsStored
  <2>4. PICK k : db'.CHAIN_HEAD = Put(db.CHAIN_HEAD, SystemChain("factoid"), k)
    BY <1>0, <2>2, FBlockBatch
  <2>5. SameBut(db', db, Tables \ (EntryTables \cup {"ENTRY"}))
    BY <2>3 DEF SameBut, Tables, EntryTables
  <2> QED BY <2>2, <2>3, <2>4, <2>5, HeadPutChains
<1> QED BY <1>1, <1>2, <1>3

LEMMA WrittenChains == ASSUME Engine, Engine', Ledgers, EntryChains, WriteDirectoryBlock PROVE EntryChains'
<1>0. Tabled /\ IsRecord(db, Tables)
  BY DEF Engine, Tabled
<1>1. pc = "dir" /\ pc' = "serve" /\ UNCHANGED eNext /\ db' = ProcessDBlockBatch(db, sealed)
  BY DEF WriteDirectoryBlock
<1>2. Height' = Height /\ SameBut(db', db, {"DB", "DB_NUM", "DB_MR", "CHAIN_HEAD"})
  BY DirectoryWritten
<1>3. PICK k : db'.CHAIN_HEAD = Put(db.CHAIN_HEAD, SystemChain("directory"), k)
  BY <1>0, <1>1, DBlockBatch
<1>4. SameBut(db', db, Tables \ (EntryTables \cup {"ENTRY"}))
  BY <1>2 DEF SameBut, Tables, EntryTables
<1> QED BY <1>1, <1>2, <1>3, <1>4, HeadPutChains

LEMMA DirectoryChains == ASSUME Engine, Engine', Ledgers, EntryChains, newDirectoryBlock PROVE EntryChains'
<1>0. Control /\ StoredChains /\ OpenChains
  BY DEF Engine, EntryChains
<1>1. pc = "entry" /\ todo = {} /\ pc' = "dir" /\ UNCHANGED <<db, todo, eNext>>
  BY DEF newDirectoryBlock
<1>2. OpenHeight' = OpenHeight
  BY <1>0, <1>1, DirectorySealed DEF OpenHeight, Control
<1>3. StoredChains'
  BY <1>0, <1>1, <1>2 DEF StoredChains, HeadsStored
<1>4. \A c, h : OpenFollows(c, h)' <=> OpenFollows(c, h)
  BY <1>1 DEF OpenFollows
<1>5. \A c : (OpenClosed(c)' <=> OpenClosed(c)) /\ (OpenIsNew(c)' <=> OpenIsNew(c))
  BY <1>1 DEF OpenClosed, OpenIsNew
<1>6. OpenChains'
  BY <1>0, <1>1, <1>2, <1>4, <1>5 DEF OpenChains
<1> QED BY <1>3, <1>6 DEF EntryChains

\* What an entry block that is stored does to the tables of entry blocks.
Storing(c, b, k, r) ==
    /\ ETables(db'.EB, db'.EB_MR) /\ Grown(db.EB, db'.EB) /\ Grown(db.EB_MR, db'.EB_MR)
    /\ DOMAIN db'.EB = DOMAIN db.EB \cup {k} /\ DOMAIN db'.EB_MR = DOMAIN db.EB_MR \cup {r}
    /\ EAt(db'.EB, k) = BuildEBlockHeader(b) /\ db'.EB_MR[r] = k
    /\ Contained(db'.EB, db.ENTRY, OpenHeight) /\ Filed(db'.EB_CHAIN_NUM, db'.EB)
    /\ Follows(eNext'[c], OpenHeight, db'.EB, db'.EB_CHAIN_NUM) /\ eNext'[c].entries = <<>>
    /\ \A d \in Chains : \A m : d # c /\ Numbered(d, m, db.EB_CHAIN_NUM, db.EB) =>
            Numbered(d, m, db'.EB_CHAIN_NUM, db'.EB)

LEMMA StoringBlock ==
    ASSUME Engine, EntryChains, pc = "entry", NEW c \in todo, EBStored(c),
           NEW b, b = EBSealed(c), NEW k, k = EBlockHash(b), NEW r, r = EBlockKeyMR(b)
    PROVE  /\ Storing(c, b, k, r) /\ IsEBlock(b) /\ b.height = Height /\ b.chain = c
           /\ b.entries = eNext[c].entries /\ b.entries # <<>>
           /\ eNext' = [eNext EXCEPT ![c] = eNext'[c]]
           /\ SameBut(db', db, {"EB", "EB_MR", "EB_CHAIN_NUM", "CHAIN_HEAD"})
           /\ db'.CHAIN_HEAD = Put(db.CHAIN_HEAD, Chain(c), r)
           /\ dNext' = WithMore(dNext, DBEntry(Chain(c), r))
<1>0. Control /\ IsRecord(db, Tables) /\ OpenEBlocks /\ StoredChains /\ OpenChains
      /\ Height \in Nat /\ OpenHeight = Height + 1 /\ c \in DOMAIN eNext
  BY DEF Engine, Tabled, EntryChains, Control, OpenHeight
<1>1. /\ IsEBlock(b) /\ b.height = Height /\ \A f \in EBFields \ {"height"} : b[f] = eNext[c][f]
      /\ eNext[c].entries # <<>> /\ eNext' = [eNext EXCEPT ![c] = MakeEBlock(c, b.seq + 1, b)]
      /\ db' = ProcessEBlockBatch(db, b) /\ dNext' = WithMore(dNext, DBEntry(Chain(b.chain), r))
  BY DEF EBStored
<1>2. /\ b.entries = eNext[c].entries /\ b.chain = eNext[c].chain /\ b.seq = eNext[c].seq
      /\ b.prevKeyMR = eNext[c].prevKeyMR /\ b.prevLedgerKeyMR = eNext[c].prevLedgerKeyMR
  BY <1>1 DEF EBFields
<1>3. b.chain = c /\ b.entries # <<>> /\ c \in Chains /\ b.seq \in Nat
  BY <1>0, <1>1, <1>2 DEF OpenEBlocks, IsEBlock
<1>4. OpenFollows(c, Height) /\ OpenClosed(c)
  BY <1>0 DEF OpenChains
<1>5. Follows(b, Height, db.EB, db.EB_CHAIN_NUM) /\ ELinked(b, b.height, db.EB)
  BY <1>1, <1>2, <1>4 DEF OpenFollows, Follows, ELinked
<1>6. Known(b.entries, db.ENTRY) /\ Closed(b.entries)
  BY <1>2, <1>4 DEF OpenFollows, OpenClosed
<1>7. /\ SameBut(db', db, {"EB", "EB_MR", "EB_CHAIN_NUM", "CHAIN_HEAD"})
      /\ db'.EB = Put(db.EB, k, MarshalEBlock(b)) /\ db'.EB_MR = Put(db.EB_MR, r, k)
      /\ db'.EB_CHAIN_NUM = Put(db.EB_CHAIN_NUM, Append(b.chain, b.seq), k)
      /\ db'.CHAIN_HEAD = Put(db.CHAIN_HEAD, Chain(c), r)
  BY <1>0, <1>1, <1>3, EBlockBatch
<1>8. /\ ETables(db'.EB, db'.EB_MR) /\ Grown(db.EB, db'.EB) /\ Grown(db.EB_MR, db'.EB_MR)
      /\ EAt(db'.EB, k) = BuildEBlockHeader(b) /\ db'.EB_MR[r] = k
  BY <1>0, <1>1, <1>3, <1>5, <1>7, ETablesGrow DEF StoredChains
<1>9. DOMAIN db'.EB = DOMAIN db.EB \cup {k} /\ DOMAIN db'.EB_MR = DOMAIN db.EB_MR \cup {r}
  BY <1>7 DEF Put
<1>10. Contained(db'.EB, db.ENTRY, OpenHeight)
  <2>1. \A t, mr, e, n, u : /\ ETables(t, mr) /\ Contained(t, e, n) /\ ELinked(b, b.height, t)
                            /\ b.height < n /\ Known(b.entries, e) /\ u = Put(t, EBlockHash(b), MarshalEBlock(b))
                            => Contained(u, e, n)
    BY <1>1, <1>3, <1>6, ContainedGrows
  <2>2. b.height < OpenHeight
    BY <1>0, <1>1
  <2> QED BY <1>0, <1>5, <1>6, <1>7, <2>1, <2>2 DEF StoredChains
<1>11. /\ Filed(db'.EB_CHAIN_NUM, db'.EB)
       /\ Ordinary(c) => Numbered(c, b.seq + 1, db'.EB_CHAIN_NUM, db'.EB)
       /\ \A d \in Chains : \A m : d # c /\ Numbered(d, m, db.EB_CHAIN_NUM, db.EB) =>
            Numbered(d, m, db'.EB_CHAIN_NUM, db'.EB)
  <2>1. ASSUME NEW t, t = db.EB, NEW mr, mr = db.EB_MR, NEW num, num = db.EB_CHAIN_NUM,
               NEW u, u = db'.EB, NEW w, w = db'.EB_MR, NEW v, v = db'.EB_CHAIN_NUM
        PROVE  /\ Filed(v, u) /\ (Ordinary(b.chain) => Numbered(b.chain, b.seq + 1, v, u))
               /\ \A d \in Chains : \A m : d # b.chain /\ Numbered(d, m, num, t) => Numbered(d, m, v, u)
    <3>1. ETables(t, mr) /\ Filed(num, t) /\ Follows(b, b.height, t, num)
      BY <1>0, <1>1, <1>5, <2>1 DEF StoredChains
    <3>2. u = Put(t, k, MarshalEBlock(b)) /\ w = Put(mr, r, k) /\ v = Put(num, Append(b.chain, b.seq), k)
      BY <1>7, <2>1
    <3> QED BY ONLY <1>1, <1>3, <3>1, <3>2, FiledGrows, k = EBlockHash(b), r = EBlockKeyMR(b)
  <2> QED BY <1>3, <2>1
<1>12. eNext'[c] = MakeEBlock(c, b.seq + 1, b)
  BY <1>0, <1>1
<1>13. Follows(eNext'[c], OpenHeight, db'.EB, db'.EB_CHAIN_NUM) /\ eNext'[c].entries = <<>>
  <2>1. b # Nil
    BY <1>1 DEF IsEBlock, IsRecord, EBFields, Nil
  <2>2. \A u : u = eNext'[c] => /\ IsEBlock(u) /\ u.chain = c /\ u.seq = b.seq + 1 /\ u.entries = <<>>
                                /\ u.prevKeyMR = r /\ u.prevLedgerKeyMR = k
    <3>1. b.seq + 1 \in Nat
      BY <1>3
    <3> QED BY <1>3, <1>12, <2>1, <3>1, MadeEBlock
  <2>3. PICK v : v = BuildEBlockHeader(b)
    OBVIOUS
  <2>4. v.seq = b.seq /\ v.height = Height /\ EBlockKeyMR(v) = r
    BY <1>1, <2>3, BuiltEBlock, BuiltFields
  <2>5. \A u : u = eNext'[c] => ELinked(u, OpenHeight, db'.EB) 
    BY <1>0, <1>3, <1>8, <1>9, <2>2, <2>3, <2>4 DEF ELinked
  <2> QED BY <1>11, <2>2, <2>5 DEF Follows
<1>14. eNext' = [eNext EXCEPT ![c] = eNext'[c]]
  BY <1>0, <1>1, <1>12
<1> QED BY <1>1, <1>2, <1>3, <1>7, <1>8, <1>9, <1>10, <1>11, <1>13, <1>14 DEF Storing

LEMMA EntryBlockChains ==
    ASSUME Engine, Engine', Ledgers, EntryChains, newEntryBlock PROVE EntryChains'
<1>0. Control /\ Control' /\ OpenEBlocks /\ StoredChains /\ OpenChains /\ IsDBlock(dNext) /\ Height \in Nat
  BY DEF Engine, EntryChains, Control, Ledgers, Directories, newEntryBlock
<1>1. Height' = Height
  BY <1>0, ListedInDBlock
<1>2. pc = "entry" /\ pc' = "entry"
  BY EBlockSealed
<1>3. PICK c \in todo : todo' = todo \ {c} /\ (EBPassed(c) \/ EBStored(c))
  BY EBlockSealed
<1>4. OpenHeight = Height + 1 /\ OpenHeight' = Height + 1 /\ c \in DOMAIN eNext
  BY <1>0, <1>1, <1>2, <1>3 DEF OpenHeight, Control
<1>5. CASE EBPassed(c)
  <2>1. eNext[c].entries = <<>> /\ UNCHANGED <<db, eNext>>
    BY <1>5 DEF EBPassed
  <2>2. StoredChains'
    BY <1>0, <1>4, <2>1 DEF StoredChains, HeadsStored
  <2>3. ASSUME NEW o \in DOMAIN eNext, NEW h, h = (IF o \in todo THEN Height ELSE OpenHeight)'
        PROVE  OpenFollows(o, h)'
    <3>1. CASE o = c
      <4>1. OpenFollows(o, Height)
        BY <1>0, <1>3, <3>1 DEF OpenChains
      <4>2. \A m \in Nat : Height <= m => OpenFollows(o, m)'
        <5>1. eNext'[o] = eNext[o] /\ DOMAIN db.ENTRY \subseteq DOMAIN db'.ENTRY /\ \A f \in EntryTables : db'[f] = db[f]
          BY <2>1
        <5> QED BY <1>0, <4>1, <5>1, OpenKept
      <4>3. h = Height + 1
        BY <1>3, <1>4, <2>3, <3>1
      <4> QED BY <1>0, <4>2, <4>3
    <3>2. CASE o # c
      <4>1. h = IF o \in todo THEN Height ELSE OpenHeight
        BY <1>1, <1>3, <1>4, <2>3, <3>2
      <4> QED BY <1>0, <2>1, <4>1 DEF OpenChains, OpenFollows
    <3> QED BY <3>1, <3>2
  <2>4. OpenChains'
    <3>1. \A o \in DOMAIN eNext' : OpenFollows(o, IF o \in todo THEN Height ELSE OpenHeight)'
      BY <2>1, <2>3 DEF OpenFollows
    <3> QED BY <1>0, <1>2, <1>3, <2>1, <3>1 DEF OpenChains, OpenClosed, OpenIsNew
  <2> QED BY <2>2, <2>4 DEF EntryChains
<1>6. CASE EBStored(c)
  <2>1. PICK b, k, r : b = EBSealed(c) /\ k = EBlockHash(b) /\ r = EBlockKeyMR(b)
    OBVIOUS
  <2>2. /\ Storing(c, b, k, r) /\ eNext' = [eNext EXCEPT ![c] = eNext'[c]]
        /\ SameBut(db', db, {"EB", "EB_MR", "EB_CHAIN_NUM", "CHAIN_HEAD"})
        /\ db'.CHAIN_HEAD = Put(db.CHAIN_HEAD, Chain(c), r)
    BY <1>2, <1>6, <2>1, StoringBlock
  <2>3. db'.ENTRY = db.ENTRY
    BY <2>2 DEF SameBut, Tables
  <2>4. HeadsStored'
    <3>1. \A d \in Chains : Chain(d) = Chain(c) <=> d = c
      BY DEF Chain
    <3> QED BY <1>0, <2>2 DEF Storing, HeadsStored, StoredChains, Grown, Put
  <2>5. StoredChains'
    BY <1>4, <2>2, <2>3, <2>4 DEF Storing, StoredChains
  <2>6. DOMAIN eNext' = DOMAIN eNext /\ \A o \in DOMAIN eNext : o # c => eNext'[o] = eNext[o]
    BY <2>2
  <2>7. ASSUME NEW o \in DOMAIN eNext, NEW h, h = (IF o \in todo THEN Height ELSE OpenHeight)'
        PROVE  OpenFollows(o, h)'
    <3>1. CASE o = c
      <4>1. Known(eNext'[c].entries, db'.ENTRY)
        BY <2>2 DEF Storing, Known
      <4>2. h = OpenHeight
        BY <1>3, <1>4, <2>7, <3>1
      <4> QED BY <2>2, <3>1, <4>1, <4>2 DEF Storing, OpenFollows
    <3>2. CASE o # c
      <4>1. h = IF o \in todo THEN Height ELSE OpenHeight
        BY <1>1, <1>3, <1>4, <2>7, <3>2
      <4>3. OpenFollows(o, h)
        BY <1>0, <4>1 DEF OpenChains
      <4>4. eNext'[o] = eNext[o] /\ eNext[o].chain = o /\ o \in Chains
        BY <1>0, <2>6, <3>2 DEF OpenEBlocks, Control
      <4>5. ELinked(eNext[o], h, db'.EB)
        BY <2>2, <4>3, ELinkedKept DEF Storing, OpenFollows, Follows
      <4>6. Ordinary(o) => Numbered(o, eNext[o].seq, db'.EB_CHAIN_NUM, db'.EB)
        BY <2>2, <3>2, <4>3, <4>4 DEF Storing, OpenFollows, Follows
      <4>7. Known(eNext[o].entries, db'.ENTRY)
        BY <2>3, <4>3 DEF OpenFollows
      <4> QED BY <4>4, <4>5, <4>6, <4>7 DEF OpenFollows, Follows
    <3> QED BY <3>1, <3>2
  <2>8. ASSUME NEW o \in DOMAIN eNext PROVE OpenClosed(o)' /\ (o \notin todo' => OpenIsNew(o)')
    <3>1. CASE o = c
      BY <2>2, <3>1 DEF Storing, OpenClosed, OpenIsNew, Closed
    <3>2. CASE o # c
      <4>1. OpenClosed(o) /\ (o \notin todo => OpenIsNew(o))
        BY <1>0, <1>2 DEF OpenChains
      <4> QED BY <1>3, <2>6, <3>2, <4>1 DEF OpenClosed, OpenIsNew
    <3> QED BY <3>1, <3>2
  <2>9. OpenChains'
    <3>1. \A o \in DOMAIN eNext' : OpenFollows(o, IF o \in todo THEN Height ELSE OpenHeight)'
      BY <2>6, <2>7 DEF OpenFollows
    <3> QED BY <1>2, <2>6, <2>8, <3>1 DEF OpenChains
  <2> QED BY <2>5, <2>9 DEF EntryChains
<1> QED BY <1>3, <1>5, <1>6

LEMMA NextChains == ASSUME Engine, Engine', Ledgers, EntryChains, [Next]_vars PROVE EntryChains'
<1>1. CASE Start
  BY <1>1, StartChains
<1>2. CASE Restart \/ EndOfMinute
  BY <1>2, QuietChains
<1>3. CASE Build
  BY <1>3, ListChains, SealChains, EntryBlockChains, DirectoryChains, WrittenChains DEF Build
<1>4. CASE \E msgs : Post(msgs)
  BY <1>4, QuietChains
<1>5. CASE Requests \/ Reads
  BY <1>5, ReadsKeep, QuietChains
<1>6. CASE UNCHANGED vars
  BY <1>6, QuietChains DEF vars
<1> QED BY <1>1, <1>2, <1>3, <1>4, <1>5, <1>6 DEF Next

LEMMA AlwaysChains == Spec => []EntryChains
<1>1. Init => EntryChains
  BY InitChains
<1>2. EntryChains /\ Engine /\ Engine' /\ Ledgers /\ [Next]_vars => EntryChains'
  BY NextChains
<1> QED BY <1>1, <1>2, AlwaysEngine, AlwaysLedgers, PTL DEF Spec

\* The range scan a chain is opened with finds the blocks of the chain, in order,
\* and no other, for every chain id that does not end in the largest byte.
THEOREM ScansFound == Spec => []ScansFindTheirChain
<1>1. ASSUME EntryChains PROVE ScansFindTheirChain
  <2> SUFFICES ASSUME NEW c \in Chains, Last(c) # ByteMax,
                      NEW f, f = FetchAllEBlocksByChain(db, c)
               PROVE  ToSet(f) = BlocksOfChain(c) /\ \A i \in DOMAIN f : f[i].seq = i - 1
    BY DEF ScansFindTheirChain
  <2> DEFINE t == db.EB
             num == db.EB_CHAIN_NUM
  <2>1. ETables(t, db.EB_MR) /\ Filed(num, t)
    BY <1>1 DEF EntryChains, StoredChains
  <2>2. Ordinary(c)
    BY DEF Last, Ordinary
  <2>3. PICK m \in Nat : Numbered(c, m, num, t)
    BY <2>1, <2>2 DEF Filed
  <2>4. f = [i \in 1 .. m |-> EAt(t, num[Append(c, i - 1)])]
    BY <2>1, <2>2, <2>3, ScanIs
  <2>5. \A b : b \in BlocksOfChain(c) <=> \E k \in DOMAIN t : b = EAt(t, k) /\ b.chain = c
    BY DEF BlocksOfChain, EBlocks, Rows, EAt
  <2> HIDE DEF t, num
  <2>6. ASSUME NEW i \in 1 .. m PROVE f[i] \in BlocksOfChain(c) /\ f[i].seq = i - 1
    <3>1. PICK j \in 0 .. (m - 1) : j = i - 1
      BY <2>3
    <3>2. j \in Nat /\ j < m
      BY <2>3
    <3>3. Append(c, j) \in DOMAIN num
      BY <2>3, <3>2 DEF Numbered
    <3>4. num[Append(c, j)] \in DOMAIN t
      BY <2>1, <3>3 DEF Filed
    <3>5. EAt(t, num[Append(c, j)]).chain = c /\ EAt(t, num[Append(c, j)]).seq = j
      BY <2>3 DEF Numbered
    <3>6. f[i] = EAt(t, num[Append(c, j)])
      BY <2>4, <3>1
    <3> QED BY <2>5, <3>1, <3>4, <3>5, <3>6
  <2>7. ASSUME NEW k \in DOMAIN t, EAt(t, k).chain = c PROVE \E i \in 1 .. m : f[i] = EAt(t, k)
    <3>1. EAt(t, k).seq < m /\ num[Append(c, EAt(t, k).seq)] = k
      BY <2>3, <2>7 DEF Numbered
    <3>2. EAt(t, k).seq \in Nat
      BY <2>1 DEF ETables, ERowIs, IsEBlock
    <3>3. PICK i \in 1 .. m : i - 1 = EAt(t, k).seq
      <4>1. EAt(t, k).seq + 1 \in 1 .. m /\ (EAt(t, k).seq + 1) - 1 = EAt(t, k).seq
        BY <2>3, <3>1, <3>2
      <4> QED BY <4>1
    <3> QED BY <2>4, <3>1, <3>3
  <2>8. DOMAIN f = 1 .. m /\ ToSet(f) = {f[i] : i \in 1 .. m}
    BY <2>4 DEF ToSet
  <2> QED BY <2>5, <2>6, <2>7, <2>8
<1> QED BY <1>1, AlwaysChains, PTL

----------------------------------------------------------------------------
\* What directory blocks list.

ListedAt(k, h) == k \in DOMAIN db.EB_MR /\ EAt(db.EB, db.EB_MR[k]).height = h

ListsEBlocks(d) == \A i \in 4 .. Len(d.entries) : ListedAt(d.entries[i].keyMR, d.height)

Lists(d) ==
    /\ d.timestamp = Timestamp(d.height) /\ ListsEBlocks(d)
    /\ d.entries[1].keyMR = db.AB_NUM[d.height] /\ d.entries[2].keyMR = db.CB_NUM[d.height]
    /\ d.entries[3].keyMR = db.SC_NUM[d.height]

StoredLists == \A h \in 0 .. (DirCount - 1) : Lists(DAt(db.DB, db.DB_NUM, h))

OpenLists ==
    /\ pc # "init" => dNext.timestamp = Timestamp(Height) /\ ListsEBlocks(dNext)
    /\ AdmCount > Height => dNext.entries[1].keyMR = db.AB_NUM[Height]
    /\ EcCount > Height  => dNext.entries[2].keyMR = db.CB_NUM[Height]
    /\ FctCount > Height => dNext.entries[3].keyMR = db.SC_NUM[Height]

Listing == StoredLists /\ (pc = "dir" => Lists(sealed)) /\ OpenLists

\* Entry blocks are stored, and none is changed.
EGrown == ETables(db.EB, db.EB_MR) /\ Grown(db.EB, db'.EB) /\ Grown(db.EB_MR, db'.EB_MR)

LEMMA EBlockKept ==
    ASSUME EGrown, NEW k \in DOMAIN db.EB_MR
    PROVE  k \in DOMAIN db'.EB_MR /\ EAt(db'.EB, db'.EB_MR[k]) = EAt(db.EB, db.EB_MR[k])
BY DEF EGrown, ETables, Grown, EAt

LEMMA ESame == ASSUME EntryChains, db'.EB = db.EB, db'.EB_MR = db.EB_MR PROVE EGrown
BY DEF EntryChains, StoredChains, EGrown, Grown

LEMMA ListsEBlocksKept ==
    ASSUME EGrown, NEW d, ListsEBlocks(d), NEW u, u.height = d.height, Len(u.entries) = Len(d.entries),
           \A i \in 4 .. Len(d.entries) : u.entries[i].keyMR = d.entries[i].keyMR
    PROVE  \A i \in 4 .. Len(u.entries) : /\ u.entries[i].keyMR \in DOMAIN db'.EB_MR
                                          /\ EAt(db'.EB, db'.EB_MR[u.entries[i].keyMR]).height = u.height
BY EBlockKept DEF ListsEBlocks, ListedAt

LEMMA ListsKept ==
    ASSUME EGrown, NEW d, Lists(d), db'.AB_NUM[d.height] = db.AB_NUM[d.height],
           db'.CB_NUM[d.height] = db.CB_NUM[d.height], db'.SC_NUM[d.height] = db.SC_NUM[d.height]
    PROVE  Lists(d)'
BY ListsEBlocksKept DEF Lists, ListsEBlocks, ListedAt

NumsKept(h) ==
    db'.AB_NUM[h] = db.AB_NUM[h] /\ db'.CB_NUM[h] = db.CB_NUM[h] /\ db'.SC_NUM[h] = db.SC_NUM[h]

LEMMA StoredListsKept ==
    ASSUME Engine, Ledgers, StoredLists, EGrown, db'.DB = db.DB, db'.DB_NUM = db.DB_NUM,
           DirCount' = DirCount, \A h \in 0 .. (Height - 1) : NumsKept(h)
    PROVE  StoredLists'
<1> SUFFICES ASSUME NEW h \in 0 .. (DirCount - 1) PROVE Lists(DAt(db.DB, db.DB_NUM, h))'
  BY DEF StoredLists
<1> DEFINE d == DAt(db.DB, db.DB_NUM, h)
<1>1. Lists(d) /\ d.height = h
  BY DFetched DEF StoredLists, Ledgers, Directories
<1>2. h \in 0 .. (Height - 1)
  BY DEF DirCount, Engine, Control
<1>3. NumsKept(h)
  BY <1>2
<1> HIDE DEF d
<1>4. \A b : b = d => Lists(b)'
  <2>1. \A b : /\ Lists(b) /\ db'.AB_NUM[b.height] = db.AB_NUM[b.height]
               /\ db'.CB_NUM[b.height] = db.CB_NUM[b.height] /\ db'.SC_NUM[b.height] = db.SC_NUM[b.height]
               => Lists(b)'
    BY ListsKept
  <2> QED BY <1>1, <1>3, <2>1 DEF NumsKept
<1> QED BY <1>4 DEF d, Lists, ListsEBlocks, ListedAt

LEMMA ListingKept ==
    ASSUME Engine, Ledgers, EntryChains, Listing,
           \A f \in LedgerTables \cup {"EB", "EB_MR"} : db'[f] = db[f], UNCHANGED <<dNext, sealed>>,
           pc' = pc \/ (pc # "init" /\ {pc, pc'} \subseteq {"init", "serve", "build", "ec"})
    PROVE  Listing'
<1>1. /\ db'.EB = db.EB /\ db'.EB_MR = db.EB_MR /\ db'.DB = db.DB /\ db'.DB_NUM = db.DB_NUM
      /\ db'.AB_NUM = db.AB_NUM /\ db'.CB_NUM = db.CB_NUM /\ db'.SC_NUM = db.SC_NUM
  BY DEF LedgerTables
<1>2. Height' = Height /\ DirCount' = DirCount /\ AdmCount' = AdmCount /\ EcCount' = EcCount
      /\ FctCount' = FctCount
  BY DEF Height, DirCount, AdmCount, EcCount, FctCount
<1>3. EGrown /\ \A h : NumsKept(h)
  BY <1>1, ESame DEF NumsKept
<1>4. StoredLists'
  BY <1>1, <1>2, <1>3, StoredListsKept DEF Listing
<1>5. (pc = "dir" => Lists(sealed))'
  BY <1>1 DEF Listing, Lists, ListsEBlocks, ListedAt
<1>6. OpenLists'
  BY <1>1, <1>2 DEF Listing, OpenLists, ListsEBlocks, ListedAt
<1> QED BY <1>4, <1>5, <1>6 DEF Listing

\* A block of the three ledgers is sealed and listed.
LEMMA LedgerListed ==
    ASSUME Engine, Ledgers, EntryChains, Listing,
           NEW N, SameBut(db', db, N), N \cap {"EB", "EB_MR", "DB", "DB_NUM"} = {},
           pc \notin {"init", "dir"}, pc' \notin {"init", "dir"}, Height' = Height,
           \A h \in 0 .. (Height - 1) : NumsKept(h),
           NEW i \in 1 .. 3, NEW c, NEW k, dNext' = WithEntry(dNext, i, DBEntry(c, k))
    PROVE  /\ StoredLists' /\ dNext'.timestamp = Timestamp(Height)' /\ ListsEBlocks(dNext)'
           /\ dNext'.entries[i].keyMR = k
           /\ \A j \in (1 .. 3) \ {i} : dNext'.entries[j] = dNext.entries[j]
<1>1. IsDBlock(dNext) /\ OpenLists /\ StoredLists
  BY DEF Ledgers, Directories, Listing
<1>2. /\ db'.EB = db.EB /\ db'.EB_MR = db.EB_MR /\ db'.DB = db.DB /\ db'.DB_NUM = db.DB_NUM
  BY DEF SameBut, Tables
<1>3. EGrown /\ DirCount' = DirCount
  BY <1>2, ESame DEF DirCount
<1>4. StoredLists'
  BY <1>1, <1>2, <1>3, StoredListsKept
<1>5. /\ \A f \in DBFields \ {"entries"} : dNext'[f] = dNext[f]
      /\ Len(dNext'.entries) = Len(dNext.entries) /\ dNext'.entries[i].keyMR = k
      /\ \A j \in (1 .. Len(dNext.entries)) \ {i} : dNext'.entries[j] = dNext.entries[j]
  <2>1. \A u : u = dNext' =>
            /\ \A f \in DBFields \ {"entries"} : u[f] = dNext[f]
            /\ Len(u.entries) = Len(dNext.entries) /\ u.entries[i].keyMR = k
            /\ \A j \in (1 .. Len(dNext.entries)) \ {i} : u.entries[j] = dNext.entries[j]
    BY <1>1, DBlockEntryPut
  <2> QED BY <2>1
<1>6. Len(dNext.entries) \in Nat /\ Len(dNext.entries) >= 3
  BY <1>1 DEF IsDBlock
<1>7. dNext'.timestamp = dNext.timestamp /\ dNext'.height = dNext.height
  BY <1>5 DEF DBFields
<1>8. dNext'.timestamp = Timestamp(Height)'
  BY <1>1, <1>7 DEF OpenLists, Timestamp
<1>9. ListsEBlocks(dNext)'
  <2>1. \A j \in 4 .. Len(dNext.entries) : dNext'.entries[j] = dNext.entries[j]
    BY <1>5, <1>6
  <2>2. ListsEBlocks(dNext)
    BY <1>1 DEF OpenLists
  <2> QED BY <1>2, <1>5, <1>7, <2>1, <2>2 DEF ListsEBlocks, ListedAt
<1>10. \A j \in (1 .. 3) \ {i} : dNext'.entries[j] = dNext.entries[j]
  BY <1>5, <1>6
<1> QED BY <1>4, <1>5, <1>8, <1>9, <1>10

LEMMA SealListing ==
    ASSUME Engine, Ledgers, EntryChains, Listing, newEntryCreditBlock \/ newAdminBlock \/ newFactoidBlock
    PROVE  Listing'
<1>0. Control /\ Height \in Nat /\ OpenLists
  BY DEF Engine, Control, Listing
<1>1. CASE newEntryCreditBlock
  <2>1. /\ Height' = Height /\ SameBut(db', db, {"CB", "CB_NUM", "CHAIN_HEAD"})
        /\ dNext' = WithEntry(dNext, 2, DBEntry(SystemChain("ec"), db'.CB_NUM[Height]))
        /\ \A h \in 0 .. (Height - 1) : db'.CB_NUM[h] = db.CB_NUM[h]
    BY <1>1, CreditsStored
  <2>2. pc = "ec" /\ pc' = "admin"
    BY <1>1 DEF newEntryCreditBlock
  <2>3. db'.AB_NUM = db.AB_NUM /\ db'.SC_NUM = db.SC_NUM
    BY <2>1 DEF SameBut, Tables
  <2>4. /\ StoredLists' /\ dNext'.timestamp = Timestamp(Height)' /\ ListsEBlocks(dNext)'
        /\ dNext'.entries[2].keyMR = db'.CB_NUM[Height]
    BY <2>1, <2>2, <2>3, LedgerListed DEF NumsKept
  <2>5. ~(AdmCount' > Height') /\ ~(FctCount' > Height')
    BY <1>0, <2>1, <2>2 DEF AdmCount, FctCount
  <2> QED BY <2>1, <2>2, <2>4, <2>5 DEF Listing, OpenLists
<1>2. CASE newAdminBlock
  <2>1. /\ Height' = Height /\ SameBut(db', db, {"AB", "AB_NUM", "CHAIN_HEAD"})
        /\ dNext' = WithEntry(dNext, 1, DBEntry(SystemChain("admin"), db'.AB_NUM[Height]))
        /\ \A h \in 0 .. (Height - 1) : db'.AB_NUM[h] = db.AB_NUM[h]
    BY <1>2, AdminsStored
  <2>2. pc = "admin" /\ pc' = "fct"
    BY <1>2 DEF newAdminBlock
  <2>3. db'.CB_NUM = db.CB_NUM /\ db'.SC_NUM = db.SC_NUM
    BY <2>1 DEF SameBut, Tables
  <2>4. /\ StoredLists' /\ dNext'.timestamp = Timestamp(Height)' /\ ListsEBlocks(dNext)'
        /\ dNext'.entries[1].keyMR = db'.AB_NUM[Height] /\ dNext'.entries[2] = dNext.entries[2]
    BY <2>1, <2>2, <2>3, LedgerListed DEF NumsKept
  <2>5. ~(FctCount' > Height') /\ EcCount > Height
    BY <1>0, <2>1, <2>2 DEF EcCount, FctCount
  <2> QED BY <1>0, <2>1, <2>2, <2>3, <2>4, <2>5 DEF Listing, OpenLists
<1>3. CASE newFactoidBlock
  <2>1. /\ Height' = Height /\ SameBut(db', db, {"SC", "SC_NUM", "CHAIN_HEAD"})
        /\ dNext' = WithEntry(dNext, 3, DBEntry(SystemChain("factoid"), db'.SC_NUM[Height]))
        /\ \A h \in 0 .. (Height - 1) : db'.SC_NUM[h] = db.SC_NUM[h]
    BY <1>3, FactoidsStored
  <2>2. pc = "fct" /\ pc' = "entry"
    BY <1>3 DEF newFactoidBlock
  <2>3. db'.CB_NUM = db.CB_NUM /\ db'.AB_NUM = db.AB_NUM
    BY <2>1 DEF SameBut, Tables
  <2>4. /\ StoredLists' /\ dNext'.timestamp = Timestamp(Height)' /\ ListsEBlocks(dNext)'
        /\ dNext'.entries[3].keyMR = db'.SC_NUM[Height] /\ dNext'.entries[2] = dNext.entries[2]
        /\ dNext'.entries[1] = dNext.entries[1]
    BY <2>1, <2>2, <2>3, LedgerListed DEF NumsKept
  <2>5. AdmCount > Height /\ EcCount > Height
    BY <1>0, <2>2 DEF AdmCount, EcCount
  <2> QED BY <1>0, <2>1, <2>2, <2>3, <2>4, <2>5 DEF Listing, OpenLists
<1> QED BY <1>1, <1>2, <1>3

LEMMA EntryBlockListing ==
    ASSUME Engine, Ledgers, EntryChains, Listing, newEntryBlock PROVE Listing'
<1>0. Control /\ Height \in Nat /\ OpenLists /\ StoredLists /\ IsDBlock(dNext) /\ pc = "entry" /\ OpenEBlocks
  BY DEF Engine, Control, Listing, Ledgers, Directories, newEntryBlock
<1>1. Height' = Height /\ pc' = pc
  BY <1>0, ListedInDBlock, EBlockSealed
<1>2. PICK c \in todo : EBPassed(c) \/ EBStored(c)
  BY EBlockSealed
<1>3. sealed' = sealed
  BY DEF newEntryBlock, KeepInSealing
<1>4. CASE EBPassed(c)
  BY <1>1, <1>3, <1>4, ListingKept DEF EBPassed
<1>5. CASE EBStored(c)
  <2>1. PICK b, k, r : b = EBSealed(c) /\ k = EBlockHash(b) /\ r = EBlockKeyMR(b)
    OBVIOUS
  <2>2. /\ Storing(c, b, k, r) /\ IsEBlock(b) /\ b.height = Height
        /\ SameBut(db', db, {"EB", "EB_MR", "EB_CHAIN_NUM", "CHAIN_HEAD"})
        /\ dNext' = WithMore(dNext, DBEntry(Chain(c), r))
    BY <1>0, <1>5, <2>1, StoringBlock
  <2>3. /\ db'.DB = db.DB /\ db'.DB_NUM = db.DB_NUM
        /\ db'.AB_NUM = db.AB_NUM /\ db'.CB_NUM = db.CB_NUM /\ db'.SC_NUM = db.SC_NUM
    BY <2>2 DEF SameBut, Tables
  <2>4. EGrown
    BY <2>2 DEF EGrown, Storing, EntryChains, StoredChains
  <2>5. DirCount' = DirCount /\ AdmCount' = AdmCount /\ EcCount' = EcCount /\ FctCount' = FctCount
    BY <1>1 DEF DirCount, AdmCount, EcCount, FctCount
  <2>6. StoredLists'
    BY <1>0, <2>3, <2>4, <2>5, StoredListsKept DEF NumsKept
  <2>7. /\ \A f \in DBFields \ {"entries"} : dNext'[f] = dNext[f]
        /\ Len(dNext'.entries) = Len(dNext.entries) + 1
        /\ dNext'.entries[Len(dNext.entries) + 1].keyMR = r
        /\ \A j \in 1 .. Len(dNext.entries) : dNext'.entries[j] = dNext.entries[j]
    <3>1. \A u : u = dNext' =>
            /\ \A f \in DBFields \ {"entries"} : u[f] = dNext[f]
            /\ Len(u.entries) = Len(dNext.entries) + 1
            /\ u.entries[Len(dNext.entries) + 1].keyMR = r
            /\ \A j \in 1 .. Len(dNext.entries) : u.entries[j] = dNext.entries[j]
      BY <1>0, <2>2, DBlockEntryAppended
    <3> QED BY <3>1
  <2>8. dNext'.timestamp = dNext.timestamp /\ dNext'.height = dNext.height
        /\ Len(dNext.entries) \in Nat /\ Len(dNext.entries) >= 3
    BY <1>0, <2>7 DEF DBFields, IsDBlock
  <2>9. /\ dNext'.timestamp = Timestamp(Height)' /\ dNext'.entries[1] = dNext.entries[1]
        /\ dNext'.entries[2] = dNext.entries[2] /\ dNext'.entries[3] = dNext.entries[3]
    <3>1. 1 \in 1 .. Len(dNext.entries) /\ 2 \in 1 .. Len(dNext.entries) /\ 3 \in 1 .. Len(dNext.entries)
      BY <2>8
    <3>2. dNext.timestamp = Timestamp(Height)
      BY <1>0 DEF OpenLists
    <3>3. dNext'.timestamp = Timestamp(Height)'
      BY <1>1, <2>8, <3>2 DEF Timestamp
    <3> QED BY <2>7, <3>1, <3>3
  <2>10. ListsEBlocks(dNext)'
    <3>1. ASSUME NEW j \in 4 .. Len(dNext'.entries), NEW x, x = dNext'.entries[j].keyMR
          PROVE  x \in DOMAIN db'.EB_MR /\ EAt(db'.EB, db'.EB_MR[x]).height = dNext'.height
      <4>1. CASE j = Len(dNext.entries) + 1
        <5>1. x = r
          BY <2>7, <3>1, <4>1
        <5>2. BuildEBlockHeader(b).height = Height
          BY <2>2, BuiltFields
        <5> QED BY <2>2, <2>8, <5>1, <5>2 DEF Storing, Height
      <4>2. CASE j # Len(dNext.entries) + 1
        <5>1. j \in 4 .. Len(dNext.entries)
          BY <2>7, <2>8, <4>2
        <5>2. x = dNext.entries[j].keyMR
          BY <2>7, <2>8, <3>1, <5>1
        <5>3. x \in DOMAIN db.EB_MR /\ EAt(db.EB, db.EB_MR[x]).height = dNext.height
          BY <1>0, <5>1, <5>2 DEF OpenLists, ListsEBlocks, ListedAt
        <5> QED BY <2>4, <2>8, <5>3, EBlockKept
      <4> QED BY <4>1, <4>2
    <3> QED BY <3>1 DEF ListsEBlocks, ListedAt
  <2>11. OpenLists'
    BY <1>0, <1>1, <2>3, <2>5, <2>9, <2>10 DEF OpenLists
  <2> QED BY <1>0, <1>1, <2>6, <2>11 DEF Listing
<1> QED BY <1>2, <1>4, <1>5

LEMMA DirectoryListing ==
    ASSUME Engine, Ledgers, EntryChains, Listing, newDirectoryBlock PROVE Listing'
<1>0. Control /\ Height \in Nat /\ OpenLists /\ StoredLists /\ IsDBlock(dNext)
      /\ pc = "entry" /\ pc' = "dir"
  BY DEF Engine, Control, Listing, Ledgers, Directories, newDirectoryBlock
<1>1. /\ Height' = Height + 1 /\ db' = db /\ sealed'.entries = dNext.entries
      /\ sealed'.height = Height /\ sealed'.timestamp = dNext.timestamp
  BY DirectorySealed
<1>2. StoredLists'
  <2>1. EGrown
    BY <1>1, ESame
  <2>2. DirCount' = DirCount
    BY <1>0, <1>1 DEF DirCount
  <2> QED BY <1>0, <1>1, <2>1, <2>2, StoredListsKept DEF NumsKept
<1>3. Lists(sealed)'
  <2>1. AdmCount > Height /\ EcCount > Height /\ FctCount > Height
    BY <1>0 DEF AdmCount, EcCount, FctCount
  <2>2. Height = dNext.height
    BY DEF Height
  <2>3. /\ dNext.timestamp = Timestamp(Height) /\ ListsEBlocks(dNext)
        /\ dNext.entries[1].keyMR = db.AB_NUM[Height] /\ dNext.entries[2].keyMR = db.CB_NUM[Height]
        /\ dNext.entries[3].keyMR = db.SC_NUM[Height]
    BY <1>0, <2>1 DEF OpenLists
  <2> QED BY <1>1, <2>2, <2>3 DEF Lists, ListsEBlocks, ListedAt
<1>4. OpenLists'
  <2>1. \E p, q : IsSetOut(dNext', Height + 1, p, q, Timestamp(Height + 1), Placeholders)
    <3>1. \E p, q, t : IsSetOut(dNext', sealed'.height + 1, p, q, Timestamp(sealed'.height + 1), Placeholders)
      BY DEF newDirectoryBlock, IsSetOut
    <3> QED BY <1>1, <3>1
  <2>2. dNext'.timestamp = Timestamp(Height + 1) /\ dNext'.entries = Placeholders
    <3>1. \A u, n, p, q, t, e : IsSetOut(u, n, p, q, t, e) => u.timestamp = t /\ u.entries = e
      BY SetOutDBlock
    <3> QED BY <2>1, <3>1
  <2>3. Len(Placeholders) = 3
    BY DEF Placeholders
  <2>4. dNext'.timestamp = Timestamp(Height)' /\ ListsEBlocks(dNext)'
    BY <1>1, <2>2, <2>3 DEF ListsEBlocks, Timestamp
  <2>5. ~(AdmCount' > Height') /\ ~(EcCount' > Height') /\ ~(FctCount' > Height')
    BY <1>0, <1>1 DEF AdmCount, EcCount, FctCount
  <2> QED BY <2>4, <2>5 DEF OpenLists
<1> QED BY <1>2, <1>3, <1>4 DEF Listing

LEMMA WrittenListing ==
    ASSUME Engine, Ledgers, EntryChains, Listing, WriteDirectoryBlock PROVE Listing'
<1>0. Control /\ Height \in Nat /\ OpenLists /\ StoredLists /\ Lists(sealed)
      /\ pc = "dir" /\ pc' = "serve" /\ dNext' = dNext
  BY DEF Engine, Control, Listing, WriteDirectoryBlock
<1>1. /\ Height' = Height /\ SameBut(db', db, {"DB", "DB_NUM", "DB_MR", "CHAIN_HEAD"})
      /\ DAt(db'.DB, db'.DB_NUM, Height - 1) = sealed
      /\ \A h \in 0 .. (Height - 2) : DAt(db'.DB, db'.DB_NUM, h) = DAt(db.DB, db.DB_NUM, h)
  BY DirectoryWritten
<1>2. /\ db'.EB = db.EB /\ db'.EB_MR = db.EB_MR
      /\ db'.AB_NUM = db.AB_NUM /\ db'.CB_NUM = db.CB_NUM /\ db'.SC_NUM = db.SC_NUM
  BY <1>1 DEF SameBut, Tables
<1>3. \A d : Lists(d) => Lists(d)'
  BY <1>2 DEF Lists, ListsEBlocks, ListedAt
<1>4. DirCount = Height - 1 /\ DirCount' = Height
  BY <1>0, <1>1 DEF DirCount
<1>5. ASSUME NEW h \in 0 .. (Height - 1), NEW d, d = DAt(db'.DB, db'.DB_NUM, h) PROVE Lists(d)
  <2>1. CASE h = Height - 1
    BY <1>0, <1>1, <1>5, <2>1
  <2>2. CASE h # Height - 1
    <3>1. h \in 0 .. (Height - 2) /\ h \in 0 .. (DirCount - 1)
      BY <1>0, <1>4, <2>2
    <3> QED BY <1>0, <1>1, <1>5, <3>1 DEF StoredLists
  <2> QED BY <2>1, <2>2
<1>6. StoredLists'
  BY <1>2, <1>4, <1>5 DEF StoredLists, Lists, ListsEBlocks, ListedAt
<1>7. OpenLists'
  <2>1. ~(AdmCount' > Height') /\ ~(EcCount' > Height') /\ ~(FctCount' > Height')
    BY <1>0, <1>1 DEF AdmCount, EcCount, FctCount
  <2> QED BY <1>0, <1>1, <1>2, <2>1 DEF OpenLists, ListsEBlocks, ListedAt, Timestamp
<1> QED BY <1>0, <1>6, <1>7 DEF Listing

LEMMA InitListing == ASSUME Init PROVE Listing
<1>1. pc = "init" /\ dNext = CreateDBlock(0, NewHash, NewHash)
  BY DEF Init
<1>2. Height = 0
  BY <1>1 DEF Height, CreateDBlock
<1>3. DirCount = 0 /\ ~(AdmCount > Height) /\ ~(EcCount > Height) /\ ~(FctCount > Height)
  BY <1>1, <1>2 DEF DirCount, AdmCount, EcCount, FctCount
<1> QED BY <1>1, <1>3 DEF Listing, StoredLists, OpenLists

LEMMA StartListing ==
    ASSUME Engine, Engine', Ledgers, EntryChains, Listing, Start PROVE Listing'
<1>0. Control /\ Control' /\ Height \in Nat /\ StoredLists
  BY DEF Engine, Control, Listing
<1>1. pc = "init" /\ pc' \in {"ec", "serve"} /\ UNCHANGED db /\ dNext' = initDChain(Cardinality(FetchAllDBlocks(db)))
  BY DEF Start
<1>2. dNext' = initDChain(Height)
  BY <1>1, DirectoryHeight DEF Ledgers
<1>3. \E p, q : IsSetOut(dNext', Height, p, q, Timestamp(Height), Placeholders)
  BY <1>2 DEF initDChain, IsSetOut
<1>4. dNext'.height = Height /\ dNext'.timestamp = Timestamp(Height) /\ dNext'.entries = Placeholders
  <2>1. \A u, n, p, q, t, e : IsSetOut(u, n, p, q, t, e) => u.height = n /\ u.timestamp = t /\ u.entries = e
    BY SetOutDBlock
  <2> QED BY <1>3, <2>1
<1>5. Height' = Height
  BY <1>4 DEF Height
<1>6. DirCount = Height /\ DirCount' = Height /\ ~(AdmCount' > Height') /\ ~(EcCount' > Height')
      /\ ~(FctCount' > Height')
  BY <1>0, <1>1, <1>5 DEF DirCount, AdmCount, EcCount, FctCount
<1>7. StoredLists'
  <2>1. EGrown
    BY <1>1, ESame
  <2> QED BY <1>0, <1>1, <1>6, <2>1, StoredListsKept DEF NumsKept
<1>8. OpenLists'
  <2>1. Len(Placeholders) = 3
    BY DEF Placeholders
  <2>2. dNext'.timestamp = Timestamp(Height)'
    BY <1>4, <1>5 DEF Timestamp
  <2>3. ListsEBlocks(dNext)'
    BY <1>4, <2>1 DEF ListsEBlocks
  <2> QED BY <1>6, <2>2, <2>3 DEF OpenLists
<1> QED BY <1>1, <1>7, <1>8 DEF Listing

LEMMA ListListing ==
    ASSUME Engine, Ledgers, EntryChains, Listing, buildFromProcessList PROVE Listing'
<1> DEFINE m == Head(plist)
<1>0. Control /\ Tabled
  BY DEF Engine
<1>1. /\ pc = "build" /\ plist # <<>> /\ pc' \in {"build", "ec"} /\ UNCHANGED <<dNext, sealed>>
  BY DEF buildFromProcessList
<1>2. (m.type = "reveal" /\ buildReveal(UnmarshalEntry(m.body))) \/ db' = db
  BY DEF buildFromProcessList, buildCommit, buildIncreaseBalance, buildEndOfMinute
<1>3. \A f \in LedgerTables \cup {"EB", "EB_MR"} : db'[f] = db[f]
  <2>1. CASE m.type = "reveal" /\ buildReveal(UnmarshalEntry(m.body))
    <3>1. PICK c \in Chains, x \in Contents : UnmarshalEntry(m.body) = Entry(c, x)
      BY <1>0, <1>1, <2>1, NextMessage
    <3>2. buildReveal(Entry(c, x))
      BY <2>1, <3>1
    <3>3. SameBut(db', db, {"ENTRY", "CHAIN_HASH"})
      BY <1>0, <3>2, Revealed
    <3> QED BY <3>3 DEF SameBut, Tables, LedgerTables
  <2> QED BY <1>2, <2>1
<1> QED BY <1>1, <1>3, ListingKept

LEMMA NextListing ==
    ASSUME Engine, Engine', Ledgers, EntryChains, Listing, [Next]_vars PROVE Listing'
<1>1. ASSUME UNCHANGED <<db, dNext, sealed>>,
             pc' = pc \/ (pc # "init" /\ {pc, pc'} \subseteq {"init", "serve", "build", "ec"})
      PROVE  Listing'
  BY <1>1, ListingKept
<1>2. CASE Start
  BY <1>2, StartListing
<1>3. CASE Restart
  BY <1>1, <1>3 DEF Restart, open
<1>4. CASE EndOfMinute
  BY <1>1, <1>4 DEF EndOfMinute, store, open
<1>5. CASE Build
  BY <1>5, ListListing, SealListing, EntryBlockListing, DirectoryListing, WrittenListing DEF Build
<1>6. CASE \E msgs : Post(msgs)
  BY <1>1, <1>6 DEF Post, store, open
<1>7. CASE Requests \/ Reads
  <2>1. UNCHANGED <<store, engine>>
    BY <1>7, ReadsKeep
  <2> QED BY <1>1, <2>1 DEF store, engine, open
<1>8. CASE UNCHANGED vars
  BY <1>1, <1>8 DEF vars, store, engine, open
<1> QED BY <1>2, <1>3, <1>4, <1>5, <1>6, <1>7, <1>8 DEF Next

LEMMA AlwaysListing == Spec => []Listing
<1>1. Init => Listing
  BY InitListing
<1>2. Listing /\ EntryChains /\ Engine /\ Engine' /\ Ledgers /\ [Next]_vars => Listing'
  BY NextListing
<1> QED BY <1>1, <1>2, AlwaysEngine, AlwaysLedgers, AlwaysChains, PTL DEF Spec

\* What the links of a stored directory block lead to.
LEMMA DLinks ==
    ASSUME Engine, Ledgers, EntryChains, Listing, NEW b \in DBlocks
    PROVE  /\ LET prev == FetchDBlockByHash(db, b.prevLedgerKeyMR) IN
                IF b.height = 0 THEN prev = Nil
                ELSE prev # Nil /\ prev.height = b.height - 1 /\ BuildKeyMerkleRoot(prev) = b.prevKeyMR
           /\ b.entries[1].keyMR = Get(db.AB_NUM, b.height) /\ b.entries[1].keyMR \in DOMAIN db.AB
           /\ b.entries[2].keyMR = Get(db.CB_NUM, b.height) /\ b.entries[2].keyMR \in DOMAIN db.CB
           /\ b.entries[3].keyMR = Get(db.SC_NUM, b.height) /\ b.entries[3].keyMR \in DOMAIN db.SC
           /\ \A k \in ListedEBlocks(b) : FetchEBlockByHash(db, FetchEBHashByMR(db, k)) # Nil
<1>0. /\ DChain(db.DB, db.DB_NUM, db.DB_MR, DirCount) /\ AChain(db.AB, db.AB_NUM, AdmCount)
      /\ ECChain(db.CB, db.CB_NUM, EcCount) /\ FChain(db.SC, db.SC_NUM, FctCount) /\ StoredLists
      /\ ETables(db.EB, db.EB_MR)
  BY DEF Ledgers, Directories, Admins, Credits, Factoids, Listing, EntryChains, StoredChains
<1>1. PICK h \in 0 .. (DirCount - 1) : b = DAt(db.DB, db.DB_NUM, h)
  BY <1>0 DEF DBlocks, FetchAllDBlocks, Rows, DChain, DAt
<1>2. b.height = h /\ DLinked(b, db.DB, db.DB_NUM) /\ Lists(b)
  BY <1>0, <1>1, DFetched DEF DChain, StoredLists
<1>3. h \in 0 .. (AdmCount - 1) /\ h \in 0 .. (EcCount - 1) /\ h \in 0 .. (FctCount - 1) /\ h \in Nat
  BY DEF AdmCount, EcCount, FctCount, DirCount, Engine, Control
<1>4. b.height = 0 => FetchDBlockByHash(db, b.prevLedgerKeyMR) = Nil
  <2> SUFFICES ASSUME b.height = 0 PROVE FetchDBlockByHash(db, NewHash) = Nil
    BY <1>2 DEF DLinked
  <2>1. ASSUME NEW k \in DOMAIN db.DB PROVE \E c : k = DBlockHash(c)
    <3>1. PICK i \in 0 .. (DirCount - 1) : k = db.DB_NUM[i]
      BY <1>0 DEF DChain
    <3> QED BY <1>0, <3>1, DFetched
  <2>2. NewHash \notin DOMAIN db.DB
    BY <2>1 DEF DBlockHash, Sha, NewHash
  <2> QED BY <2>2 DEF FetchDBlockByHash, Get, Parsed
<1>5. ASSUME b.height # 0, NEW prev, prev = FetchDBlockByHash(db, b.prevLedgerKeyMR)
      PROVE  prev # Nil /\ prev.height = b.height - 1 /\ BuildKeyMerkleRoot(prev) = b.prevKeyMR
  <2>1. PICK j \in 0 .. (DirCount - 1) : j = h - 1
    <3>1. DirCount \in Nat
      BY <1>0 DEF DChain
    <3> QED BY <1>1, <1>2, <1>3, <1>5, <3>1
  <2>2. b.prevLedgerKeyMR = db.DB_NUM[j] /\ b.prevKeyMR = BuildKeyMerkleRoot(DAt(db.DB, db.DB_NUM, j))
    BY <1>2, <1>5, <2>1 DEF DLinked
  <2>3. prev = DAt(db.DB, db.DB_NUM, j) /\ prev # Nil /\ prev.height = j
    BY <1>0, <1>5, <2>1, <2>2, DFetched
  <2> QED BY <1>2, <2>1, <2>2, <2>3
<1>6. ASSUME NEW k \in ListedEBlocks(b) PROVE FetchEBlockByHash(db, FetchEBHashByMR(db, k)) # Nil
  <2>1. k \in DOMAIN db.EB_MR
    BY <1>2 DEF ListedEBlocks, Lists, ListsEBlocks, ListedAt
  <2>2. FetchEBHashByMR(db, k) = db.EB_MR[k] /\ db.EB_MR[k] \in DOMAIN db.EB
    BY <1>0, <2>1 DEF FetchEBHashByMR, Get, ETables
  <2> QED BY <1>0, <2>2, EFetched
<1>7. /\ b.entries[1].keyMR = Get(db.AB_NUM, b.height) /\ b.entries[1].keyMR \in DOMAIN db.AB
  BY <1>0, <1>2, <1>3, AFetched DEF Lists
<1>8. /\ b.entries[2].keyMR = Get(db.CB_NUM, b.height) /\ b.entries[2].keyMR \in DOMAIN db.CB
  BY <1>0, <1>2, <1>3, ECFetched DEF Lists
<1>9. /\ b.entries[3].keyMR = Get(db.SC_NUM, b.height) /\ b.entries[3].keyMR \in DOMAIN db.SC
  BY <1>0, <1>2, <1>3, FFetched DEF Lists
<1> QED BY <1>4, <1>5, <1>6, <1>7, <1>8, <1>9

LEMMA ELinks ==
    ASSUME EntryChains, NEW b \in EBlocks, NEW prev, prev = FetchEBlockByHash(db, b.prevLedgerKeyMR)
    PROVE  IF b.seq = 0 THEN prev = Nil
           ELSE prev # Nil /\ prev.seq = b.seq - 1 /\ EBlockKeyMR(prev) = b.prevKeyMR
<1>0. ETables(db.EB, db.EB_MR)
  BY DEF EntryChains, StoredChains
<1>1. PICK k \in DOMAIN db.EB : b = EAt(db.EB, k)
  BY DEF EBlocks, Rows, EAt
<1>2. ELinked(b, b.height, db.EB)
  BY <1>0, <1>1 DEF ETables
<1>3. CASE b.seq = 0
  <2>1. NewHash \notin DOMAIN db.EB
    <3>1. \A x \in DOMAIN db.EB : x = EBlockHash(EAt(db.EB, x))
      BY <1>0 DEF ETables, ERowIs
    <3> QED BY <3>1 DEF EBlockHash, Sha, NewHash
  <2> QED BY <1>2, <1>3, <2>1 DEF ELinked, FetchEBlockByHash, Get, Parsed
<1>4. CASE b.seq # 0
  BY <1>0, <1>2, <1>4, EFetched DEF ELinked
<1> QED BY <1>3, <1>4

LEMMA ECLinks ==
    ASSUME Ledgers, NEW b \in FetchAllECBlocks(db), NEW prev, prev = FetchECBlockByHash(db, b.prevHeaderHash)
    PROVE  IF b.height = 0 THEN prev = Nil
           ELSE prev # Nil /\ prev.height = b.height - 1 /\ ECBlockHash(prev) = b.prevLedgerKeyMR
<1>0. ECChain(db.CB, db.CB_NUM, EcCount) /\ EcCount \in Nat
  BY DEF Ledgers, Credits, ECChain
<1>1. PICK h \in 0 .. (EcCount - 1) : b = UnmarshalECBlock(db.CB[db.CB_NUM[h]])
  BY <1>0 DEF FetchAllECBlocks, Rows, ECChain
<1>2. b.height = h /\ ECLinked(b, db.CB, db.CB_NUM)
  BY <1>0, <1>1 DEF ECChain, ECRowIs
<1>3. CASE b.height = 0
  <2>1. NewHash \notin DOMAIN db.CB
    <3>1. \A x \in DOMAIN db.CB : x = HeaderHash(UnmarshalECBlock(db.CB[x]))
      BY <1>0 DEF ECChain, ECRowIs
    <3> QED BY <3>1 DEF HeaderHash, Sha, NewHash
  <2> QED BY <1>2, <1>3, <2>1 DEF ECLinked, FetchECBlockByHash, Get, Parsed
<1>4. CASE b.height # 0
  <2>1. PICK j \in 0 .. (EcCount - 1) : j = h - 1
    BY <1>0, <1>1, <1>2, <1>4
  <2>2. b.prevHeaderHash = db.CB_NUM[j] /\ b.prevLedgerKeyMR = Sha("ecblock", db.CB[db.CB_NUM[j]])
    BY <1>2, <1>4, <2>1 DEF ECLinked
  <2>3. prev = UnmarshalECBlock(db.CB[db.CB_NUM[j]]) /\ prev # Nil /\ ECRowIs(db.CB, db.CB_NUM[j], j)
    BY <1>0, <2>1, <2>2, ECFetched
  <2>4. prev.height = j /\ db.CB[db.CB_NUM[j]] = MarshalECBlock(prev)
    BY <2>3 DEF ECRowIs
  <2> QED BY <1>2, <1>4, <2>1, <2>2, <2>3, <2>4 DEF ECBlockHash
<1> QED BY <1>3, <1>4

LEMMA ALinks ==
    ASSUME Ledgers, NEW b \in FetchAllABlocks(db), b.height > 0,
           NEW prev, prev = FetchABlockByHeight(db, b.height - 1)
    PROVE  prev # Nil /\ BuildFullHash(prev).full = b.prevLedgerKeyMR
<1>0. AChain(db.AB, db.AB_NUM, AdmCount) /\ AdmCount \in Nat
  BY DEF Ledgers, Admins, AChain
<1>1. PICK h \in 0 .. (AdmCount - 1) : b = UnmarshalABlock(db.AB[db.AB_NUM[h]])
  BY <1>0 DEF FetchAllABlocks, Rows, AChain
<1>2. b.height = h /\ ALinked(b, db.AB, db.AB_NUM)
  BY <1>0, <1>1 DEF AChain, ARowIs
<1>3. PICK j \in 0 .. (AdmCount - 1) : j = h - 1
  BY <1>0, <1>1, <1>2
<1>4. b.prevLedgerKeyMR = Sha("afull", db.AB[db.AB_NUM[j]])
  BY <1>2, <1>3 DEF ALinked
<1>5. prev = FetchABlockByHash(db, Get(db.AB_NUM, j))
  BY <1>2, <1>3 DEF FetchABlockByHeight
<1>6. prev = UnmarshalABlock(db.AB[db.AB_NUM[j]]) /\ prev # Nil /\ ARowIs(db.AB, db.AB_NUM[j], j)
  <2>1. /\ Get(db.AB_NUM, j) = db.AB_NUM[j]
        /\ FetchABlockByHash(db, db.AB_NUM[j]) = UnmarshalABlock(db.AB[db.AB_NUM[j]])
        /\ UnmarshalABlock(db.AB[db.AB_NUM[j]]) # Nil /\ ARowIs(db.AB, db.AB_NUM[j], j)
    BY <1>0, <1>3, AFetched
  <2> QED BY <1>5, <2>1
<1>7. prev.full = Nil /\ db.AB[db.AB_NUM[j]] = MarshalABlock(prev) /\ IsABlock(prev)
  BY <1>6 DEF ARowIs
<1>8. BuildFullHash(prev).full = Sha("afull", MarshalABlock(prev))
  BY <1>7 DEF BuildFullHash, IsABlock, IsRecord, ABFields
<1> QED BY <1>4, <1>6, <1>7, <1>8

\* Every stored block can be walked through: the predecessor it names is stored
\* with the number before its own, and so is what a directory block lists.
THEOREM LinksLead == Spec => []LinksNameStoredBlocks
<1>1. ASSUME Engine, Ledgers, EntryChains, Listing PROVE LinksNameStoredBlocks
  BY <1>1, DLinks, ELinks, ECLinks, ALinks DEF LinksNameStoredBlocks
<1> QED BY <1>1, AlwaysEngine, AlwaysLedgers, AlwaysChains, AlwaysListing, PTL

----------------------------------------------------------------------------
\* An entry that is stored is in a listed block, or in a block that will be.

EntryIn(e, b) == \E j \in DOMAIN b.entries : b.entries[j] = e

In(e, d) == \E i \in 4 .. Len(d.entries) : EntryIn(e, EAt(db.EB, db.EB_MR[d.entries[i].keyMR]))

InStored(e) == \E h \in 0 .. (DirCount - 1) : In(e, DAt(db.DB, db.DB_NUM, h))
InOpen(e)   == \E c \in DOMAIN eNext : EntryIn(e, eNext[c])

Reached(e) ==
    InStored(e) \/ (pc = "dir" /\ In(e, sealed)) \/ (pc = "entry" /\ In(e, dNext)) \/ InOpen(e)

EntriesReached == \A e \in DOMAIN db.ENTRY : Reached(e)

LEMMA InKept ==
    ASSUME EGrown, NEW e, NEW d, In(e, d), ListsEBlocks(d), NEW u,
           \A i \in 4 .. Len(d.entries) : i \in 4 .. Len(u.entries) /\ u.entries[i].keyMR = d.entries[i].keyMR
    PROVE  \E i \in 4 .. Len(u.entries) : EntryIn(e, EAt(db'.EB, db'.EB_MR[u.entries[i].keyMR]))
BY EBlockKept DEF In, ListsEBlocks, ListedAt

LEMMA InStoredKept ==
    ASSUME Engine, Ledgers, Listing, EGrown, db'.DB = db.DB, db'.DB_NUM = db.DB_NUM, DirCount' = DirCount,
           NEW e, InStored(e)
    PROVE  InStored(e)'
<1>1. PICK h \in 0 .. (DirCount - 1) : In(e, DAt(db.DB, db.DB_NUM, h))
  BY DEF InStored
<1>2. ListsEBlocks(DAt(db.DB, db.DB_NUM, h))
  BY <1>1 DEF Listing, StoredLists, Lists
<1>3. \A d : In(e, d) /\ ListsEBlocks(d) =>
        \E i \in 4 .. Len(d.entries) : EntryIn(e, EAt(db'.EB, db'.EB_MR[d.entries[i].keyMR]))
  BY InKept
<1>4. PICK d : d = DAt(db.DB, db.DB_NUM, h)
  OBVIOUS
<1>5. \E i \in 4 .. Len(d.entries) : EntryIn(e, EAt(db'.EB, db'.EB_MR[d.entries[i].keyMR]))
  BY <1>1, <1>2, <1>3, <1>4
<1>6. h \in 0 .. (DirCount' - 1) /\ d = DAt(db'.DB, db'.DB_NUM, h)
  BY <1>4
<1>7. \E i \in 4 .. Len(DAt(db'.DB, db'.DB_NUM, h).entries) :
        EntryIn(e, EAt(db'.EB, db'.EB_MR[DAt(db'.DB, db'.DB_NUM, h).entries[i].keyMR]))
  BY <1>5, <1>6
<1> QED BY <1>6, <1>7 DEF InStored, In, EntryIn

LEMMA InitReached == ASSUME Init PROVE EntriesReached
<1>1. db = NewDB
  BY DEF Init
<1>2. db.ENTRY = <<>>
  BY <1>1, NewDBIs DEF Tables
<1> QED BY <1>2 DEF EntriesReached

LEMMA ReachedKept ==
    ASSUME Engine, Ledgers, EntryChains, Listing, EntriesReached,
           \A f \in {"EB", "EB_MR", "DB", "DB_NUM", "ENTRY"} : db'[f] = db[f], UNCHANGED eNext,
           \/ pc' = pc /\ UNCHANGED <<dNext, sealed>>
           \/ pc \notin {"dir", "entry"} /\ pc' # "dir" /\ Height' = Height
    PROVE  EntriesReached'
<1>1. /\ db'.EB = db.EB /\ db'.EB_MR = db.EB_MR /\ db'.DB = db.DB /\ db'.DB_NUM = db.DB_NUM
      /\ db'.ENTRY = db.ENTRY
  OBVIOUS
<1>2. DirCount' = DirCount
  BY DEF DirCount, Height
<1>3. EGrown
  BY <1>1, ESame
<1>4. ASSUME NEW e \in DOMAIN db.ENTRY PROVE Reached(e)'
  <2>1. Reached(e)
    BY DEF EntriesReached
  <2>2. InStored(e) => InStored(e)'
    BY <1>1, <1>2, <1>3, InStoredKept
  <2>3. InOpen(e) => InOpen(e)'
    BY DEF InOpen, EntryIn
  <2>4. CASE pc' = pc /\ UNCHANGED <<dNext, sealed>>
    BY <1>1, <2>1, <2>2, <2>3, <2>4 DEF Reached, In, EntryIn
  <2>5. CASE pc \notin {"dir", "entry"}
    BY <2>1, <2>2, <2>3, <2>5 DEF Reached
  <2> QED BY <2>4, <2>5
<1> QED BY <1>1, <1>4 DEF EntriesReached

\* Nothing is open when the process starts.
LEMMA StartReached ==
    ASSUME Engine, Engine', Ledgers, EntryChains, Listing, Listing', EntriesReached, Start
    PROVE  EntriesReached'
<1>1. pc = "init" /\ pc' \in {"ec", "serve"} /\ UNCHANGED db /\ todo = {}
  BY DEF Start, Engine, Control
<1>2. Height' = Height
  <2>1. dNext' = initDChain(Height)
    BY <1>1, DirectoryHeight DEF Ledgers, Start
  <2>2. \E p, q : IsSetOut(dNext', Height, p, q, Timestamp(Height), Placeholders)
    BY <2>1 DEF initDChain, IsSetOut
  <2>3. \A u, n, p, q, t, e : IsSetOut(u, n, p, q, t, e) => u.height = n
    BY SetOutDBlock
  <2>4. dNext'.height = Height
    BY <2>2, <2>3
  <2> QED BY <2>4 DEF Height
<1>3. DirCount' = DirCount
  BY <1>1, <1>2 DEF DirCount
<1>4. ASSUME NEW e \in DOMAIN db.ENTRY PROVE Reached(e)'
  <2>1. ~InOpen(e)
    BY <1>1 DEF InOpen, EntryIn, EntryChains, OpenChains, OpenIsNew
  <2>2. InStored(e)
    BY <1>1, <2>1 DEF EntriesReached, Reached
  <2>3. InStored(e)'
    BY <1>1, <1>3, <2>2 DEF InStored, In, EntryIn
  <2> QED BY <2>3 DEF Reached
<1> QED BY <1>1, <1>4 DEF EntriesReached

\* An open block with more entries.
LEMMA EntryInMore ==
    ASSUME NEW b, IsEBlock(b), NEW x \in EBHashes, NEW u, u = AddEBEntry(b, x)
    PROVE  EntryIn(x, u) /\ \A e : EntryIn(e, b) => EntryIn(e, u)
<1>1. u.entries = Append(b.entries, x) /\ b.entries \in Seq(EBHashes)
  BY EBEntryAdded DEF IsEBlock
<1>2. PICK s : s = b.entries
  OBVIOUS
<1>3. u.entries = Append(s, x) /\ s \in Seq(EBHashes)
  BY <1>1, <1>2
<1>4. /\ DOMAIN u.entries = 1 .. (Len(s) + 1) /\ u.entries[Len(s) + 1] = x /\ Len(s) \in Nat
      /\ DOMAIN s = 1 .. Len(s) /\ \A i \in 1 .. Len(s) : u.entries[i] = s[i]
  BY <1>3
<1> QED BY <1>2, <1>4 DEF EntryIn

LEMMA RevealReached ==
    ASSUME Engine, Ledgers, EntryChains, Listing, EntriesReached, pc = "build", DirCount' = DirCount,
           NEW c \in Chains, NEW x \in Contents, buildReveal(Entry(c, x))
    PROVE  EntriesReached'
<1> DEFINE h == EntryHash(Entry(c, x))
           b == OpenBlock(c)
           u == AddEBEntry(b, h)
<1>0. Tabled /\ OpenEBlocks
  BY DEF Engine
<1>1. /\ SameBut(db', db, {"ENTRY", "CHAIN_HASH"}) /\ eNext' = Put(eNext, c, u)
      /\ db'.ENTRY = Put(db.ENTRY, h, MarshalEntry(Entry(c, x)))
  BY <1>0, Revealed
<1>2. db'.EB = db.EB /\ db'.EB_MR = db.EB_MR /\ db'.DB = db.DB /\ db'.DB_NUM = db.DB_NUM
  BY <1>1 DEF SameBut, Tables
<1>3. EGrown
  BY <1>2, ESame
<1>4. IsEBlock(b) /\ h \in EBHashes /\ (c \in DOMAIN eNext => b = eNext[c])
  BY <1>0, OpenBlockIs, EntryHashIn DEF OpenBlock
<1>5. DOMAIN db'.ENTRY = DOMAIN db.ENTRY \cup {h}
  BY <1>1 DEF Put
<1> HIDE DEF h, b
<1>6. EntryIn(h, u) /\ \A e : EntryIn(e, b) => EntryIn(e, u)
  BY <1>4, EntryInMore
<1> HIDE DEF u
<1>7. /\ c \in DOMAIN eNext' /\ eNext'[c] = u
      /\ \A o \in DOMAIN eNext : o \in DOMAIN eNext' /\ (o # c => eNext'[o] = eNext[o])
  BY <1>1 DEF Put
<1>8. \E o \in DOMAIN eNext' : EntryIn(h, eNext'[o])
  BY <1>6, <1>7
<1>9. ASSUME NEW e \in DOMAIN db.ENTRY PROVE Reached(e)'
  <2>1. Reached(e)
    BY DEF EntriesReached
  <2>2. CASE InStored(e)
    BY <1>2, <1>3, <2>2, InStoredKept DEF Reached
  <2>3. CASE InOpen(e)
    <3>1. PICK o \in DOMAIN eNext : EntryIn(e, eNext[o])
      BY <2>3 DEF InOpen
    <3>2. EntryIn(e, eNext'[o]) /\ o \in DOMAIN eNext'
      BY <1>4, <1>6, <1>7, <3>1
    <3> QED BY <3>2 DEF Reached, InOpen, EntryIn
  <2> QED BY <2>1, <2>2, <2>3 DEF Reached
<1> QED BY <1>5, <1>8, <1>9 DEF EntriesReached, Reached, InOpen, EntryIn

LEMMA MinuteReached ==
    ASSUME Engine, Ledgers, EntryChains, Listing, EntriesReached, pc = "build", DirCount' = DirCount,
           NEW m \in 1 .. LastMinute, buildEndOfMinute(m)
    PROVE  EntriesReached'
<1> DEFINE x == MinuteMarker(m)
<1>0. OpenEBlocks
  BY DEF Engine
<1>1. /\ eNext' = [c \in DOMAIN eNext |-> IF Touched(eNext[c]) THEN AddEBEntry(eNext[c], x)
                                           ELSE eNext[c]]
      /\ db' = db
  BY DEF buildEndOfMinute
<1>2. x \in EBHashes
  BY DEF EBHashes, Markings
<1> HIDE DEF x
<1>3. EGrown
  BY <1>1, ESame
<1>4. ASSUME NEW e \in DOMAIN db.ENTRY PROVE Reached(e)'
  <2>1. Reached(e)
    BY DEF EntriesReached
  <2>2. CASE InStored(e)
    BY <1>1, <1>3, <2>2, InStoredKept DEF Reached
  <2>3. CASE InOpen(e)
    <3>1. PICK o \in DOMAIN eNext : EntryIn(e, eNext[o])
      BY <2>3 DEF InOpen
    <3>2. IsEBlock(eNext[o])
      BY <1>0 DEF OpenEBlocks
    <3>3. \A u : u = AddEBEntry(eNext[o], x) => EntryIn(e, u)
      BY <1>2, <3>1, <3>2, EntryInMore
    <3>4. EntryIn(e, eNext'[o]) /\ o \in DOMAIN eNext'
      BY <1>1, <3>1, <3>3
    <3> QED BY <3>4 DEF Reached, InOpen, EntryIn
  <2> QED BY <2>1, <2>2, <2>3 DEF Reached
<1> QED BY <1>1, <1>4 DEF EntriesReached

LEMMA ListReached ==
    ASSUME Engine, Ledgers, EntryChains, Listing, EntriesReached, buildFromProcessList
    PROVE  EntriesReached'
<1> DEFINE m == Head(plist)
<1>0. Control
  BY DEF Engine
<1>1. pc = "build" /\ plist # <<>> /\ pc' \in {"build", "ec"} /\ UNCHANGED dNext
  BY DEF buildFromProcessList
<1>2. \/ m.type = "reveal" /\ buildReveal(UnmarshalEntry(m.body))
      \/ m.type = "eom" /\ buildEndOfMinute(m.body)
      \/ UNCHANGED <<db, eNext>>
  BY DEF buildFromProcessList, buildCommit, buildIncreaseBalance
<1>3. /\ m.type = "reveal" => \E c \in Chains, x \in Contents : UnmarshalEntry(m.body) = Entry(c, x)
      /\ m.type = "eom" => m.body \in 1 .. LastMinute
  BY <1>0, <1>1, NextMessage
<1>4. DirCount' = DirCount /\ Height' = Height
  BY <1>1 DEF DirCount, Height
<1> HIDE DEF m
<1>5. CASE m.type = "reveal" /\ buildReveal(UnmarshalEntry(m.body))
  <2>1. PICK c \in Chains, x \in Contents : UnmarshalEntry(m.body) = Entry(c, x)
    BY <1>3, <1>5
  <2>2. buildReveal(Entry(c, x))
    BY <1>5, <2>1
  <2> QED BY <1>1, <1>4, <2>2, RevealReached
<1>6. CASE m.type = "eom" /\ buildEndOfMinute(m.body)
  BY <1>1, <1>3, <1>4, <1>6, MinuteReached
<1>7. CASE UNCHANGED <<db, eNext>>
  BY <1>1, <1>4, <1>7, ReachedKept
<1> QED BY <1>2, <1>5, <1>6, <1>7

LEMMA SealReached ==
    ASSUME Engine, Ledgers, EntryChains, Listing, EntriesReached,
           newEntryCreditBlock \/ newAdminBlock \/ newFactoidBlock
    PROVE  EntriesReached'
<1> DEFINE E == {"EB", "EB_MR", "DB", "DB_NUM", "ENTRY"}
<1>1. CASE newEntryCreditBlock
  <2>1. Height' = Height /\ SameBut(db', db, {"CB", "CB_NUM", "CHAIN_HEAD"})
    BY <1>1, CreditsStored
  <2>2. pc = "ec" /\ pc' = "admin" /\ UNCHANGED eNext
    BY <1>1 DEF newEntryCreditBlock
  <2>3. \A f \in E : db'[f] = db[f]
    BY <2>1 DEF SameBut, Tables
  <2> QED BY <2>1, <2>2, <2>3, ReachedKept
<1>2. CASE newAdminBlock
  <2>1. Height' = Height /\ SameBut(db', db, {"AB", "AB_NUM", "CHAIN_HEAD"})
    BY <1>2, AdminsStored
  <2>2. pc = "admin" /\ pc' = "fct" /\ UNCHANGED eNext
    BY <1>2 DEF newAdminBlock
  <2>3. \A f \in E : db'[f] = db[f]
    BY <2>1 DEF SameBut, Tables
  <2> QED BY <2>1, <2>2, <2>3, ReachedKept
<1>3. CASE newFactoidBlock
  <2>1. Height' = Height /\ SameBut(db', db, {"SC", "SC_NUM", "CHAIN_HEAD"})
    BY <1>3, FactoidsStored
  <2>2. pc = "fct" /\ pc' = "entry" /\ UNCHANGED eNext
    BY <1>3 DEF newFactoidBlock
  <2>3. \A f \in E : db'[f] = db[f]
    BY <2>1 DEF SameBut, Tables
  <2> QED BY <2>1, <2>2, <2>3, ReachedKept
<1> QED BY <1>1, <1>2, <1>3

LEMMA EntryBlockReached ==
    ASSUME Engine, Ledgers, EntryChains, Listing, EntriesReached, newEntryBlock
    PROVE  EntriesReached'
<1>0. Control /\ Height \in Nat /\ OpenLists /\ IsDBlock(dNext) /\ pc = "entry"
  BY DEF Engine, Control, Listing, Ledgers, Directories, newEntryBlock
<1>1. Height' = Height /\ pc' = pc
  BY <1>0, ListedInDBlock, EBlockSealed
<1>2. PICK c \in todo : EBPassed(c) \/ EBStored(c)
  BY EBlockSealed
<1>3. sealed' = sealed /\ c \in DOMAIN eNext
  BY <1>0 DEF newEntryBlock, KeepInSealing, Control
<1>4. CASE EBPassed(c)
  BY <1>1, <1>3, <1>4, ReachedKept DEF EBPassed
<1>5. CASE EBStored(c)
  <2>1. PICK b, k, r : b = EBSealed(c) /\ k = EBlockHash(b) /\ r = EBlockKeyMR(b)
    OBVIOUS
  <2>2. /\ Storing(c, b, k, r) /\ IsEBlock(b) /\ b.entries = eNext[c].entries
        /\ eNext' = [eNext EXCEPT ![c] = eNext'[c]]
        /\ SameBut(db', db, {"EB", "EB_MR", "EB_CHAIN_NUM", "CHAIN_HEAD"})
        /\ dNext' = WithMore(dNext, DBEntry(Chain(c), r))
    BY <1>0, <1>5, <2>1, StoringBlock
  <2>3. db'.DB = db.DB /\ db'.DB_NUM = db.DB_NUM /\ db'.ENTRY = db.ENTRY
    BY <2>2 DEF SameBut, Tables
  <2>4. EGrown
    BY <2>2 DEF EGrown, Storing, EntryChains, StoredChains
  <2>5. DirCount' = DirCount
    BY <1>1 DEF DirCount
  <2>6. /\ Len(dNext'.entries) = Len(dNext.entries) + 1
        /\ dNext'.entries[Len(dNext.entries) + 1].keyMR = r
        /\ \A j \in 1 .. Len(dNext.entries) : dNext'.entries[j] = dNext.entries[j]
    <3>1. \A u : u = dNext' =>
            /\ Len(u.entries) = Len(dNext.entries) + 1
            /\ u.entries[Len(dNext.entries) + 1].keyMR = r
            /\ \A j \in 1 .. Len(dNext.entries) : u.entries[j] = dNext.entries[j]
      BY <1>0, <2>2, DBlockEntryAppended
    <3> QED BY <3>1
  <2>7. Len(dNext.entries) \in Nat /\ Len(dNext.entries) >= 3
    BY <1>0 DEF IsDBlock
  <2>8. EAt(db'.EB, db'.EB_MR[r]).entries = b.entries
    <3>1. EAt(db'.EB, db'.EB_MR[r]) = BuildEBlockHeader(b)
      BY <2>2 DEF Storing
    <3> QED BY <2>2, <3>1, BuiltFields
  <2>9. ASSUME NEW e \in DOMAIN db.ENTRY PROVE Reached(e)'
    <3>1. Reached(e)
      BY DEF EntriesReached
    <3>2. CASE InStored(e)
      BY <2>3, <2>4, <2>5, <3>2, InStoredKept DEF Reached
    <3>3. CASE In(e, dNext)
      <4>1. \A u : u = dNext' => \E i \in 4 .. Len(u.entries) : EntryIn(e, EAt(db'.EB, db'.EB_MR[u.entries[i].keyMR]))
        <5>1. \A i \in 4 .. Len(dNext.entries) :
                i \in 4 .. Len(dNext'.entries) /\ dNext'.entries[i].keyMR = dNext.entries[i].keyMR
          BY <2>6, <2>7
        <5>2. ListsEBlocks(dNext)
          BY <1>0 DEF OpenLists
        <5> QED BY <2>4, <3>3, <5>1, <5>2, InKept
      <4> QED BY <1>0, <1>1, <4>1 DEF Reached, In, EntryIn
    <3>4. CASE InOpen(e)
      <4>1. PICK o \in DOMAIN eNext : EntryIn(e, eNext[o])
        BY <3>4 DEF InOpen
      <4>2. CASE o = c
        <5>1. EntryIn(e, EAt(db'.EB, db'.EB_MR[r]))
          BY <2>2, <2>8, <4>1, <4>2 DEF EntryIn
        <5>2. Len(dNext.entries) + 1 \in 4 .. Len(dNext'.entries)
          BY <2>6, <2>7
        <5>3. \E i \in 4 .. Len(dNext'.entries) : EntryIn(e, EAt(db'.EB, db'.EB_MR[dNext'.entries[i].keyMR]))
          BY <2>6, <5>1, <5>2
        <5> QED BY <1>0, <1>1, <5>3 DEF Reached, In, EntryIn
      <4>3. CASE o # c
        <5>1. o \in DOMAIN eNext' /\ eNext'[o] = eNext[o]
          BY <2>2, <4>1, <4>3
        <5> QED BY <4>1, <5>1 DEF Reached, InOpen, EntryIn
      <4> QED BY <4>2, <4>3
    <3> QED BY <1>0, <3>1, <3>2, <3>3, <3>4 DEF Reached
  <2> QED BY <2>3, <2>9 DEF EntriesReached
<1> QED BY <1>2, <1>4, <1>5

LEMMA DirectoryReached ==
    ASSUME Engine, Ledgers, EntryChains, Listing, EntriesReached, newDirectoryBlock
    PROVE  EntriesReached'
<1>0. Control /\ Height \in Nat /\ pc = "entry" /\ pc' = "dir" /\ UNCHANGED eNext
  BY DEF Engine, Control, newDirectoryBlock
<1>1. Height' = Height + 1 /\ db' = db /\ sealed'.entries = dNext.entries
  BY DirectorySealed
<1>2. DirCount' = DirCount
  BY <1>0, <1>1 DEF DirCount
<1>3. EGrown
  BY <1>1, ESame
<1>4. ASSUME NEW e \in DOMAIN db.ENTRY PROVE Reached(e)'
  <2>1. Reached(e)
    BY DEF EntriesReached
  <2>2. InStored(e) => InStored(e)'
    BY <1>1, <1>2, <1>3, InStoredKept
  <2>3. InOpen(e) => InOpen(e)'
    BY <1>0 DEF InOpen, EntryIn
  <2>4. In(e, dNext) => In(e, sealed)'
    BY <1>1 DEF In, EntryIn
  <2> QED BY <1>0, <2>1, <2>2, <2>3, <2>4 DEF Reached
<1> QED BY <1>1, <1>4 DEF EntriesReached

LEMMA WrittenReached ==
    ASSUME Engine, Ledgers, EntryChains, Listing, EntriesReached, WriteDirectoryBlock
    PROVE  EntriesReached'
<1>0. Control /\ Height \in Nat /\ pc = "dir" /\ pc' = "serve" /\ UNCHANGED eNext
  BY DEF Engine, Control, WriteDirectoryBlock
<1>1. /\ Height' = Height /\ SameBut(db', db, {"DB", "DB_NUM", "DB_MR", "CHAIN_HEAD"})
      /\ DAt(db'.DB, db'.DB_NUM, Height - 1) = sealed
      /\ \A h \in 0 .. (Height - 2) : DAt(db'.DB, db'.DB_NUM, h) = DAt(db.DB, db.DB_NUM, h)
  BY DirectoryWritten
<1>2. db'.EB = db.EB /\ db'.EB_MR = db.EB_MR /\ db'.ENTRY = db.ENTRY
  BY <1>1 DEF SameBut, Tables
<1>3. DirCount = Height - 1 /\ DirCount' = Height
  BY <1>0, <1>1 DEF DirCount
<1>4. DirCount \in Nat
  BY DEF Ledgers, Directories, DChain
<1>5. ASSUME NEW e, NEW h \in 0 .. (Height - 1), NEW d, d = DAt(db'.DB, db'.DB_NUM, h), In(e, d)
      PROVE  InStored(e)'
  <2>1. \E i \in 4 .. Len(DAt(db'.DB, db'.DB_NUM, h).entries) :
            EntryIn(e, EAt(db'.EB, db'.EB_MR[DAt(db'.DB, db'.DB_NUM, h).entries[i].keyMR]))
    BY <1>2, <1>5 DEF In
  <2>2. h \in 0 .. (DirCount' - 1)
    BY <1>3
  <2> QED BY <2>1, <2>2 DEF InStored, In, EntryIn
<1>6. ASSUME NEW e \in DOMAIN db.ENTRY PROVE Reached(e)'
  <2>1. Reached(e)
    BY DEF EntriesReached
  <2>2. CASE InStored(e)
    <3>1. PICK h \in 0 .. (DirCount - 1) : In(e, DAt(db.DB, db.DB_NUM, h))
      BY <2>2 DEF InStored
    <3>2. h \in 0 .. (Height - 2) /\ h \in 0 .. (Height - 1)
      BY <1>0, <1>3, <1>4
    <3>3. PICK d : d = DAt(db'.DB, db'.DB_NUM, h)
      OBVIOUS
    <3>4. In(e, d)
      BY <1>1, <3>1, <3>2, <3>3
    <3>5. InStored(e)'
      BY <1>5, <3>2, <3>3, <3>4
    <3> QED BY <3>5 DEF Reached
  <2>3. CASE In(e, sealed)
    <3>1. Height - 1 \in 0 .. (Height - 1)
      BY <1>0, <1>3, <1>4
    <3>2. In(e, sealed) /\ sealed = DAt(db'.DB, db'.DB_NUM, Height - 1)
      BY <1>1, <2>3
    <3>3. InStored(e)'
      BY <1>5, <3>1, <3>2
    <3> QED BY <3>3 DEF Reached
  <2>4. CASE InOpen(e)
    BY <1>0, <2>4 DEF Reached, InOpen, EntryIn
  <2> QED BY <1>0, <2>1, <2>2, <2>3, <2>4 DEF Reached
<1> QED BY <1>2, <1>6 DEF EntriesReached

LEMMA NextReached ==
    ASSUME Engine, Engine', Ledgers, EntryChains, Listing, Listing', EntriesReached, [Next]_vars
    PROVE  EntriesReached'
<1>1. ASSUME UNCHANGED <<db, eNext, dNext, sealed>>,
             pc' = pc \/ (pc \notin {"dir", "entry"} /\ pc' # "dir")
      PROVE  EntriesReached'
  BY <1>1, ReachedKept DEF Height
<1>2. CASE Start
  BY <1>2, StartReached
<1>3. CASE Restart
  BY <1>1, <1>3 DEF Restart, open
<1>4. CASE EndOfMinute
  BY <1>1, <1>4 DEF EndOfMinute, store, open
<1>5. CASE Build
  BY <1>5, ListReached, SealReached, EntryBlockReached, DirectoryReached, WrittenReached DEF Build
<1>6. CASE \E msgs : Post(msgs)
  BY <1>1, <1>6 DEF Post, store, open
<1>7. CASE Requests \/ Reads
  <2>1. UNCHANGED <<store, engine>>
    BY <1>7, ReadsKeep
  <2> QED BY <1>1, <2>1 DEF store, engine, open
<1>8. CASE UNCHANGED vars
  BY <1>1, <1>8 DEF vars, store, engine, open
<1> QED BY <1>2, <1>3, <1>4, <1>5, <1>6, <1>7, <1>8 DEF Next

LEMMA AlwaysReached == Spec => []EntriesReached
<1>1. Init => EntriesReached
  BY InitReached
<1>2. /\ EntriesReached /\ Listing /\ Listing' /\ EntryChains /\ Engine /\ Engine' /\ Ledgers /\ [Next]_vars
      => EntriesReached'
  BY NextReached
<1> QED BY <1>1, <1>2, AlwaysEngine, AlwaysLedgers, AlwaysChains, AlwaysListing, PTL DEF Spec

\* Between two blocks, every stored entry can be reached from a directory block.
THEOREM StoredEntriesReached == Spec => []StoredEntriesAreListed
<1>1. ASSUME Engine, Ledgers, EntryChains, Listing, EntriesReached PROVE StoredEntriesAreListed
  <2> SUFFICES ASSUME pc \in {"init", "serve"}, NEW k \in DOMAIN db.ENTRY
               PROVE  Listed(UnmarshalEntry(db.ENTRY[k]))
    BY DEF StoredEntriesAreListed, Rows
  <2>0. Control /\ OpenChains /\ StoredLists /\ ETables(db.EB, db.EB_MR)
        /\ DChain(db.DB, db.DB_NUM, db.DB_MR, DirCount)
    BY <1>1 DEF Engine, EntryChains, Listing, StoredChains, Ledgers, Directories
  <2>1. PICK e : e = UnmarshalEntry(db.ENTRY[k]) /\ EntryHash(e) = k
    <3>1. PICK c \in Chains, x \in Contents :
            k = EntryHash(Entry(c, x)) /\ db.ENTRY[k] = MarshalEntry(Entry(c, x))
      BY <1>1 DEF Engine, Tabled, EntryRow
    <3> QED BY <3>1, PostedEntryReadsBack
  <2>2. ~InOpen(k)
    BY <2>0 DEF InOpen, EntryIn, OpenChains, OpenIsNew, Control
  <2>3. InStored(k)
    BY <1>1, <2>2 DEF EntriesReached, Reached
  <2>4. PICK h \in 0 .. (DirCount - 1) : In(k, DAt(db.DB, db.DB_NUM, h))
    BY <2>3 DEF InStored
  <2>5. PICK d : d = DAt(db.DB, db.DB_NUM, h)
    OBVIOUS
  <2>6. d \in DBlocks
    BY <2>0, <2>5 DEF DChain, DBlocks, FetchAllDBlocks, Rows, DAt
  <2>7. ListsEBlocks(d)
    BY <2>0, <2>5 DEF StoredLists, Lists
  <2>8. PICK i \in 4 .. Len(d.entries) : EntryIn(k, EAt(db.EB, db.EB_MR[d.entries[i].keyMR]))
    BY <2>4, <2>5 DEF In
  <2>9. PICK r \in ListedEBlocks(d) : r = d.entries[i].keyMR
    BY <2>8 DEF ListedEBlocks
  <2>10. r \in DOMAIN db.EB_MR
    BY <2>7, <2>9 DEF ListsEBlocks, ListedAt
  <2>11. FetchEBHashByMR(db, r) = db.EB_MR[r] /\ db.EB_MR[r] \in DOMAIN db.EB
    BY <2>0, <2>10 DEF FetchEBHashByMR, Get, ETables
  <2>12. PICK b : b = FetchEBlockByHash(db, FetchEBHashByMR(db, r))
    OBVIOUS
  <2>13. b # Nil /\ b = EAt(db.EB, db.EB_MR[r])
    BY <2>0, <2>11, <2>12, EFetched
  <2>14. \E j \in DOMAIN b.entries : b.entries[j] = EntryHash(e)
    BY <2>1, <2>8, <2>9, <2>13 DEF EntryIn
  <2> QED BY <2>1, <2>6, <2>9, <2>12, <2>13, <2>14 DEF Listed
<1> QED BY <1>1, AlwaysEngine, AlwaysLedgers, AlwaysChains, AlwaysListing, AlwaysReached, PTL

----------------------------------------------------------------------------
\* What a client has been told of stays stored: rows are added and none is changed.

ReadTables == {"DB", "DB_NUM", "DB_MR", "EB", "EB_MR"}

StoreGrows ==
    /\ \A f \in ReadTables : Grown(db[f], db'[f])
    /\ DOMAIN db.ENTRY \subseteq DOMAIN db'.ENTRY /\ Height <= Height'

LEMMA StoreSame ==
    ASSUME \A f \in ReadTables : db'[f] = db[f], DOMAIN db.ENTRY \subseteq DOMAIN db'.ENTRY,
           Height \in Nat, Height' = Height
    PROVE  StoreGrows
BY DEF StoreGrows, Grown

LEMMA DirectoryGrows == ASSUME Engine, Ledgers, EntryChains, WriteDirectoryBlock PROVE StoreGrows
<1>0. /\ Height \in Nat /\ DirCount = Height - 1 /\ pc' = "serve"
      /\ DChain(db.DB, db.DB_NUM, db.DB_MR, Height - 1)
  BY DEF Engine, Control, Ledgers, Directories, DirCount, WriteDirectoryBlock
<1>1. /\ Ledgers' /\ Height' = Height /\ SameBut(db', db, {"DB", "DB_NUM", "DB_MR", "CHAIN_HEAD"})
      /\ \A h \in 0 .. (Height - 2) : DAt(db'.DB, db'.DB_NUM, h) = DAt(db.DB, db.DB_NUM, h)
                                      /\ db'.DB_NUM[h] = db.DB_NUM[h]
  BY DirectoryWritten
<1>2. DChain(db'.DB, db'.DB_NUM, db'.DB_MR, Height)
  BY <1>0, <1>1 DEF Ledgers, Directories, DirCount
<1>3. (Height - 1) - 1 = Height - 2 /\ \A h \in 0 .. (Height - 2) : h \in 0 .. (Height - 1)
  BY <1>0
<1>4. ASSUME NEW h \in 0 .. (Height - 2)
      PROVE  /\ db'.DB_NUM[h] = db.DB_NUM[h] /\ h \in DOMAIN db'.DB_NUM
             /\ db.DB_NUM[h] \in DOMAIN db'.DB /\ db'.DB[db.DB_NUM[h]] = db.DB[db.DB_NUM[h]]
             /\ BuildKeyMerkleRoot(DAt(db.DB, db.DB_NUM, h)) \in DOMAIN db'.DB_MR
             /\ db'.DB_MR[BuildKeyMerkleRoot(DAt(db.DB, db.DB_NUM, h))] = db.DB_NUM[h]
             /\ db.DB_MR[BuildKeyMerkleRoot(DAt(db.DB, db.DB_NUM, h))] = db.DB_NUM[h]
  <2>1. PICK b, k : b = DAt(db.DB, db.DB_NUM, h) /\ k = db.DB_NUM[h]
    OBVIOUS
  <2>2. b = DAt(db'.DB, db'.DB_NUM, h) /\ k = db'.DB_NUM[h] /\ h \in 0 .. (Height - 1)
    BY <1>1, <1>3, <2>1
  <2>3. db.DB[k] = MarshalDBlock(b) /\ db.DB_MR[BuildKeyMerkleRoot(b)] = k
    BY <1>0, <1>3, <2>1 DEF DChain, DRowIs, DAt
  <2>4. /\ db'.DB[k] = MarshalDBlock(b) /\ db'.DB_MR[BuildKeyMerkleRoot(b)] = k
        /\ BuildKeyMerkleRoot(b) \in DOMAIN db'.DB_MR
    BY <1>2, <2>2 DEF DChain, DRowIs, DAt
  <2>5. h \in DOMAIN db'.DB_NUM /\ k \in DOMAIN db'.DB
    BY <1>2, <2>2 DEF DChain
  <2> QED BY <2>1, <2>2, <2>3, <2>4, <2>5
<1>5. /\ DOMAIN db.DB_NUM = 0 .. (Height - 2) /\ DOMAIN db.DB = {db.DB_NUM[h] : h \in 0 .. (Height - 2)}
      /\ DOMAIN db.DB_MR = {BuildKeyMerkleRoot(DAt(db.DB, db.DB_NUM, h)) : h \in 0 .. (Height - 2)}
  BY <1>0, <1>3 DEF DChain
<1>6. Grown(db.DB_NUM, db'.DB_NUM)
  BY <1>4, <1>5 DEF Grown
<1>7. Grown(db.DB, db'.DB)
  BY <1>4, <1>5 DEF Grown
<1>8. Grown(db.DB_MR, db'.DB_MR)
  BY <1>4, <1>5 DEF Grown
<1>9. Grown(db.EB, db'.EB) /\ Grown(db.EB_MR, db'.EB_MR) /\ db'.ENTRY = db.ENTRY
  BY <1>1 DEF SameBut, Tables, Grown
<1> QED BY <1>0, <1>1, <1>6, <1>7, <1>8, <1>9 DEF StoreGrows, ReadTables

LEMMA ListGrows == ASSUME Engine, buildFromProcessList PROVE StoreGrows
<1> DEFINE m == Head(plist)
<1>0. Control /\ Tabled
  BY DEF Engine
<1>1. pc = "build" /\ plist # <<>> /\ UNCHANGED dNext
  BY DEF buildFromProcessList
<1>2. (m.type = "reveal" /\ buildReveal(UnmarshalEntry(m.body))) \/ db' = db
  BY DEF buildFromProcessList, buildCommit, buildIncreaseBalance, buildEndOfMinute
<1>3. (\A f \in ReadTables : db'[f] = db[f]) /\ DOMAIN db.ENTRY \subseteq DOMAIN db'.ENTRY
  <2>1. CASE m.type = "reveal" /\ buildReveal(UnmarshalEntry(m.body))
    <3>1. PICK c \in Chains, x \in Contents : UnmarshalEntry(m.body) = Entry(c, x)
      BY <1>0, <1>1, <2>1, NextMessage
    <3>2. buildReveal(Entry(c, x))
      BY <2>1, <3>1
    <3>3. SameBut(db', db, {"ENTRY", "CHAIN_HASH"})
          /\ db'.ENTRY = Put(db.ENTRY, EntryHash(Entry(c, x)), MarshalEntry(Entry(c, x)))
      BY <1>0, <3>2, Revealed
    <3>4. DOMAIN db.ENTRY \subseteq DOMAIN db'.ENTRY
      BY <3>3 DEF Put
    <3> QED BY <3>3, <3>4 DEF SameBut, Tables, ReadTables
  <2> QED BY <1>2, <2>1
<1> QED BY <1>0, <1>1, <1>3, StoreSame DEF Height, Control

LEMMA SealGrows ==
    ASSUME Engine, Ledgers, newEntryCreditBlock \/ newAdminBlock \/ newFactoidBlock PROVE StoreGrows
<1>0. Height \in Nat
  BY DEF Engine, Control
<1>1. \E N : N \subseteq {"CB", "CB_NUM", "AB", "AB_NUM", "SC", "SC_NUM", "CHAIN_HEAD"}
             /\ Height' = Height /\ SameBut(db', db, N)
  <2>1. CASE newEntryCreditBlock
    <3>1. Height' = Height /\ SameBut(db', db, {"CB", "CB_NUM", "CHAIN_HEAD"})
      BY <2>1, CreditsStored
    <3> QED BY <3>1
  <2>2. CASE newAdminBlock
    <3>1. Height' = Height /\ SameBut(db', db, {"AB", "AB_NUM", "CHAIN_HEAD"})
      BY <2>2, AdminsStored
    <3> QED BY <3>1
  <2>3. CASE newFactoidBlock
    <3>1. Height' = Height /\ SameBut(db', db, {"SC", "SC_NUM", "CHAIN_HEAD"})
      BY <2>3, FactoidsStored
    <3> QED BY <3>1
  <2> QED BY <2>1, <2>2, <2>3
<1>2. (\A f \in ReadTables : db'[f] = db[f]) /\ db'.ENTRY = db.ENTRY
  BY <1>1 DEF SameBut, Tables, ReadTables
<1> QED BY <1>0, <1>1, <1>2, StoreSame

LEMMA EntryBlockGrows == ASSUME Engine, Ledgers, EntryChains, newEntryBlock PROVE StoreGrows
<1>0. Height \in Nat /\ pc = "entry" /\ IsDBlock(dNext)
  BY DEF Engine, Control, Ledgers, Directories, newEntryBlock
<1>1. Height' = Height
  BY <1>0, ListedInDBlock
<1>2. PICK c \in todo : EBPassed(c) \/ EBStored(c)
  BY EBlockSealed
<1>3. CASE EBPassed(c)
  BY <1>0, <1>1, <1>3, StoreSame DEF EBPassed
<1>4. CASE EBStored(c)
  <2>1. PICK b, k, r : b = EBSealed(c) /\ k = EBlockHash(b) /\ r = EBlockKeyMR(b)
    OBVIOUS
  <2>2. Storing(c, b, k, r) /\ SameBut(db', db, {"EB", "EB_MR", "EB_CHAIN_NUM", "CHAIN_HEAD"})
    BY <1>0, <1>4, <2>1, StoringBlock
  <2>3. Grown(db.EB, db'.EB) /\ Grown(db.EB_MR, db'.EB_MR)
    BY <2>2 DEF Storing
  <2>4. /\ db'.DB = db.DB /\ db'.DB_NUM = db.DB_NUM /\ db'.DB_MR = db.DB_MR /\ db'.ENTRY = db.ENTRY
    BY <2>2 DEF SameBut, Tables
  <2> QED BY <1>0, <1>1, <2>3, <2>4 DEF StoreGrows, ReadTables, Grown
<1> QED BY <1>2, <1>3, <1>4

LEMMA NextGrows == ASSUME Engine, Ledgers, EntryChains, [Next]_vars PROVE StoreGrows
<1>0. Height \in Nat
  BY DEF Engine, Control
<1>1. ASSUME UNCHANGED <<db, dNext>> PROVE StoreGrows
  BY <1>0, <1>1, StoreSame DEF Height
<1>2. CASE Start
  <2>1. pc = "init" /\ UNCHANGED db /\ dNext' = initDChain(Cardinality(FetchAllDBlocks(db)))
    BY <1>2 DEF Start
  <2>2. dNext' = initDChain(Height)
    BY <2>1, DirectoryHeight DEF Ledgers
  <2>3. \E p, q : IsSetOut(dNext', Height, p, q, Timestamp(Height), Placeholders)
    BY <2>2 DEF initDChain, IsSetOut
  <2>4. dNext'.height = Height
    <3>1. \A u, n, p, q, t, e : IsSetOut(u, n, p, q, t, e) => u.height = n
      BY SetOutDBlock
    <3> QED BY <2>3, <3>1
  <2>5. Height' = Height
    BY <2>4 DEF Height
  <2> QED BY <1>0, <2>1, <2>5, StoreSame
<1>3. CASE Restart \/ EndOfMinute
  BY <1>1, <1>3 DEF Restart, EndOfMinute, store, open
<1>4. CASE Build
  <2>1. CASE newDirectoryBlock
    <3>1. Height' = Height + 1 /\ db' = db
      BY <2>1, DirectorySealed
    <3> QED BY <1>0, <3>1 DEF StoreGrows, Grown
  <2> QED BY <1>4, <2>1, ListGrows, SealGrows, EntryBlockGrows, DirectoryGrows DEF Build
<1>5. CASE \E msgs : Post(msgs)
  BY <1>1, <1>5 DEF Post, store, open
<1>6. CASE Requests \/ Reads
  <2>1. UNCHANGED <<store, engine>>
    BY <1>6, ReadsKeep
  <2> QED BY <1>1, <2>1 DEF store, engine, open
<1>7. CASE UNCHANGED vars
  BY <1>1, <1>7 DEF vars, store, engine, open
<1> QED BY <1>2, <1>3, <1>4, <1>5, <1>6, <1>7 DEF Next

----------------------------------------------------------------------------
\* The entries of a block with their times.

Plain(s)    == {i \in DOMAIN s : s[i][1] # "minute"}
Upto(P, i)  == {j \in P : j <= i}
Count(s, i) == Cardinality(Upto(Plain(s), i))

NextMark(s, i, j) ==
    /\ j \in (i + 1) .. Len(s) /\ s[j][1] = "minute"
    /\ \A k \in (i + 1) .. (j - 1) : s[k][1] # "minute"

Timed(s, t) == [hash : ToSet(s), time : {t + s[j][2] : j \in DOMAIN s}]

\* After n elements, of which the mth is the last marker.
TimedUpTo(s, t, n, m, q, l) ==
    /\ m \in 0 .. n /\ (\A j \in (m + 1) .. n : s[j][1] # "minute")
    /\ q \in Seq(ToSet(s)) /\ Len(q) = n - m
    /\ \A k \in 1 .. (n - m) : q[k] = s[m + k] /\ Count(s, m + k) = Count(s, m) + k
    /\ l \in Seq(Timed(s, t)) /\ Len(l) = Count(s, m)
    /\ \A i \in Plain(s) : i <= m =>
        \E j : NextMark(s, i, j) /\ l[Count(s, i)] = [hash |-> s[i], time |-> t + s[j][2]]
    /\ \A p \in DOMAIN l : \E i \in Plain(s) : l[p].hash = s[i]

LEMMA UptoIs ==
    ASSUME NEW n \in Nat, NEW P \in SUBSET (1 .. n)
    PROVE  /\ \A i : IsFiniteSet(Upto(P, i)) /\ Cardinality(Upto(P, i)) \in Nat
           /\ Cardinality(Upto(P, 0)) = 0 /\ Cardinality(Upto(P, n)) = Cardinality(P)
           /\ \A i \in 1 .. n : Cardinality(Upto(P, i)) =
                IF i \in P THEN Cardinality(Upto(P, i - 1)) + 1 ELSE Cardinality(Upto(P, i - 1))
           /\ \A i, j \in 0 .. n : i <= j => Cardinality(Upto(P, i)) <= Cardinality(Upto(P, j))
<1>0. \A j \in P : j \in Int /\ 1 <= j /\ j <= n
  OBVIOUS
<1>1. IsFiniteSet(P)
  <2>1. PICK I : I = 1 .. n
    OBVIOUS
  <2>2. IsFiniteSet(I)
    BY <2>1, FS_Interval
  <2> QED BY <2>1, <2>2, FS_Subset
<1>2. ASSUME NEW i PROVE IsFiniteSet(Upto(P, i)) /\ Cardinality(Upto(P, i)) \in Nat
  <2>1. PICK U : U = Upto(P, i)
    OBVIOUS
  <2>2. U \in SUBSET P
    BY <2>1 DEF Upto
  <2>3. IsFiniteSet(U)
    BY <1>1, <2>2, FS_Subset
  <2> QED BY <2>1, <2>3, FS_CardinalityType
<1>3. Upto(P, 0) = {} /\ Upto(P, n) = P
  <2>1. \A j : j \in Upto(P, 0) <=> j \in P /\ j <= 0
    BY DEF Upto
  <2>2. \A j : j \in Upto(P, n) <=> j \in P /\ j <= n
    BY DEF Upto
  <2> QED BY <1>0, <2>1, <2>2
<1>4. ASSUME NEW i \in 1 .. n
      PROVE  Cardinality(Upto(P, i)) =
                IF i \in P THEN Cardinality(Upto(P, i - 1)) + 1 ELSE Cardinality(Upto(P, i - 1))
  <2>1. PICK U, V : U = Upto(P, i) /\ V = Upto(P, i - 1)
    OBVIOUS
  <2>2. i \notin V /\ U = IF i \in P THEN V \cup {i} ELSE V
    <3>1. i \in Int /\ i - 1 \in Int /\ \A j \in P : j <= i <=> (j <= i - 1 \/ j = i)
      BY <1>0
    <3>2. i \notin V
      BY <2>1, <3>1 DEF Upto
    <3>3. \A j : j \in U <=> j \in P /\ (j \in V \/ j = i)
      BY <2>1, <3>1 DEF Upto
    <3>4. \A j \in V : j \in P
      BY <2>1 DEF Upto
    <3> QED BY <3>2, <3>3, <3>4
  <2>3. IsFiniteSet(V)
    BY <1>2, <2>1
  <2>4. Cardinality(V \cup {i}) = Cardinality(V) + 1
    BY <2>2, <2>3, FS_AddElement
  <2> QED BY <2>1, <2>2, <2>4
<1>5. ASSUME NEW i \in 0 .. n, NEW j \in 0 .. n, i <= j
      PROVE  Cardinality(Upto(P, i)) <= Cardinality(Upto(P, j))
  <2>1. PICK U, V : U = Upto(P, i) /\ V = Upto(P, j)
    OBVIOUS
  <2>2. U \in SUBSET V
    <3>1. \A k : (k \in U <=> k \in P /\ k <= i) /\ (k \in V <=> k \in P /\ k <= j)
      BY <2>1 DEF Upto
    <3>2. ASSUME NEW k \in U PROVE k \in V
      <4>1. k \in P /\ k <= i
        BY <3>1, <3>2
      <4>2. k \in Int /\ i \in Int /\ j \in Int
        BY <1>0, <4>1
      <4>3. k <= j
        BY <1>5, <4>1, <4>2
      <4> QED BY <3>1, <4>1, <4>3
    <3> QED BY <3>2
  <2>3. IsFiniteSet(V)
    BY <1>2, <2>1
  <2>4. Cardinality(U) <= Cardinality(V)
    BY <2>2, <2>3, FS_Subset
  <2> QED BY <2>1, <2>4
<1>6. Cardinality(Upto(P, 0)) = 0
  BY <1>3, FS_EmptySet
<1> QED BY <1>2, <1>3, <1>4, <1>5, <1>6

LEMMA Counts ==
    ASSUME NEW S, NEW s \in Seq(S)
    PROVE  /\ \A i : Count(s, i) \in Nat
           /\ Count(s, 0) = 0 /\ Count(s, Len(s)) = Cardinality(Plain(s))
           /\ \A i \in 1 .. Len(s) :
                Count(s, i) = IF i \in Plain(s) THEN Count(s, i - 1) + 1 ELSE Count(s, i - 1)
           /\ \A i, j \in 0 .. Len(s) : i <= j => Count(s, i) <= Count(s, j)
<1>1. PICK P : P = Plain(s)
  OBVIOUS
<1>2. PICK n \in Nat : n = Len(s)
  OBVIOUS
<1>3. P \in SUBSET (1 .. n)
  BY <1>1, <1>2 DEF Plain
<1>4. \A i : Count(s, i) = Cardinality(Upto(P, i))
  BY <1>1 DEF Count
<1> QED BY <1>1, <1>2, <1>3, <1>4, UptoIs

LEMMA SeqCat ==
    ASSUME NEW T, NEW a \in Seq(T), NEW b \in Seq(T), NEW c, c = a \o b
    PROVE  /\ c \in Seq(T) /\ Len(c) = Len(a) + Len(b) /\ DOMAIN c = 1 .. (Len(a) + Len(b))
           /\ \A i \in 1 .. Len(a) : c[i] = a[i]
           /\ \A i \in 1 .. Len(b) : c[Len(a) + i] = b[i]
OBVIOUS

\* One round of the loop that meets an entry, and one that meets a marker.
LEMMA EntryMet ==
    ASSUME NEW S, NEW s \in Seq(S), NEW t, NEW n \in 0 .. (Len(s) - 1), NEW m, NEW r, NEW l,
           TimedUpTo(s, t, n, m, r, l), s[n + 1][1] # "minute"
    PROVE  TimedUpTo(s, t, n + 1, m, Append(r, s[n + 1]), l)
<1> DEFINE v == s[n + 1]
           q == Append(r, v)
<1>2. n + 1 \in 1 .. Len(s) /\ v \in ToSet(s) /\ n \in Nat /\ m \in Nat /\ m <= n
  BY DEF ToSet, TimedUpTo
<1>3. /\ q \in Seq(ToSet(s)) /\ Len(q) = (n + 1) - m
      /\ \A k \in 1 .. (n - m) : q[k] = r[k] /\ q[(n + 1) - m] = v
  BY <1>2 DEF TimedUpTo
<1>4. Count(s, n) = Count(s, m) + (n - m)
  <2>1. CASE n = m
    BY <1>2, <2>1, Counts
  <2>2. CASE n # m
    <3>1. n - m \in 1 .. (n - m) /\ m + (n - m) = n
      BY <1>2, <2>2
    <3> QED BY <3>1 DEF TimedUpTo
  <2> QED BY <2>1, <2>2
<1>5. n + 1 \in Plain(s)
  BY <1>2 DEF Plain
<1>6. Count(s, n + 1) = Count(s, m) + ((n + 1) - m)
  <2>1. Count(s, n + 1) = Count(s, (n + 1) - 1) + 1 /\ Count(s, m) \in Nat
    BY <1>2, <1>5, Counts
  <2> QED BY <1>2, <1>4, <2>1
<1> HIDE DEF q
<1>7. ASSUME NEW k \in 1 .. ((n + 1) - m)
      PROVE  q[k] = s[m + k] /\ Count(s, m + k) = Count(s, m) + k
  <2>1. CASE k = (n + 1) - m
    <3>1. m + k = n + 1 /\ q[k] = v
      BY <1>2, <1>3, <2>1 DEF q
    <3> QED BY <1>6, <2>1, <3>1
  <2>2. CASE k # (n + 1) - m
    <3>1. k \in 1 .. (n - m)
      BY <1>2, <2>2
    <3> QED BY <1>3, <3>1 DEF TimedUpTo
  <2> QED BY <2>1, <2>2
<1>8. \A j \in (m + 1) .. (n + 1) : s[j][1] # "minute"
  BY <1>2 DEF TimedUpTo
<1>10. m \in 0 .. (n + 1)
  BY <1>2
<1> HIDE DEF v
<1>11. TimedUpTo(s, t, n + 1, m, q, l)
  BY <1>3, <1>7, <1>8, <1>10 DEF TimedUpTo
<1> QED BY <1>11 DEF q, v

LEMMA MarkerMet ==
    ASSUME NEW S, NEW s \in Seq(S), NEW t, NEW n \in 0 .. (Len(s) - 1), NEW m, NEW r, NEW l,
           TimedUpTo(s, t, n, m, r, l), s[n + 1][1] = "minute"
    PROVE  TimedUpTo(s, t, n + 1, n + 1, <<>>, l \o
                [i \in DOMAIN r |-> [hash |-> r[i], time |-> t + s[n + 1][2]]])
<1> DEFINE v == s[n + 1]
           a == l
           b == [i \in DOMAIN r |-> [hash |-> r[i], time |-> t + v[2]]]
           c == a \o b
           T == Timed(s, t)
<1>2. n + 1 \in 1 .. Len(s) /\ n + 1 \in DOMAIN s /\ n \in Nat /\ m \in Nat /\ m <= n
  BY DEF TimedUpTo
<1>3. DOMAIN r = 1 .. (n - m) /\ \A k \in 1 .. (n - m) : r[k] \in ToSet(s)
  BY <1>2 DEF TimedUpTo
<1>4. b \in Seq(T) /\ Len(b) = n - m
      /\ \A k \in 1 .. (n - m) : b[k] = [hash |-> s[m + k], time |-> t + v[2]]
  <2>1. b \in [1 .. (n - m) -> T]
    BY <1>2, <1>3 DEF Timed
  <2>2. n - m \in Nat
    BY <1>2
  <2>3. \A k \in 1 .. (n - m) : b[k] = [hash |-> s[m + k], time |-> t + v[2]]
    BY <1>3 DEF TimedUpTo
  <2> HIDE DEF b, T
  <2> QED BY <2>1, <2>2, <2>3
<1>5. a \in Seq(T) /\ Len(a) = Count(s, m)
  BY DEF TimedUpTo
<1> HIDE DEF a, b, T
<1>6. /\ c \in Seq(T) /\ Len(c) = Len(a) + Len(b)
      /\ \A i \in 1 .. Len(a) : c[i] = a[i]
      /\ \A i \in 1 .. Len(b) : c[Len(a) + i] = b[i]
  <2>1. PICK x, y, z, W : x = a /\ y = b /\ z = c /\ W = T
    OBVIOUS
  <2>2. z = x \o y
    BY <2>1
  <2> HIDE DEF c
  <2>3. x \in Seq(W) /\ y \in Seq(W)
    BY <1>4, <1>5, <2>1
  <2> QED BY <2>1, <2>2, <2>3, SeqCat
<1> HIDE DEF c
<1>7. Count(s, n) = Count(s, m) + (n - m)
  <2>1. CASE n = m
    BY <1>2, <2>1, Counts
  <2>2. CASE n # m
    <3>1. n - m \in 1 .. (n - m) /\ m + (n - m) = n
      BY <1>2, <2>2
    <3> QED BY <3>1 DEF TimedUpTo
  <2> QED BY <2>1, <2>2
<1>8. n + 1 \notin Plain(s)
  BY DEF Plain
<1>9. Count(s, n + 1) = Len(c)
  <2>1. Count(s, n + 1) = Count(s, (n + 1) - 1)
    BY <1>2, <1>8, Counts
  <2> QED BY <1>2, <1>4, <1>5, <1>6, <1>7, <2>1
<1>10. ASSUME NEW i \in Plain(s), i <= n + 1
       PROVE  \E j : NextMark(s, i, j) /\ c[Count(s, i)] = [hash |-> s[i], time |-> t + s[j][2]]
  <2>1. i \in 1 .. n
    BY <1>2, <1>8, <1>10 DEF Plain
  <2>2. CASE i <= m
    <3>1. PICK j : NextMark(s, i, j) /\ a[Count(s, i)] = [hash |-> s[i], time |-> t + s[j][2]]
      BY <2>2 DEF TimedUpTo, a
    <3>2. Count(s, i) \in 1 .. Len(a)
      <4>1. i \in 0 .. Len(s) /\ m \in 0 .. Len(s) /\ i \in 1 .. Len(s) /\ i - 1 \in Nat
        BY <1>2, <2>1
      <4>2. Count(s, i) = Count(s, i - 1) + 1 /\ Count(s, i - 1) \in Nat /\ Count(s, m) \in Nat
        BY <4>1, Counts
      <4>3. Count(s, i) <= Count(s, m)
        BY <2>2, <4>1, Counts
      <4> QED BY <1>5, <4>2, <4>3
    <3> QED BY <1>6, <3>1, <3>2
  <2>3. CASE ~(i <= m)
    <3>1. PICK k \in 1 .. (n - m) : k = i - m
      BY <1>2, <2>1, <2>3
    <3>2. m + k = i /\ Count(s, i) = Count(s, m) + k
      <4>1. m + k = i
        BY <1>2, <2>1, <3>1
      <4> QED BY <3>1, <4>1 DEF TimedUpTo
    <3>3. c[Count(s, i)] = [hash |-> s[i], time |-> t + v[2]]
      BY <1>4, <1>5, <1>6, <3>1, <3>2
    <3>4. NextMark(s, i, n + 1)
      <4>1. n + 1 \in (i + 1) .. Len(s) /\ (n + 1) - 1 = n
        BY <1>2, <2>1
      <4>2. \A x \in (i + 1) .. n : x \in (m + 1) .. n
        BY <1>2, <2>1, <2>3
      <4> QED BY <4>1, <4>2 DEF NextMark, TimedUpTo
    <3> QED BY <3>3, <3>4
  <2> QED BY <2>2, <2>3
<1>11. ASSUME NEW p \in DOMAIN c PROVE \E i \in Plain(s) : c[p].hash = s[i]
  <2>1. p \in 1 .. (Len(a) + Len(b)) /\ Len(a) \in Nat /\ Len(b) \in Nat
    BY <1>4, <1>5, <1>6
  <2>2. CASE p \in 1 .. Len(a)
    <3>1. p \in DOMAIN a /\ c[p] = a[p]
      BY <1>5, <1>6, <2>2
    <3> QED BY <3>1 DEF TimedUpTo, a
  <2>3. CASE p \notin 1 .. Len(a)
    <3>1. PICK k \in 1 .. Len(b) : k = p - Len(a)
      BY <2>1, <2>3
    <3>2. c[p] = [hash |-> s[m + k], time |-> t + v[2]]
      <4>1. Len(a) + k = p /\ k \in 1 .. (n - m)
        BY <1>4, <2>1, <3>1
      <4> QED BY <1>4, <1>6, <3>1, <4>1
    <3>3. m + k \in (m + 1) .. n /\ m + k \in DOMAIN s
      BY <1>2, <1>4, <3>1
    <3>4. m + k \in Plain(s)
      BY <3>3 DEF Plain, TimedUpTo
    <3> QED BY <3>2, <3>4
  <2> QED BY <2>2, <2>3
<1>13. /\ n + 1 \in 0 .. (n + 1) /\ (\A j \in ((n + 1) + 1) .. (n + 1) : FALSE)
       /\ <<>> \in Seq(ToSet(s)) /\ Len(<<>>) = (n + 1) - (n + 1)
       /\ \A k \in 1 .. ((n + 1) - (n + 1)) : FALSE
  BY <1>2
<1> HIDE DEF v
<1>14. TimedUpTo(s, t, n + 1, n + 1, <<>>, c)
  BY <1>6, <1>9, <1>10, <1>11, <1>13 DEF TimedUpTo, T
<1> QED BY <1>14 DEF c, b, a, v

----------------------------------------------------------------------------
\* The loop of handleEntryBlock goes through the elements of a block one by one.

TState(q, l) == [stack |-> q, list |-> l]

Stamped(q, v, t) == [i \in DOMAIN q |-> [hash |-> q[i], time |-> t + v[2]]]

LEMMA TimeEntryIs ==
    ASSUME NEW q, NEW l, NEW v, NEW t
    PROVE  TimeEntry(TState(q, l), v, t) =
                IF v[1] = "minute" THEN TState(<<>>, l \o Stamped(q, v, t))
                                   ELSE TState(Append(q, v), l)
<1>1. PICK x : x = TState(q, l)
  OBVIOUS
<1>2. x.stack = q /\ x.list = l /\ x = [stack |-> q, list |-> l]
  BY <1>1 DEF TState
<1>3. [x EXCEPT !.stack = Append(x.stack, v)] = TState(Append(q, v), l)
  BY <1>2 DEF TState
<1>4. [i \in DOMAIN x.stack |-> [hash |-> x.stack[i], time |-> t + v[2]]] = Stamped(q, v, t)
  BY <1>2 DEF Stamped
<1>5. v[1] = "minute" => TimeEntry(x, v, t) = [stack |-> <<>>, list |-> x.list \o
            [i \in DOMAIN x.stack |-> [hash |-> x.stack[i], time |-> t + v[2]]]]
  BY DEF TimeEntry
<1>6. v[1] # "minute" => TimeEntry(x, v, t) = [x EXCEPT !.stack = Append(x.stack, v)]
  BY DEF TimeEntry
<1>7. CASE v[1] = "minute"
  BY ONLY <1>1, <1>2, <1>4, <1>5, <1>7, Zenon DEF TState
<1>8. CASE v[1] # "minute"
  BY ONLY <1>1, <1>3, <1>6, <1>8, Zenon
<1> QED BY <1>7, <1>8

TStates(s, t) == {TState(q, l) : q \in Seq(ToSet(s)), l \in Seq(Timed(s, t))}

LEMMA StampedIs ==
    ASSUME NEW S, NEW s \in Seq(S), NEW t, NEW q \in Seq(ToSet(s)), NEW n \in 1 .. Len(s)
    PROVE  Stamped(q, s[n], t) \in Seq(Timed(s, t))
<1>1. PICK m \in Nat : m = Len(q)
  OBVIOUS
<1>2. DOMAIN q = 1 .. m /\ \A i \in 1 .. m : q[i] \in ToSet(s)
  BY <1>1
<1>3. n \in DOMAIN s
  OBVIOUS
<1>4. PICK T : T = Timed(s, t)
  OBVIOUS
<1>5. \A i \in 1 .. m : [hash |-> q[i], time |-> t + s[n][2]] \in T
  BY <1>2, <1>3, <1>4 DEF Timed
<1>6. Stamped(q, s[n], t) \in [1 .. m -> T]
  BY <1>2, <1>5 DEF Stamped
<1> QED BY <1>1, <1>4, <1>6

LEMMA TimeEntryTypes ==
    ASSUME NEW S, NEW s \in Seq(S), NEW t, NEW n \in 1 .. Len(s), NEW x \in TStates(s, t)
    PROVE  TimeEntry(x, s[n], t) \in TStates(s, t)
<1>1. PICK q \in Seq(ToSet(s)), l \in Seq(Timed(s, t)) : x = TState(q, l)
  BY DEF TStates
<1>2. PICK v, T, E, p : v = s[n] /\ T = Timed(s, t) /\ E = ToSet(s) /\ p = Stamped(q, v, t)
  OBVIOUS
<1>3. v \in E /\ p \in Seq(T)
  <2>1. v \in E
    BY <1>2 DEF ToSet
  <2> QED BY <1>2, <2>1, StampedIs
<1>4. q \in Seq(E) /\ l \in Seq(T)
  BY <1>2
<1>5. <<>> \in Seq(E) /\ l \o p \in Seq(T) /\ Append(q, v) \in Seq(E)
  BY <1>3, <1>4
<1>6. TimeEntry(x, v, t) = IF v[1] = "minute" THEN TState(<<>>, l \o p) ELSE TState(Append(q, v), l)
  BY <1>1, <1>2, TimeEntryIs
<1>7. \A a \in Seq(E), b \in Seq(T) : TState(a, b) \in TStates(s, t)
  BY <1>2 DEF TStates
<1> QED BY <1>2, <1>4, <1>5, <1>6, <1>7

TimedLoop(s, t, f) ==
    f = [k \in 0 .. Len(s) |-> IF k = 0 THEN TState(<<>>, <<>>) ELSE TimeEntry(f[k - 1], s[k], t)]

LEMMA TimedLoops ==
    ASSUME NEW S, NEW s \in Seq(S), NEW t PROVE \E f : TimedLoop(s, t, f)
<1>1. PICK n \in Nat : n = Len(s)
  OBVIOUS
<1>2. PICK T : T = TStates(s, t)
  OBVIOUS
<1>3. PICK x : x = TState(<<>>, <<>>)
  OBVIOUS
<1>4. x \in T
  <2>1. \A E : <<>> \in Seq(E)
    OBVIOUS
  <2>2. <<>> \in Seq(ToSet(s)) /\ <<>> \in Seq(Timed(s, t))
    BY <2>1
  <2>4. \A a \in Seq(ToSet(s)), b \in Seq(Timed(s, t)) : TState(a, b) \in TStates(s, t)
    BY DEF TStates
  <2> QED BY ONLY <1>2, <1>3, <2>2, <2>4, Zenon
<1>5. PICK F : F = [i \in 1 .. n |-> [y \in T |-> TimeEntry(y, s[i], t)]]
  OBVIOUS
<1>6. \A i \in 1 .. n : \A y \in T : TimeEntry(y, s[i], t) \in T
  BY <1>1, <1>2, TimeEntryTypes
<1>7. F \in [1 .. n -> [T -> T]]
  BY <1>5, <1>6
<1>8. PICK g : Iterates(g, n, T, x, F)
  BY <1>4, <1>7, RecursionExists
<1>9. ASSUME NEW k \in 0 .. n
      PROVE  g[k] = IF k = 0 THEN x ELSE TimeEntry(g[k - 1], s[k], t)
  <2>1. CASE k = 0
    BY <1>8, <2>1 DEF Iterates
  <2>2. CASE k # 0
    <3>1. k \in 1 .. n /\ k - 1 \in 0 .. n
      BY <2>2
    <3>2. g[k] = F[k][g[k - 1]] /\ g[k - 1] \in T
      BY <1>8, <3>1 DEF Iterates
    <3>3. F[k][g[k - 1]] = TimeEntry(g[k - 1], s[k], t)
      BY <1>5, <3>1, <3>2
    <3> QED BY <2>2, <3>2, <3>3
  <2> QED BY <2>1, <2>2
<1>10. g = [k \in 0 .. n |-> g[k]]
  BY <1>8 DEF Iterates
<1>11. g = [k \in 0 .. n |-> IF k = 0 THEN x ELSE TimeEntry(g[k - 1], s[k], t)]
  BY <1>9, <1>10
<1> QED BY <1>1, <1>3, <1>11 DEF TimedLoop

LEMMA TimedRead ==
    ASSUME NEW S, NEW s \in Seq(S), NEW t, NEW f, TimedLoop(s, t, f)
    PROVE  \E m, q : TimedUpTo(s, t, Len(s), m, q, f[Len(s)].list)
<1> DEFINE n == Len(s)
           Q(k, m, q, l) == f[k] = TState(q, l) /\ TimedUpTo(s, t, k, m, q, l)
           P(k) == k <= n => \E m, q, l : Q(k, m, q, l)
           T == {k \in Nat : P(k)}
<1>0. \A k \in Nat : k \in T <=> P(k)
  OBVIOUS
<1>1. n \in Nat
  OBVIOUS
<1>2. f[0] = TState(<<>>, <<>>) /\ \A k \in 1 .. n : f[k] = TimeEntry(f[k - 1], s[k], t)
  BY <1>1 DEF TimedLoop
<1>3. TimedUpTo(s, t, 0, 0, <<>>, <<>>)
  <2>1. Count(s, 0) = 0
    BY Counts
  <2>2. \A i \in Plain(s) : ~(i <= 0)
    BY DEF Plain
  <2>3. \A E : <<>> \in Seq(E) /\ Len(<<>>) = 0 /\ DOMAIN <<>> = {}
    OBVIOUS
  <2> QED BY <2>1, <2>2, <2>3 DEF TimedUpTo
<1> HIDE DEF n, T, P
<1>4. 0 \in T
  BY <1>0, <1>2, <1>3 DEF P
<1>5. ASSUME NEW k \in Nat, k \in T PROVE k + 1 \in T
  <2>1. k + 1 \in Nat /\ P(k)
    BY <1>0, <1>5
  <2>2. ASSUME k + 1 <= n PROVE \E m, q, l : Q(k + 1, m, q, l)
    <3>1. k + 1 \in 1 .. n /\ (k + 1) - 1 = k /\ k <= n /\ k \in 0 .. (Len(s) - 1)
      BY <1>1, <2>2 DEF n
    <3>2. PICK m, q, l : Q(k, m, q, l)
      BY <2>1, <3>1 DEF P
    <3>3. PICK v, p : v = s[k + 1] /\ p = [i \in DOMAIN q |-> [hash |-> q[i], time |-> t + v[2]]]
      OBVIOUS
    <3>4. f[k + 1] = TimeEntry(TState(q, l), v, t)
      BY <1>2, <3>1, <3>2, <3>3
    <3>5. f[k + 1] = IF v[1] = "minute" THEN TState(<<>>, l \o p) ELSE TState(Append(q, v), l)
      <4>1. Stamped(q, v, t) = p
        BY <3>3 DEF Stamped
      <4> QED BY <3>4, <4>1, TimeEntryIs
    <3>6. CASE v[1] = "minute"
      <4>1. TimedUpTo(s, t, k + 1, k + 1, <<>>, l \o
                [i \in DOMAIN q |-> [hash |-> q[i], time |-> t + s[k + 1][2]]])
        BY <3>1, <3>2, <3>3, <3>6, MarkerMet
      <4>2. TimedUpTo(s, t, k + 1, k + 1, <<>>, l \o p)
        BY ONLY <3>3, <4>1, Zenon
      <4> QED BY <3>5, <3>6, <4>2
    <3>7. CASE v[1] # "minute"
      <4>1. TimedUpTo(s, t, k + 1, m, Append(q, v), l)
        BY <3>1, <3>2, <3>3, <3>7, EntryMet
      <4> QED BY <3>5, <3>7, <4>1
    <3> QED BY <3>6, <3>7
  <2> QED BY <1>0, <2>1, <2>2 DEF P
<1>6. Nat \subseteq T
  BY <1>4, <1>5, SetInduction
<1>7. n \in T /\ n <= n
  BY <1>1, <1>6
<1>8. PICK m, q, l : Q(n, m, q, l)
  BY <1>0, <1>1, <1>7 DEF P
<1>9. f[n].list = l
  BY <1>8 DEF TState
<1> QED BY <1>8, <1>9 DEF n

LEMMA TimedAre ==
    ASSUME NEW S, NEW s \in Seq(S), NEW t
    PROVE  \E m, q : TimedUpTo(s, t, Len(s), m, q, TimedEntries(s, t))
<1> DEFINE R(f) == f = [n \in 0 .. Len(s) |-> IF n = 0 THEN [stack |-> <<>>, list |-> <<>>]
                                              ELSE TimeEntry(f[n - 1], s[n], t)]
           g == CHOOSE f : R(f)
<1>1. \A f : R(f) <=> TimedLoop(s, t, f)
  BY DEF TimedLoop, TState
<1>2. \E f : R(f)
  BY <1>1, TimedLoops
<1>3. TimedEntries(s, t) = g[Len(s)].list
  BY DEF TimedEntries
<1> HIDE DEF R
<1>4. R(g)
  BY <1>2
<1> HIDE DEF g
<1>5. TimedLoop(s, t, g)
  BY <1>1, <1>4
<1> QED BY <1>3, <1>5, TimedRead

----------------------------------------------------------------------------
\* Where the keys of an answer lead.

DOf(k) == UnmarshalDBlock(db.DB[db.DB_MR[k]])
EOf(k) == EAt(db.EB, db.EB_MR[k])

\* The directory block of the entry block's height is stored.
Timely(b) == b.height \in DOMAIN db.DB_NUM

LEMMA DKeyIs ==
    ASSUME Ledgers, NEW k \in DOMAIN db.DB_MR
    PROVE  \E h \in 0 .. (DirCount - 1) : /\ db.DB_MR[k] = db.DB_NUM[h]
                                          /\ DOf(k) = DAt(db.DB, db.DB_NUM, h)
                                          /\ BuildKeyMerkleRoot(DOf(k)) = k
<1>1. DChain(db.DB, db.DB_NUM, db.DB_MR, DirCount)
  BY DEF Ledgers, Directories
<1>2. PICK h \in 0 .. (DirCount - 1) : k = BuildKeyMerkleRoot(DAt(db.DB, db.DB_NUM, h))
  BY <1>1 DEF DChain
<1>3. PICK b : b = DAt(db.DB, db.DB_NUM, h)
  OBVIOUS
<1>4. db.DB_MR[BuildKeyMerkleRoot(b)] = db.DB_NUM[h]
  BY <1>1, <1>3 DEF DChain, DRowIs, DAt
<1>5. db.DB_MR[k] = db.DB_NUM[h] /\ DOf(k) = b
  BY <1>2, <1>3, <1>4 DEF DOf, DAt
<1> QED BY <1>2, <1>3, <1>5

\* The key of every stored directory block is known.
LEMMA DKeyOf ==
    ASSUME Ledgers, NEW h \in 0 .. (DirCount - 1)
    PROVE  BuildKeyMerkleRoot(DAt(db.DB, db.DB_NUM, h)) \in DOMAIN db.DB_MR
<1>1. DChain(db.DB, db.DB_NUM, db.DB_MR, DirCount)
  BY DEF Ledgers, Directories
<1> QED BY <1>1 DEF DChain

LEMMA PrevDKey ==
    ASSUME Ledgers, NEW k \in DOMAIN db.DB_MR, DOf(k).prevKeyMR # NewHash
    PROVE  DOf(k).prevKeyMR \in DOMAIN db.DB_MR
<1>1. PICK h \in 0 .. (DirCount - 1) : DOf(k) = DAt(db.DB, db.DB_NUM, h)
  BY DKeyIs
<1>2. PICK b : b = DOf(k)
  OBVIOUS
<1>3. b.height = h /\ DLinked(b, db.DB, db.DB_NUM) /\ DirCount \in Nat
  BY <1>1, <1>2 DEF Ledgers, Directories, DChain, DRowIs, DAt
<1>4. b.height # 0
  BY <1>2, <1>3 DEF DLinked
<1>5. PICK j \in 0 .. (DirCount - 1) : j = h - 1
  BY <1>3, <1>4
<1>6. b.prevKeyMR = BuildKeyMerkleRoot(DAt(db.DB, db.DB_NUM, j))
  BY <1>3, <1>4, <1>5 DEF DLinked
<1> QED BY <1>2, <1>6, DKeyOf

LEMMA DListed ==
    ASSUME Ledgers, Listing, NEW k \in DOMAIN db.DB_MR
    PROVE  /\ Lists(DOf(k)) /\ IsSealed(DOf(k)) /\ DOf(k).height \in 0 .. (DirCount - 1)
           /\ DOf(k).height \in DOMAIN db.DB_NUM /\ db.DB_MR[k] \in DOMAIN db.DB
           /\ FetchDBHashByMR(db, k) = db.DB_MR[k] /\ db.DB_MR[k] # Nil
           /\ FetchDBlockByHash(db, db.DB_MR[k]) = DOf(k) /\ DOf(k) # Nil
<1>1. PICK h \in 0 .. (DirCount - 1) : /\ db.DB_MR[k] = db.DB_NUM[h]
                                       /\ DOf(k) = DAt(db.DB, db.DB_NUM, h)
  BY DKeyIs
<1>2. DChain(db.DB, db.DB_NUM, db.DB_MR, DirCount)
  BY DEF Ledgers, Directories
<1>3. PICK b, x : b = DAt(db.DB, db.DB_NUM, h) /\ x = db.DB_NUM[h]
  OBVIOUS
<1>4. /\ FetchDBlockByHash(db, x) = b /\ b # Nil /\ IsSealed(b) /\ b.height = h /\ x # Nil
  BY <1>2, <1>3, DFetched
<1>5. Lists(b) /\ h \in DOMAIN db.DB_NUM /\ x \in DOMAIN db.DB
  BY <1>2, <1>3 DEF Listing, StoredLists, DChain
<1>6. FetchDBHashByMR(db, k) = db.DB_MR[k]
  BY DEF FetchDBHashByMR, Get
<1> QED BY <1>1, <1>3, <1>4, <1>5, <1>6

LEMMA EKeyIs ==
    ASSUME EntryChains, NEW k \in DOMAIN db.EB_MR
    PROVE  /\ db.EB_MR[k] \in DOMAIN db.EB /\ EBlockKeyMR(EOf(k)) = k
           /\ FetchEBHashByMR(db, k) = db.EB_MR[k] /\ db.EB_MR[k] # Nil
           /\ FetchEBlockByHash(db, db.EB_MR[k]) = EOf(k) /\ EOf(k) # Nil
           /\ IsEBlock(EOf(k)) /\ EOf(k) = BuildEBlockHeader(EOf(k)) /\ EOf(k).entries # <<>>
           /\ ELinked(EOf(k), EOf(k).height, db.EB)
           /\ EOf(k).height < OpenHeight /\ Known(EOf(k).entries, db.ENTRY) /\ Closed(EOf(k).entries)
<1>1. ETables(db.EB, db.EB_MR) /\ Contained(db.EB, db.ENTRY, OpenHeight)
  BY DEF EntryChains, StoredChains
<1>2. PICK x : x = db.EB_MR[k]
  OBVIOUS
<1>3. PICK b : b = EAt(db.EB, x)
  OBVIOUS
<1>4. x \in DOMAIN db.EB /\ EBlockKeyMR(b) = k
  BY <1>1, <1>2, <1>3 DEF ETables
<1>5. ERowIs(db.EB, x) /\ ELinked(b, b.height, db.EB)
  BY <1>1, <1>3, <1>4 DEF ETables
<1>6. IsEBlock(b) /\ b = BuildEBlockHeader(b) /\ b.entries # <<>> /\ x = EBlockHash(b)
  BY <1>3, <1>5 DEF ERowIs
<1>7. FetchEBlockByHash(db, x) = b /\ b # Nil
  BY <1>1, <1>3, <1>4, EFetched
<1>8. b.height < OpenHeight /\ Known(b.entries, db.ENTRY) /\ Closed(b.entries)
  BY <1>1, <1>3, <1>4 DEF Contained
<1>9. x # Nil
  BY <1>6 DEF EBlockHash, Sha, Nil
<1>10. FetchEBHashByMR(db, k) = x
  BY <1>2 DEF FetchEBHashByMR, Get
<1> QED BY <1>2, <1>3, <1>4, <1>5, <1>6, <1>7, <1>8, <1>9, <1>10 DEF EOf

\* The predecessor of a stored entry block is in a block below the open one.
LEMMA PrevEKey ==
    ASSUME Control, Ledgers, EntryChains, NEW k \in DOMAIN db.EB_MR, EOf(k).prevKeyMR # NewHash,
           NEW r, r = EOf(k).prevKeyMR
    PROVE  r \in DOMAIN db.EB_MR /\ Timely(EOf(r))
<1>1. ETables(db.EB, db.EB_MR)
  BY DEF EntryChains, StoredChains
<1>2. PICK b : b = EOf(k)
  OBVIOUS
<1>3. ELinked(b, b.height, db.EB) /\ b.height < OpenHeight /\ IsEBlock(b) /\ r = b.prevKeyMR
  BY <1>2, EKeyIs
<1>4. PICK x, p : x = b.prevLedgerKeyMR /\ p = EAt(db.EB, x)
  OBVIOUS
<1>5. x \in DOMAIN db.EB /\ EBlockKeyMR(p) = r /\ p.height < b.height
  BY <1>2, <1>3, <1>4 DEF ELinked
<1>6. ERowIs(db.EB, x) /\ EBlockKeyMR(p) \in DOMAIN db.EB_MR
  BY <1>1, <1>4, <1>5 DEF ETables
<1>7. IsEBlock(p) /\ p.entries # <<>> /\ db.EB[x] = MarshalEBlock(p)
  BY <1>4, <1>6 DEF ERowIs
<1>8. r \in DOMAIN db.EB_MR
  BY <1>5, <1>6
<1>9. PICK c : c = EOf(r)
  OBVIOUS
<1>10. EBlockKeyMR(c) = r /\ IsEBlock(c) /\ c.entries # <<>> /\ db.EB_MR[r] \in DOMAIN db.EB
  BY <1>8, <1>9, EKeyIs
<1>11. MarshalEBlock(c) = MarshalEBlock(p)
  BY <1>5, <1>7, <1>10, EBKeyMRCommits
<1>12. db.EB[db.EB_MR[r]] = MarshalEBlock(c)
  <2>1. ERowIs(db.EB, db.EB_MR[r])
    BY <1>1, <1>10 DEF ETables
  <2> QED BY <1>9, <2>1 DEF ERowIs, EOf
<1>13. c = p
  BY <1>4, <1>7, <1>9, <1>11, <1>12 DEF EOf, EAt
<1>14. p.height \in Nat /\ b.height \in Nat
  BY <1>3, <1>7 DEF IsEBlock
<1>15. Height \in Nat /\ OpenHeight <= DirCount + 1 /\ DirCount \in Nat /\ OpenHeight \in Nat
  BY DEF Control, OpenHeight, DirCount, Ledgers, Directories, DChain
<1>16. p.height \in 0 .. (DirCount - 1)
  BY <1>3, <1>5, <1>14, <1>15
<1>17. DOMAIN db.DB_NUM = 0 .. (DirCount - 1)
  BY DEF Ledgers, Directories, DChain
<1> QED BY <1>8, <1>9, <1>13, <1>16, <1>17 DEF Timely

\* The hashes that are listed for an entry block are those of stored entries.
LEMMA ListedEntry ==
    ASSUME EntryChains, NEW k \in DOMAIN db.EB_MR, NEW t, NEW l,
           l = TimedEntries(EOf(k).entries, t), NEW i \in DOMAIN l
    PROVE  l[i].hash \in DOMAIN db.ENTRY
<1>1. PICK s : s = EOf(k).entries
  OBVIOUS
<1>2. s \in Seq(EBHashes) /\ Known(s, db.ENTRY)
  BY <1>1, EKeyIs DEF IsEBlock
<1>3. PICK m, q : TimedUpTo(s, t, Len(s), m, q, l)
  BY <1>1, <1>2, TimedAre
<1>4. PICK j \in Plain(s) : l[i].hash = s[j]
  BY <1>3 DEF TimedUpTo
<1>5. j \in DOMAIN s /\ s[j][1] # "minute"
  BY DEF Plain
<1>6. s[j] \notin Markings
  BY <1>5 DEF Markings, MinuteMarker
<1> QED BY <1>2, <1>4, <1>5, <1>6 DEF Known

----------------------------------------------------------------------------
\* What a request has read, and what an answer says.

RequestFits(r) ==
    /\ IsRecord(r, {"pc", "key", "from", "hash", "block"})
    /\ r.pc = "num"       => r.key \in -1 .. (Height - 1)
    /\ r.pc = "headblock" => r.hash \in DOMAIN db.DB
    /\ r.pc \in {"mr", "dblock"} => r.key \in DOMAIN db.DB_MR
    /\ r.pc = "dblock"    => r.hash = db.DB_MR[r.key]
    /\ r.pc \in {"ebmr", "eblock", "ebnum", "ebtime"} =>
            r.key \in DOMAIN db.EB_MR /\ (r.from # "chainhead" => Timely(EOf(r.key)))
    /\ r.pc = "eblock"    => r.hash = db.EB_MR[r.key]
    /\ r.pc \in {"ebnum", "ebtime"} => r.block = EOf(r.key)
    /\ r.pc = "ebtime"    => Timely(EOf(r.key)) /\ r.hash = db.DB_NUM[EOf(r.key).height]

\* A list without the times of a directory block is a chain head's only.
ListIs(l, b, from) ==
    /\ \E t : l = TimedEntries(b.entries, t)
    /\ from # "chainhead" => Timely(b) /\ l = TimedEntries(b.entries, Timestamp(b.height))

AnswerFits(a) ==
    /\ a.kind = "notfound" => a.key = -1
    /\ a.kind = "head"     => a.key \in DOMAIN db.DB_MR
    /\ a.kind = "dblock"   => a.key \in DOMAIN db.DB_MR /\ a.val = DOf(a.key)
    /\ a.kind = "eblock"   => a.key \in DOMAIN db.EB_MR /\ a.val = EOf(a.key) /\ ListIs(a.list, a.val, a.from)
    /\ a.kind = "chainhead" => a.key \in DOMAIN db.EB_MR
    /\ a.kind = "entry"    => HasKey("entry", a.val, a.key)
    /\ a.kind = "raw"      => HasKey(a.val[1], a.val[2], a.key)

RequestIs == RequestFits(request)
AnswerIs  == AnswerFits(answer)

\* Steps of the engine.
LEMMA KeysKept ==
    ASSUME Ledgers, EntryChains, StoreGrows
    PROVE  /\ \A k \in DOMAIN db.DB_MR :
                k \in DOMAIN db'.DB_MR /\ db'.DB_MR[k] = db.DB_MR[k] /\ DOf(k)' = DOf(k)
           /\ \A k \in DOMAIN db.EB_MR :
                k \in DOMAIN db'.EB_MR /\ db'.EB_MR[k] = db.EB_MR[k] /\ EOf(k)' = EOf(k)
           /\ \A b : Timely(b) => Timely(b)' /\ db'.DB_NUM[b.height] = db.DB_NUM[b.height]
           /\ DOMAIN db.DB \subseteq DOMAIN db'.DB
<1>1. /\ Grown(db.DB, db'.DB) /\ Grown(db.DB_MR, db'.DB_MR) /\ Grown(db.DB_NUM, db'.DB_NUM)
      /\ Grown(db.EB, db'.EB) /\ Grown(db.EB_MR, db'.EB_MR)
  BY DEF StoreGrows, ReadTables
<1>2. ASSUME NEW k \in DOMAIN db.DB_MR
      PROVE  k \in DOMAIN db'.DB_MR /\ db'.DB_MR[k] = db.DB_MR[k] /\ DOf(k)' = DOf(k)
  <2>1. db.DB_MR[k] \in DOMAIN db.DB
    <3>1. PICK h \in 0 .. (DirCount - 1) : db.DB_MR[k] = db.DB_NUM[h]
      BY DKeyIs
    <3> QED BY <3>1 DEF Ledgers, Directories, DChain
  <2>2. k \in DOMAIN db'.DB_MR /\ db'.DB_MR[k] = db.DB_MR[k]
    BY <1>1 DEF Grown
  <2>3. db'.DB[db.DB_MR[k]] = db.DB[db.DB_MR[k]]
    BY <1>1, <2>1 DEF Grown
  <2> QED BY <2>2, <2>3 DEF DOf
<1>3. ASSUME NEW k \in DOMAIN db.EB_MR
      PROVE  k \in DOMAIN db'.EB_MR /\ db'.EB_MR[k] = db.EB_MR[k] /\ EOf(k)' = EOf(k)
  <2>1. db.EB_MR[k] \in DOMAIN db.EB
    BY EKeyIs
  <2>2. k \in DOMAIN db'.EB_MR /\ db'.EB_MR[k] = db.EB_MR[k]
    BY <1>1 DEF Grown
  <2>3. db'.EB[db.EB_MR[k]] = db.EB[db.EB_MR[k]]
    BY <1>1, <2>1 DEF Grown
  <2> QED BY <2>2, <2>3 DEF EOf, EAt
<1> QED BY <1>1, <1>2, <1>3 DEF Grown, Timely

LEMMA AnswerKept ==
    ASSUME Ledgers, EntryChains, StoreGrows, AnswerIs, UNCHANGED answer PROVE AnswerIs'
<1>1. PICK a : a = answer
  OBVIOUS
<1>2. a = answer'
  BY <1>1
<1>3. a.kind = "dblock" => a.key \in DOMAIN db'.DB_MR /\ a.val = DOf(a.key)'
  BY <1>1, KeysKept DEF AnswerIs, AnswerFits
<1>4. a.kind = "eblock" => a.key \in DOMAIN db'.EB_MR /\ a.val = EOf(a.key)' /\ ListIs(a.list, a.val, a.from)'
  <2> SUFFICES ASSUME a.kind = "eblock"
               PROVE  a.key \in DOMAIN db'.EB_MR /\ a.val = EOf(a.key)' /\ ListIs(a.list, a.val, a.from)'
    OBVIOUS
  <2>1. a.key \in DOMAIN db.EB_MR /\ a.val = EOf(a.key) /\ ListIs(a.list, a.val, a.from)
    BY <1>1 DEF AnswerIs, AnswerFits
  <2>2. PICK b, l, f : b = a.val /\ l = a.list /\ f = a.from
    OBVIOUS
  <2>3. ListIs(l, b, f)'
    <3>1. ListIs(l, b, f)
      BY <2>1, <2>2
    <3>2. Timely(b) => Timely(b)'
      BY KeysKept
    <3> QED BY <3>1, <3>2 DEF ListIs
  <2> QED BY <2>1, <2>2, <2>3, KeysKept
<1>5. /\ a.kind \in {"head"} => a.key \in DOMAIN db'.DB_MR
      /\ a.kind = "chainhead" => a.key \in DOMAIN db'.EB_MR
  BY <1>1, KeysKept DEF AnswerIs, AnswerFits
<1>6. /\ a.kind = "notfound" => a.key = -1
      /\ a.kind = "entry" => HasKey("entry", a.val, a.key)
      /\ a.kind = "raw" => HasKey(a.val[1], a.val[2], a.key)
  BY <1>1 DEF AnswerIs, AnswerFits
<1> QED BY <1>2, <1>3, <1>4, <1>5, <1>6 DEF AnswerIs, AnswerFits

LEMMA RequestKept ==
    ASSUME Control, Ledgers, EntryChains, StoreGrows, Height' \in Nat, RequestIs, UNCHANGED request
    PROVE  RequestIs'
<1>1. PICK r, b : r = request /\ b = EOf(r.key)
  OBVIOUS
<1>2. r = request'
  BY <1>1
<1>3. Height \in Nat /\ Height' \in Nat /\ Height <= Height'
  BY DEF Control, StoreGrows
<1>4. r.pc = "num" => r.key \in -1 .. (Height' - 1)
  BY <1>1, <1>3 DEF RequestIs, RequestFits
<1>5. r.pc = "headblock" => r.hash \in DOMAIN db'.DB
  BY <1>1, KeysKept DEF RequestIs, RequestFits
<1>6. /\ r.pc \in {"mr", "dblock"} => r.key \in DOMAIN db'.DB_MR
      /\ r.pc = "dblock" => r.hash = db'.DB_MR[r.key]
  BY <1>1, KeysKept DEF RequestIs, RequestFits
<1>7. r.pc \in {"ebmr", "eblock", "ebnum", "ebtime"} =>
            /\ r.key \in DOMAIN db.EB_MR /\ r.key \in DOMAIN db'.EB_MR /\ EOf(r.key)' = b
            /\ db'.EB_MR[r.key] = db.EB_MR[r.key]
  BY <1>1, KeysKept DEF RequestIs, RequestFits
<1>8. /\ Timely(b) => Timely(b)' /\ db'.DB_NUM[b.height] = db.DB_NUM[b.height]
  BY KeysKept
<1>9. IsRecord(r, {"pc", "key", "from", "hash", "block"})
  BY <1>1 DEF RequestIs, RequestFits
<1>10. /\ r.pc \in {"ebmr", "eblock", "ebnum", "ebtime"} => (r.from # "chainhead" => Timely(b))
       /\ r.pc = "eblock"    => r.hash = db.EB_MR[r.key]
       /\ r.pc \in {"ebnum", "ebtime"} => r.block = b
       /\ r.pc = "ebtime"    => Timely(b) /\ r.hash = db.DB_NUM[b.height]
  BY <1>1 DEF RequestIs, RequestFits
<1>11. /\ r.pc \in {"ebmr", "eblock", "ebnum", "ebtime"} =>
            r.key \in DOMAIN db'.EB_MR /\ (r.from # "chainhead" => Timely(EOf(r.key))')
       /\ r.pc = "eblock"    => r.hash = db'.EB_MR[r.key]
       /\ r.pc \in {"ebnum", "ebtime"} => r.block = EOf(r.key)'
       /\ r.pc = "ebtime"    => Timely(EOf(r.key))' /\ r.hash = db'.DB_NUM[EOf(r.key)'.height]
  <2>1. \A c : c = b => (Timely(c)' <=> Timely(b)')
    OBVIOUS
  <2>2. r.pc \in {"ebmr", "eblock", "ebnum", "ebtime"} => (Timely(EOf(r.key))' <=> Timely(b)')
    BY <1>7 DEF Timely
  <2> QED BY <1>7, <1>8, <1>10, <2>2
<1> QED BY <1>2, <1>4, <1>5, <1>6, <1>9, <1>11 DEF RequestIs, RequestFits

\* A request that is cut off.
LEMMA NoRequestIs == ASSUME request' = NoRequest PROVE RequestIs'
<1>1. /\ IsRecord(NoRequest, {"pc", "key", "from", "hash", "block"}) /\ NoRequest.pc = "idle"
  BY DEF NoRequest, IsRecord
<1> QED BY <1>1 DEF RequestIs, RequestFits

LEMMA FitsSame ==
    ASSUME UNCHANGED <<db, dNext>>
    PROVE  (\A r : RequestFits(r) => RequestFits(r)') /\ (\A a : AnswerFits(a) => AnswerFits(a)')
<1>1. db' = db /\ Height' = Height
  BY DEF Height
<1>2. \A k : DOf(k)' = DOf(k) /\ EOf(k)' = EOf(k)
  BY <1>1 DEF DOf, EOf
<1>3. \A b : Timely(b)' <=> Timely(b)
  BY <1>1 DEF Timely
<1>4. \A l, b, f : ListIs(l, b, f)' <=> ListIs(l, b, f)
  BY <1>3 DEF ListIs
<1>5. ASSUME NEW r, RequestFits(r) PROVE RequestFits(r)'
  BY <1>1, <1>2, <1>3, <1>5 DEF RequestFits
<1>6. ASSUME NEW a, AnswerFits(a) PROVE AnswerFits(a)'
  BY <1>1, <1>2, <1>4, <1>6 DEF AnswerFits
<1> QED BY <1>5, <1>6

\* Steps of the client.
LEMMA ClientMoved ==
    ASSUME UNCHANGED <<store, engine>>, RequestFits(request'), AnswerFits(answer')
    PROVE  RequestIs' /\ AnswerIs'
<1>1. UNCHANGED <<db, dNext>>
  BY DEF store, engine, open
<1>2. PICK r, a : r = request' /\ a = answer'
  OBVIOUS
<1>3. RequestFits(r)' /\ AnswerFits(a)'
  BY <1>1, <1>2, FitsSame
<1> QED BY <1>2, <1>3 DEF RequestIs, AnswerIs, RequestFits, AnswerFits

----------------------------------------------------------------------------
\* Requests.

RFields == {"pc", "key", "from", "hash", "block"}

LEMMA NoAnswerFits == AnswerFits(NoAnswer)
<1>1. NoAnswer.kind = "none"
  BY DEF NoAnswer
<1> QED BY <1>1 DEF AnswerFits

LEMMA NoRequestFits == RequestFits(NoRequest)
<1>1. IsRecord(NoRequest, RFields) /\ NoRequest.pc = "idle"
  BY DEF NoRequest, IsRecord, RFields
<1> QED BY <1>1 DEF RequestFits, RFields

LEMMA Asked ==
    ASSUME NEW w \in {"num", "mr", "ebmr"}, NEW k, NEW f, Ask(w, k, f),
           w = "num" => k \in -1 .. (Height - 1), w = "mr" => k \in DOMAIN db.DB_MR,
           w = "ebmr" => k \in DOMAIN db.EB_MR /\ (f # "chainhead" => Timely(EOf(k)))
    PROVE  RequestIs' /\ AnswerIs'
<1>1. PICK r : r = [NoRequest EXCEPT !.pc = w, !.key = k, !.from = f]
  OBVIOUS
<1>2. r = request' /\ answer' = NoAnswer /\ UNCHANGED <<store, engine>>
  BY <1>1 DEF Ask, KeepInReads
<1>3. r = [pc |-> w, key |-> k, from |-> f, hash |-> Nil, block |-> Nil]
  BY <1>1 DEF NoRequest
<1>4. IsRecord(r, RFields) /\ r.pc = w /\ r.key = k /\ r.from = f
  BY <1>3 DEF IsRecord, RFields
<1>5. RequestFits(r)
  BY <1>4 DEF RequestFits, RFields
<1> QED BY <1>2, <1>5, ClientMoved, NoAnswerFits

\* The next read of a request.
GoneTo(r, w, h) == [r EXCEPT !.pc = w, !.hash = h]
Loaded(r, w, b) == [r EXCEPT !.pc = w, !.block = b]

LEMMA Went ==
    ASSUME RequestIs, NEW w, NEW h, NEW r, r = GoneTo(request, w, h)
    PROVE  /\ IsRecord(r, RFields) /\ r.pc = w /\ r.key = request.key /\ r.from = request.from
           /\ r.hash = h /\ r.block = request.block
<1>1. PICK q : q = request
  OBVIOUS
<1>2. DOMAIN q = RFields /\ q = [f \in RFields |-> q[f]]
  BY <1>1 DEF RequestIs, RequestFits, IsRecord, RFields
<1>3. r = GoneTo(q, w, h)
  BY <1>1
<1>4. /\ IsRecord(r, RFields) /\ r.pc = w /\ r.key = q.key /\ r.from = q.from
      /\ r.hash = h /\ r.block = q.block
  BY ONLY <1>2, <1>3 DEF IsRecord, RFields, GoneTo
<1> QED BY <1>1, <1>4

LEMMA WasLoaded ==
    ASSUME RequestIs, NEW w, NEW b, NEW r, r = Loaded(request, w, b)
    PROVE  /\ IsRecord(r, RFields) /\ r.pc = w /\ r.key = request.key /\ r.from = request.from
           /\ r.block = b
<1>1. PICK q : q = request
  OBVIOUS
<1>2. DOMAIN q = RFields /\ q = [f \in RFields |-> q[f]]
  BY <1>1 DEF RequestIs, RequestFits, IsRecord, RFields
<1>3. r = Loaded(q, w, b)
  BY <1>1
<1>4. IsRecord(r, RFields) /\ r.pc = w /\ r.key = q.key /\ r.from = q.from /\ r.block = b
  BY ONLY <1>2, <1>3 DEF IsRecord, RFields, Loaded
<1> QED BY <1>1, <1>4

LEMMA Replied ==
    ASSUME NEW kind, NEW key, NEW val, NEW list, Reply(kind, key, val, list), KeepInReads,
           NEW a, a = [kind |-> kind, key |-> key, from |-> request.from, val |-> val, list |-> list],
           AnswerFits(a)
    PROVE  RequestIs' /\ AnswerIs'
<1>1. answer' = a /\ request' = NoRequest /\ UNCHANGED <<store, engine>>
  BY DEF Reply, KeepInReads
<1> QED BY <1>1, ClientMoved, NoRequestFits

LEMMA NotFoundFits == ASSUME NotFound, KeepInReads, request.key = -1 PROVE RequestIs' /\ AnswerIs'
<1>1. PICK a : a = [kind |-> "notfound", key |-> request.key, from |-> request.from, val |-> Nil, list |-> <<>>]
  OBVIOUS
<1>2. a.kind = "notfound" /\ a.key = -1
  BY <1>1
<1>3. AnswerFits(a)
  BY <1>2 DEF AnswerFits
<1> QED BY <1>1, <1>3, Replied DEF NotFound

\* Where the keys of the last answer lead.
LEMMA KeysLead ==
    ASSUME Control, Ledgers, EntryChains, Listing, AnswerIs
    PROVE  /\ \A k \in DBlockKeys : k \in DOMAIN db.DB_MR
           /\ \A k \in EBlockKeys : /\ k \in DOMAIN db.EB_MR
                                    /\ answer.kind # "chainhead" => Timely(EOf(k))
           /\ \A k \in EntryKeys : k \in DOMAIN db.ENTRY
<1>1. PICK a : a = answer
  OBVIOUS
<1>2. AnswerFits(a)
  BY <1>1 DEF AnswerIs
<1>3. ASSUME NEW k \in DBlockKeys PROVE k \in DOMAIN db.DB_MR
  <2>1. CASE a.kind = "head"
    <3>1. k = a.key
      BY <1>1, <2>1 DEF DBlockKeys
    <3> QED BY <1>2, <2>1, <3>1 DEF AnswerFits
  <2>2. CASE a.kind = "dblock"
    <3>1. k = a.val.prevKeyMR /\ k # NewHash
      BY <1>1, <2>2 DEF DBlockKeys
    <3>2. a.key \in DOMAIN db.DB_MR /\ a.val = DOf(a.key)
      BY <1>2, <2>2 DEF AnswerFits
    <3> QED BY <3>1, <3>2, PrevDKey
  <2>3. CASE a.kind \notin {"head", "dblock"}
    BY <1>1, <2>3 DEF DBlockKeys
  <2> QED BY <2>1, <2>2, <2>3
<1>4. ASSUME NEW k \in EBlockKeys
      PROVE  k \in DOMAIN db.EB_MR /\ (a.kind # "chainhead" => Timely(EOf(k)))
  <2>1. CASE a.kind = "dblock"
    <3>1. k \in ListedEBlocks(a.val)
      BY <1>1, <2>1 DEF EBlockKeys
    <3>2. PICK b : b = a.val
      OBVIOUS
    <3>3. a.key \in DOMAIN db.DB_MR /\ b = DOf(a.key)
      BY <1>2, <2>1, <3>2 DEF AnswerFits
    <3>4. Lists(b) /\ b.height \in DOMAIN db.DB_NUM
      BY <3>3, DListed
    <3>5. ListedAt(k, b.height)
      BY <3>1, <3>2, <3>4 DEF ListedEBlocks, Lists, ListsEBlocks
    <3> QED BY <3>4, <3>5 DEF ListedAt, Timely, EOf
  <2>2. CASE a.kind = "eblock"
    <3>1. k = a.val.prevKeyMR /\ k # NewHash
      BY <1>1, <2>2 DEF EBlockKeys
    <3>2. a.key \in DOMAIN db.EB_MR /\ a.val = EOf(a.key)
      BY <1>2, <2>2 DEF AnswerFits
    <3> QED BY <3>1, <3>2, PrevEKey
  <2>3. CASE a.kind = "chainhead"
    <3>1. k = a.key
      BY <1>1, <2>3 DEF EBlockKeys
    <3> QED BY <1>2, <2>3, <3>1 DEF AnswerFits
  <2>4. CASE a.kind \notin {"dblock", "eblock", "chainhead"}
    BY <1>1, <2>4 DEF EBlockKeys
  <2> QED BY <2>1, <2>2, <2>3, <2>4
<1>5. ASSUME NEW k \in EntryKeys PROVE k \in DOMAIN db.ENTRY
  <2>1. a.kind = "eblock"
    BY <1>1 DEF EntryKeys
  <2>2. PICK l : l = a.list
    OBVIOUS
  <2>3. PICK i \in DOMAIN l : k = l[i].hash
    BY <1>1, <2>1, <2>2 DEF EntryKeys
  <2>4. a.key \in DOMAIN db.EB_MR /\ a.val = EOf(a.key) /\ \E t : l = TimedEntries(a.val.entries, t)
    BY <1>2, <2>1, <2>2 DEF AnswerFits, ListIs
  <2>5. PICK t : l = TimedEntries(EOf(a.key).entries, t)
    BY <2>4
  <2> QED BY <2>3, <2>4, <2>5, ListedEntry
<1> QED BY <1>1, <1>3, <1>4, <1>5

LEMMA DBlockHeadFits ==
    ASSUME Control, DBlockHead PROVE RequestIs' /\ AnswerIs'
<1>1. lastDirBlkHeight \in -1 .. (Height - 1)
  BY DEF Control
<1> QED BY <1>1, Asked DEF DBlockHead

LEMMA handleDirectoryBlockFits ==
    ASSUME Control, Ledgers, EntryChains, Listing, AnswerIs, handleDirectoryBlock
    PROVE  RequestIs' /\ AnswerIs'
<1>1. PICK k \in DBlockKeys : Ask("mr", k, "none")
  BY DEF handleDirectoryBlock
<1>2. k \in DOMAIN db.DB_MR
  BY KeysLead
<1> QED BY <1>1, <1>2, Asked

LEMMA handleEntryBlockFits ==
    ASSUME Control, Ledgers, EntryChains, Listing, AnswerIs, handleEntryBlock
    PROVE  RequestIs' /\ AnswerIs'
<1>1. PICK f : f = IF answer.kind = "chainhead" THEN "chainhead" ELSE "none"
  OBVIOUS
<1>2. PICK k \in EBlockKeys : Ask("ebmr", k, f)
  BY <1>1 DEF handleEntryBlock
<1>3. k \in DOMAIN db.EB_MR /\ (answer.kind # "chainhead" => Timely(EOf(k)))
  BY KeysLead
<1>4. f # "chainhead" => Timely(EOf(k))
  BY <1>1, <1>3
<1> QED BY <1>2, <1>3, <1>4, Asked

----------------------------------------------------------------------------
\* The reads of a request, one at a time.

LEMMA Unlocked ==
    ASSUME Control, MayRead PROVE DirCount = Height
BY DEF Control, MayRead, DirCount

LEMMA StoredDBlock ==
    ASSUME Ledgers, Listing, NEW k \in DOMAIN db.DB
    PROVE  \E b, r : /\ b = FetchDBlockByHash(db, k) /\ b # Nil /\ r = BuildKeyMerkleRoot(b)
                     /\ r \in DOMAIN db.DB_MR
<1>1. DChain(db.DB, db.DB_NUM, db.DB_MR, DirCount)
  BY DEF Ledgers, Directories
<1>2. PICK h \in 0 .. (DirCount - 1) : k = db.DB_NUM[h]
  BY <1>1 DEF DChain
<1>3. PICK b : b = DAt(db.DB, db.DB_NUM, h)
  OBVIOUS
<1>4. FetchDBlockByHash(db, k) = b /\ b # Nil
  BY <1>1, <1>2, <1>3, DFetched
<1> QED BY <1>3, <1>4, DKeyOf

LEMMA DHashOf ==
    ASSUME Ledgers, NEW h \in DOMAIN db.DB_NUM
    PROVE  /\ FetchDBHashByHeight(db, h) = db.DB_NUM[h] /\ db.DB_NUM[h] # Nil
           /\ db.DB_NUM[h] \in DOMAIN db.DB /\ h \in 0 .. (DirCount - 1)
           /\ FetchDBlockByHash(db, db.DB_NUM[h]) = DAt(db.DB, db.DB_NUM, h)
<1>1. DChain(db.DB, db.DB_NUM, db.DB_MR, DirCount)
  BY DEF Ledgers, Directories
<1>2. h \in 0 .. (DirCount - 1) /\ db.DB_NUM[h] \in DOMAIN db.DB
  BY <1>1 DEF DChain
<1> QED BY <1>1, <1>2, DFetched

LEMMA ReadDBHashByHeightFits ==
    ASSUME Control, Ledgers, RequestIs, AnswerIs, ReadDBHashByHeight PROVE RequestIs' /\ AnswerIs'
<1>1. PICK h, x : h = request.key /\ x = FetchDBHashByHeight(db, h)
  OBVIOUS
<1>2. /\ request.pc = "num" /\ MayRead /\ KeepInReads
      /\ IF x = Nil THEN NotFound ELSE Goto("headblock", x)
  BY <1>1 DEF ReadDBHashByHeight, At
<1>3. h \in -1 .. (Height - 1) /\ DirCount = Height /\ Height \in Nat
  BY <1>1, <1>2, Unlocked DEF RequestIs, RequestFits, Control
<1>4. DOMAIN db.DB_NUM = 0 .. (DirCount - 1)
  BY DEF Ledgers, Directories, DChain
<1>5. CASE h = -1
  <2>1. x = Nil
    BY <1>1, <1>3, <1>4, <1>5 DEF FetchDBHashByHeight, Get
  <2> QED BY <1>1, <1>2, <1>5, <2>1, NotFoundFits
<1>6. CASE h # -1
  <2>1. h \in DOMAIN db.DB_NUM
    BY <1>3, <1>4, <1>6
  <2>2. x # Nil /\ x \in DOMAIN db.DB
    BY <1>1, <2>1, DHashOf
  <2>3. PICK r : r = GoneTo(request, "headblock", x)
    OBVIOUS
  <2>4. IsRecord(r, RFields) /\ r.pc = "headblock" /\ r.hash = x
    BY <2>3, Went
  <2>5. RequestFits(r)
    BY <2>2, <2>4 DEF RequestFits, RFields
  <2>6. request' = r /\ answer' = answer /\ UNCHANGED <<store, engine>>
    BY <1>2, <2>2, <2>3 DEF Goto, GoneTo, KeepInReads
  <2> QED BY <2>5, <2>6, ClientMoved DEF AnswerIs
<1> QED BY <1>5, <1>6

LEMMA ReadHeadBlockFits ==
    ASSUME Ledgers, Listing, RequestIs, ReadHeadBlock PROVE RequestIs' /\ AnswerIs'
<1>1. PICK k : k = request.hash
  OBVIOUS
<1>2. request.pc = "headblock" /\ KeepInReads
  BY DEF ReadHeadBlock, At
<1>3. k \in DOMAIN db.DB
  BY <1>1, <1>2 DEF RequestIs, RequestFits
<1>4. PICK b, r : /\ b = FetchDBlockByHash(db, k) /\ b # Nil /\ r = BuildKeyMerkleRoot(b)
                  /\ r \in DOMAIN db.DB_MR
  BY <1>3, StoredDBlock
<1>5. Reply("head", r, b.height, <<>>)
  BY <1>1, <1>4 DEF ReadHeadBlock
<1>6. PICK a : a = [kind |-> "head", key |-> r, from |-> request.from, val |-> b.height, list |-> <<>>]
  OBVIOUS
<1>7. a.kind = "head" /\ a.key = r
  BY <1>6
<1>8. AnswerFits(a)
  BY <1>4, <1>7 DEF AnswerFits
<1> QED BY <1>2, <1>5, <1>6, <1>8, Replied

LEMMA ReadDBHashByMRFits ==
    ASSUME Ledgers, Listing, RequestIs, AnswerIs, ReadDBHashByMR PROVE RequestIs' /\ AnswerIs'
<1>1. PICK k, x : k = request.key /\ x = FetchDBHashByMR(db, k)
  OBVIOUS
<1>2. request.pc = "mr" /\ KeepInReads /\ IF x = Nil THEN NotFound ELSE Goto("dblock", x)
  BY <1>1 DEF ReadDBHashByMR, At
<1>3. k \in DOMAIN db.DB_MR
  BY <1>1, <1>2 DEF RequestIs, RequestFits
<1>4. x = db.DB_MR[k] /\ x # Nil
  BY <1>1, <1>3, DListed
<1>5. PICK r : r = GoneTo(request, "dblock", x)
  OBVIOUS
<1>6. IsRecord(r, RFields) /\ r.pc = "dblock" /\ r.hash = x /\ r.key = k
  BY <1>1, <1>5, Went
<1>7. RequestFits(r)
  BY <1>3, <1>4, <1>6 DEF RequestFits, RFields
<1>8. request' = r /\ answer' = answer /\ UNCHANGED <<store, engine>>
  BY <1>2, <1>4, <1>5 DEF Goto, GoneTo, KeepInReads
<1> QED BY <1>7, <1>8, ClientMoved DEF AnswerIs

LEMMA ReadDBlockFits ==
    ASSUME Ledgers, Listing, RequestIs, ReadDBlock PROVE RequestIs' /\ AnswerIs'
<1>1. PICK k, b : k = request.key /\ b = DOf(k)
  OBVIOUS
<1>2. request.pc = "dblock" /\ KeepInReads
  BY DEF ReadDBlock, At
<1>3. k \in DOMAIN db.DB_MR /\ request.hash = db.DB_MR[k]
  BY <1>1, <1>2 DEF RequestIs, RequestFits
<1>4. FetchDBlockByHash(db, request.hash) = b /\ b # Nil
  BY <1>1, <1>3, DListed
<1>5. Reply("dblock", k, b, <<>>)
  BY <1>1, <1>4 DEF ReadDBlock
<1>6. PICK a : a = [kind |-> "dblock", key |-> k, from |-> request.from, val |-> b, list |-> <<>>]
  OBVIOUS
<1>7. a.kind = "dblock" /\ a.key = k /\ a.val = b
  BY <1>6
<1>8. AnswerFits(a)
  BY <1>1, <1>3, <1>7 DEF AnswerFits
<1> QED BY <1>2, <1>5, <1>6, <1>8, Replied

LEMMA ReadEBHashByMRFits ==
    ASSUME EntryChains, RequestIs, AnswerIs, ReadEBHashByMR PROVE RequestIs' /\ AnswerIs'
<1>1. PICK k, x, f : k = request.key /\ x = FetchEBHashByMR(db, k) /\ f = request.from
  OBVIOUS
<1>2. request.pc = "ebmr" /\ KeepInReads /\ IF x = Nil THEN NotFound ELSE Goto("eblock", x)
  BY <1>1 DEF ReadEBHashByMR, At
<1>3. k \in DOMAIN db.EB_MR /\ (f # "chainhead" => Timely(EOf(k)))
  BY <1>1, <1>2 DEF RequestIs, RequestFits
<1>4. x = db.EB_MR[k] /\ x # Nil
  BY <1>1, <1>3, EKeyIs
<1>5. PICK r : r = GoneTo(request, "eblock", x)
  OBVIOUS
<1>6. IsRecord(r, RFields) /\ r.pc = "eblock" /\ r.hash = x /\ r.key = k /\ r.from = f
  BY <1>1, <1>5, Went
<1>7. RequestFits(r)
  BY <1>3, <1>4, <1>6 DEF RequestFits, RFields
<1>8. request' = r /\ answer' = answer /\ UNCHANGED <<store, engine>>
  BY <1>2, <1>4, <1>5 DEF Goto, GoneTo, KeepInReads
<1> QED BY <1>7, <1>8, ClientMoved DEF AnswerIs

LEMMA ReadEBlockFits ==
    ASSUME EntryChains, RequestIs, AnswerIs, ReadEBlock PROVE RequestIs' /\ AnswerIs'
<1>1. PICK k, b, f : k = request.key /\ b = EOf(k) /\ f = request.from
  OBVIOUS
<1>2. request.pc = "eblock" /\ KeepInReads
  BY DEF ReadEBlock, At
<1>3. k \in DOMAIN db.EB_MR /\ (f # "chainhead" => Timely(EOf(k))) /\ request.hash = db.EB_MR[k]
  BY <1>1, <1>2 DEF RequestIs, RequestFits
<1>4. FetchEBlockByHash(db, request.hash) = b /\ b # Nil
  BY <1>1, <1>3, EKeyIs
<1>5. PICK r : r = Loaded(request, "ebnum", b)
  OBVIOUS
<1>6. IsRecord(r, RFields) /\ r.pc = "ebnum" /\ r.block = b /\ r.key = k /\ r.from = f
  BY <1>1, <1>5, WasLoaded
<1>7. RequestFits(r)
  BY <1>1, <1>3, <1>6 DEF RequestFits, RFields
<1>8. request' = r /\ answer' = answer
  BY <1>4, <1>5 DEF ReadEBlock, Loaded
<1>9. UNCHANGED <<store, engine>>
  BY <1>2 DEF KeepInReads
<1> QED BY <1>7, <1>8, <1>9, ClientMoved DEF AnswerIs

LEMMA EBlockReplied ==
    ASSUME KeepInReads, NEW k \in DOMAIN db.EB_MR, k = request.key, request.block = EOf(k), NEW t,
           ReplyEBlock(t),
           request.from # "chainhead" => Timely(EOf(k)) /\ t = Timestamp(EOf(k).height)
    PROVE  RequestIs' /\ AnswerIs'
<1>1. PICK b, f, l : b = EOf(k) /\ f = request.from /\ l = TimedEntries(b.entries, t)
  OBVIOUS
<1>2. Reply("eblock", k, b, l)
  BY <1>1 DEF ReplyEBlock
<1>3. PICK a : a = [kind |-> "eblock", key |-> k, from |-> request.from, val |-> b, list |-> l]
  OBVIOUS
<1>4. a.kind = "eblock" /\ a.key = k /\ a.val = b /\ a.list = l /\ a.from = f
  BY <1>1, <1>3
<1>5. ListIs(l, b, f)
  BY <1>1 DEF ListIs
<1>6. AnswerFits(a)
  BY <1>1, <1>4, <1>5 DEF AnswerFits
<1> QED BY <1>2, <1>3, <1>6, Replied

LEMMA ReadDBHashForTimeFits ==
    ASSUME Ledgers, EntryChains, RequestIs, AnswerIs, ReadDBHashForTime PROVE RequestIs' /\ AnswerIs'
<1>1. PICK k, b, f, x : k = request.key /\ b = EOf(k) /\ f = request.from
                        /\ x = FetchDBHashByHeight(db, b.height)
  OBVIOUS
<1>2. request.pc = "ebnum" /\ KeepInReads
  BY DEF ReadDBHashForTime, At
<1>3. k \in DOMAIN db.EB_MR /\ (f # "chainhead" => Timely(b)) /\ request.block = b
  BY <1>1, <1>2 DEF RequestIs, RequestFits
<1>4. IF x = Nil THEN ReplyEBlock(0) ELSE Goto("ebtime", x)
  BY <1>1, <1>3 DEF ReadDBHashForTime
<1>5. CASE Timely(b)
  <2>1. x = db.DB_NUM[b.height] /\ x # Nil
    BY <1>1, <1>5, DHashOf DEF Timely
  <2>2. PICK r : r = GoneTo(request, "ebtime", x)
    OBVIOUS
  <2>3. IsRecord(r, RFields) /\ r.pc = "ebtime" /\ r.hash = x /\ r.key = k /\ r.from = f /\ r.block = b
    BY <1>1, <1>3, <2>2, Went
  <2>4. RequestFits(r)
    BY <1>1, <1>3, <1>5, <2>1, <2>3 DEF RequestFits, RFields
  <2>5. request' = r /\ answer' = answer /\ UNCHANGED <<store, engine>>
    BY <1>2, <1>4, <2>1, <2>2 DEF Goto, GoneTo, KeepInReads
  <2> QED BY <2>4, <2>5, ClientMoved DEF AnswerIs
<1>6. CASE ~Timely(b)
  <2>1. x = Nil /\ f = "chainhead"
    BY <1>1, <1>3, <1>6 DEF Timely, FetchDBHashByHeight, Get
  <2> QED BY <1>1, <1>2, <1>3, <1>4, <2>1, EBlockReplied
<1> QED BY <1>5, <1>6

LEMMA ReadDBlockForTimeFits ==
    ASSUME Ledgers, Listing, EntryChains, RequestIs, ReadDBlockForTime PROVE RequestIs' /\ AnswerIs'
<1>1. PICK k, b, t : k = request.key /\ b = EOf(k) /\ t = FetchDBlockByHash(db, request.hash).timestamp
  OBVIOUS
<1>2. request.pc = "ebtime" /\ KeepInReads /\ ReplyEBlock(t)
  BY <1>1 DEF ReadDBlockForTime, At
<1>3. k \in DOMAIN db.EB_MR /\ Timely(b) /\ request.block = b /\ request.hash = db.DB_NUM[b.height]
  BY <1>1, <1>2 DEF RequestIs, RequestFits
<1>4. PICK h \in 0 .. (DirCount - 1) : h = b.height
  BY <1>3, DHashOf DEF Timely
<1>5. PICK d : d = DAt(db.DB, db.DB_NUM, h)
  OBVIOUS
<1>6. FetchDBlockByHash(db, request.hash) = d
  BY <1>3, <1>4, <1>5, DHashOf DEF Timely
<1>7. d.height = h /\ Lists(d)
  <2>1. DChain(db.DB, db.DB_NUM, db.DB_MR, DirCount)
    BY DEF Ledgers, Directories
  <2> QED BY <1>5, <2>1, DFetched DEF Listing, StoredLists
<1>8. t = Timestamp(h)
  BY <1>1, <1>6, <1>7 DEF Lists
<1> QED BY <1>1, <1>2, <1>3, <1>4, <1>8, EBlockReplied

LEMMA ReadsFit ==
    ASSUME Control, Ledgers, EntryChains, Listing, RequestIs, AnswerIs, Reads
    PROVE  RequestIs' /\ AnswerIs'
BY ReadDBHashByHeightFits, ReadHeadBlockFits, ReadDBHashByMRFits, ReadDBlockFits, ReadEBHashByMRFits,
   ReadEBlockFits, ReadDBHashForTimeFits, ReadDBlockForTimeFits DEF Reads

----------------------------------------------------------------------------
\* Requests that are answered by a single read.

LEMMA OneReadFits ==
    ASSUME RequestIs, NEW kind, NEW key, NEW val, OneRead(kind, key, val), val # Nil,
           NEW a, a = [kind |-> kind, key |-> key, from |-> "none", val |-> val, list |-> <<>>],
           AnswerFits(a)
    PROVE  RequestIs' /\ AnswerIs'
<1>1. answer' = a /\ request' = request /\ UNCHANGED <<store, engine>>
  BY DEF OneRead, KeepInReads
<1> QED BY <1>1, ClientMoved DEF RequestIs

LEMMA EntryFetched ==
    ASSUME Tabled, NEW k \in DOMAIN db.ENTRY
    PROVE  /\ FetchEntryByHash(db, k) # Nil /\ HasKey("entry", FetchEntryByHash(db, k), k)
<1>1. PICK c \in Chains, x \in Contents :
        k = EntryHash(Entry(c, x)) /\ db.ENTRY[k] = MarshalEntry(Entry(c, x))
  BY DEF Tabled, EntryRow
<1>2. PICK d, e : d = MarshalEntry(Entry(c, x)) /\ e = Entry(c, x)
  OBVIOUS
<1>3. d # Nil
  BY <1>2, PostedEntryReadsBack
<1>4. e # Nil
  BY <1>2 DEF Entry, Nil
<1>5. UnmarshalEntry(d) = e
  BY <1>2, PostedEntryReadsBack
<1>6. FetchEntryByHash(db, k) = e
  BY <1>1, <1>2, <1>3, <1>5 DEF FetchEntryByHash, Get, Parsed
<1> QED BY <1>1, <1>2, <1>4, <1>6 DEF HasKey

LEMMA handleEntryFits ==
    ASSUME Control, Tabled, Ledgers, EntryChains, Listing, RequestIs, AnswerIs, handleEntry
    PROVE  RequestIs' /\ AnswerIs'
<1>1. PICK k \in EntryKeys : OneRead("entry", k, FetchEntryByHash(db, k))
  BY DEF handleEntry
<1>2. k \in DOMAIN db.ENTRY
  BY KeysLead
<1>3. PICK v : v = FetchEntryByHash(db, k)
  OBVIOUS
<1>4. v # Nil /\ HasKey("entry", v, k)
  BY <1>2, <1>3, EntryFetched
<1>5. PICK a : a = [kind |-> "entry", key |-> k, from |-> "none", val |-> v, list |-> <<>>]
  OBVIOUS
<1>6. a.kind = "entry" /\ a.key = k /\ a.val = v
  BY <1>5
<1>7. AnswerFits(a)
  BY <1>4, <1>6 DEF AnswerFits
<1> QED BY <1>1, <1>3, <1>4, <1>5, <1>7, OneReadFits

LEMMA handleChainHeadFits ==
    ASSUME EntryChains, RequestIs, AnswerIs, handleChainHead PROVE RequestIs' /\ AnswerIs'
<1>1. PICK c \in Chains : LET mr == FetchHeadMRByChainID(db, Chain(c))
                          IN  mr # Nil /\ OneRead("chainhead", mr, mr)
  BY DEF handleChainHead
<1>2. PICK k : k = FetchHeadMRByChainID(db, Chain(c))
  OBVIOUS
<1>3. k # Nil /\ OneRead("chainhead", k, k)
  BY <1>1, <1>2
<1>4. k \in DOMAIN db.EB_MR
  BY <1>2, <1>3 DEF FetchHeadMRByChainID, Get, EntryChains, StoredChains, HeadsStored
<1>5. PICK a : a = [kind |-> "chainhead", key |-> k, from |-> "none", val |-> k, list |-> <<>>]
  OBVIOUS
<1>6. a.kind = "chainhead" /\ a.key = k
  BY <1>5
<1>7. AnswerFits(a)
  BY <1>4, <1>6 DEF AnswerFits
<1> QED BY <1>3, <1>5, <1>7, OneReadFits

----------------------------------------------------------------------------
\* Whatever handleGetRaw finds under a key has this key, and it finds something.

RawFetch(k) ==
    <<<<"fblock", FetchFBlockByHash(db, k)>>,
      <<"dblock", FetchDBlockByHash(db, k)>>,
      <<"ablock", FetchABlockByHash(db, k)>>,
      <<"dblock", FetchDBlockByHash(db, FetchDBHashByMR(db, k))>>,
      <<"eblock", FetchEBlockByHash(db, k)>>,
      <<"eblock", FetchEBlockByHash(db, FetchEBHashByMR(db, k))>>,
      <<"ecblock", FetchECBlockByHash(db, k)>>,
      <<"entry", FetchEntryByHash(db, k)>>>>

LEMMA RawIs ==
    ASSUME NEW k, NEW i \in 1 .. 8, RawFetch(k)[i][2] # Nil
    PROVE  \E j \in 1 .. 8 : RawBlock(k) = RawFetch(k)[j] /\ RawFetch(k)[j][2] # Nil
<1>1. PICK f : f = RawFetch(k)
  OBVIOUS
<1>2. DOMAIN f = 1 .. 8
  BY <1>1 DEF RawFetch
<1>3. PICK S : S = {j \in DOMAIN f : f[j][2] # Nil}
  OBVIOUS
<1>4. S \subseteq Nat /\ S # {}
  BY <1>1, <1>2, <1>3
<1>5. \E j \in S : \A l \in S : j <= l
  BY <1>4, Smallest
<1>6. PICK j \in S : j = CHOOSE i_ \in S : \A l \in S : i_ <= l
  BY <1>5
<1>7. RawBlock(k) = IF S = {} THEN Nil ELSE f[CHOOSE i_ \in S : \A l \in S : i_ <= l]
  BY <1>1, <1>3 DEF RawBlock, RawFetch
<1>8. RawBlock(k) = f[j]
  BY <1>4, <1>6, <1>7
<1> QED BY <1>1, <1>2, <1>3, <1>8

LEMMA DRowFound ==
    ASSUME Ledgers, NEW k, FetchDBlockByHash(db, k) # Nil, NEW b, b = FetchDBlockByHash(db, k)
    PROVE  HasKey("dblock", b, k) /\ k \in DOMAIN db.DB
<1>1. DChain(db.DB, db.DB_NUM, db.DB_MR, DirCount)
  BY DEF Ledgers, Directories
<1>2. k \in DOMAIN db.DB
  BY DEF FetchDBlockByHash, Get, Parsed
<1>3. PICK h \in 0 .. (DirCount - 1) : k = db.DB_NUM[h]
  BY <1>1, <1>2 DEF DChain
<1>4. IsSealed(b) /\ k = DBlockHash(b)
  BY <1>1, <1>3, DFetched
<1> QED BY <1>2, <1>4 DEF IsSealed, HasKey

LEMMA RawHasKey ==
    ASSUME Tabled, Ledgers, EntryChains, NEW k, NEW f, f = RawFetch(k), NEW j \in 1 .. 8, f[j][2] # Nil
    PROVE  HasKey(f[j][1], f[j][2], k)
<1>0. /\ FChain(db.SC, db.SC_NUM, FctCount) /\ AChain(db.AB, db.AB_NUM, AdmCount)
      /\ ECChain(db.CB, db.CB_NUM, EcCount) /\ ETables(db.EB, db.EB_MR)
  BY DEF Ledgers, Factoids, Admins, Credits, EntryChains, StoredChains
<1>1. CASE j = 1
  <2>1. PICK v : v = FetchFBlockByHash(db, k)
    OBVIOUS
  <2>2. f[j][1] = "fblock" /\ f[j][2] = v
    BY <1>1, <2>1 DEF RawFetch
  <2>3. k \in DOMAIN db.SC
    BY <2>1, <2>2 DEF FetchFBlockByHash, Get
  <2>4. PICK h \in 0 .. (FctCount - 1) : k = db.SC_NUM[h]
    BY <1>0, <2>3 DEF FChain
  <2>5. k = FBlockHash(v)
    <3>1. /\ FetchFBlockByHash(db, db.SC_NUM[h]) = db.SC[db.SC_NUM[h]]
          /\ db.SC_NUM[h] = FBlockHash(db.SC[db.SC_NUM[h]])
      BY <1>0, FFetched
    <3> QED BY <2>1, <2>4, <3>1
  <2> QED BY <2>2, <2>5 DEF HasKey
<1>2. CASE j = 2
  <2>1. PICK v : v = FetchDBlockByHash(db, k)
    OBVIOUS
  <2>2. f[j][1] = "dblock" /\ f[j][2] = v
    BY <1>2, <2>1 DEF RawFetch
  <2> QED BY <2>1, <2>2, DRowFound
<1>3. CASE j = 3
  <2>1. PICK v : v = FetchABlockByHash(db, k)
    OBVIOUS
  <2>2. f[j][1] = "ablock" /\ f[j][2] = v
    BY <1>3, <2>1 DEF RawFetch
  <2>3. k \in DOMAIN db.AB
    BY <2>1, <2>2 DEF FetchABlockByHash, Get, Parsed
  <2>4. PICK h \in 0 .. (AdmCount - 1) : k = db.AB_NUM[h]
    BY <1>0, <2>3 DEF AChain
  <2>5. v = UnmarshalABlock(db.AB[k]) /\ ARowIs(db.AB, k, h)
    BY <1>0, <2>1, <2>4, AFetched
  <2>6. k = Sha("ablock", MarshalABlock(v))
    BY <2>5 DEF ARowIs
  <2> QED BY <2>2, <2>6 DEF HasKey
<1>4. CASE j = 4
  <2>1. PICK x, v : x = FetchDBHashByMR(db, k) /\ v = FetchDBlockByHash(db, x)
    OBVIOUS
  <2>2. f[j][1] = "dblock" /\ f[j][2] = v
    BY <1>4, <2>1 DEF RawFetch
  <2>3. HasKey("dblock", v, x) /\ x \in DOMAIN db.DB
    BY <2>1, <2>2, DRowFound
  <2>4. x # Nil
    <3>1. PICK h \in 0 .. (DirCount - 1) : x = db.DB_NUM[h]
      BY <2>3 DEF Ledgers, Directories, DChain
    <3> QED BY <3>1, DFetched DEF Ledgers, Directories
  <2>5. k \in DOMAIN db.DB_MR /\ x = db.DB_MR[k]
    BY <2>1, <2>4 DEF FetchDBHashByMR, Get
  <2>6. k = BuildKeyMerkleRoot(DOf(k)) /\ v = DOf(k)
    <3>1. PICK h \in 0 .. (DirCount - 1) : /\ db.DB_MR[k] = db.DB_NUM[h]
                                           /\ DOf(k) = DAt(db.DB, db.DB_NUM, h)
                                           /\ BuildKeyMerkleRoot(DOf(k)) = k
      BY <2>5, DKeyIs
    <3> QED BY <2>1, <2>5, <3>1, DFetched DEF Ledgers, Directories
  <2> QED BY <2>2, <2>3, <2>6 DEF HasKey
<1>5. CASE j = 5
  <2>1. PICK v : v = FetchEBlockByHash(db, k)
    OBVIOUS
  <2>2. f[j][1] = "eblock" /\ f[j][2] = v
    BY <1>5, <2>1 DEF RawFetch
  <2>3. k \in DOMAIN db.EB
    BY <2>1, <2>2 DEF FetchEBlockByHash, Get, Parsed
  <2>4. v = EAt(db.EB, k)
    BY <1>0, <2>1, <2>3, EFetched
  <2>5. k = EBlockHash(v) /\ v = BuildEBlockHeader(v)
    BY <1>0, <2>3, <2>4 DEF ETables, ERowIs
  <2> QED BY <2>2, <2>5 DEF HasKey
<1>6. CASE j = 6
  <2>1. PICK x, v : x = FetchEBHashByMR(db, k) /\ v = FetchEBlockByHash(db, x)
    OBVIOUS
  <2>2. f[j][1] = "eblock" /\ f[j][2] = v
    BY <1>6, <2>1 DEF RawFetch
  <2>3. x \in DOMAIN db.EB
    BY <2>1, <2>2 DEF FetchEBlockByHash, Get, Parsed
  <2>4. x # Nil
    BY <1>0, <2>3 DEF ETables, ERowIs, EBlockHash, Sha, Nil
  <2>5. k \in DOMAIN db.EB_MR /\ x = db.EB_MR[k]
    BY <2>1, <2>4 DEF FetchEBHashByMR, Get
  <2>6. EBlockKeyMR(v) = k /\ v = BuildEBlockHeader(v)
    <3>1. /\ FetchEBlockByHash(db, db.EB_MR[k]) = EOf(k) /\ EBlockKeyMR(EOf(k)) = k
          /\ EOf(k) = BuildEBlockHeader(EOf(k))
      BY <2>5, EKeyIs
    <3> QED BY <2>1, <2>5, <3>1
  <2> QED BY <2>2, <2>6 DEF HasKey
<1>7. CASE j = 7
  <2>1. PICK v : v = FetchECBlockByHash(db, k)
    OBVIOUS
  <2>2. f[j][1] = "ecblock" /\ f[j][2] = v
    BY <1>7, <2>1 DEF RawFetch
  <2>3. k \in DOMAIN db.CB
    BY <2>1, <2>2 DEF FetchECBlockByHash, Get, Parsed
  <2>4. PICK h \in 0 .. (EcCount - 1) : k = db.CB_NUM[h]
    BY <1>0, <2>3 DEF ECChain
  <2>5. v = UnmarshalECBlock(db.CB[k]) /\ ECRowIs(db.CB, k, h)
    BY <1>0, <2>1, <2>4, ECFetched
  <2>6. k = HeaderHash(v) /\ v = BuildECBlockHeader(v)
    BY <2>5 DEF ECRowIs
  <2> QED BY <2>2, <2>6 DEF HasKey
<1>8. CASE j = 8
  <2>1. PICK v : v = FetchEntryByHash(db, k)
    OBVIOUS
  <2>2. f[j][1] = "entry" /\ f[j][2] = v
    BY <1>8, <2>1 DEF RawFetch
  <2>3. k \in DOMAIN db.ENTRY
    BY <2>1, <2>2 DEF FetchEntryByHash, Get, Parsed
  <2> QED BY <2>1, <2>2, <2>3, EntryFetched
<1> QED BY <1>1, <1>2, <1>3, <1>4, <1>5, <1>6, <1>7, <1>8

LEMMA RawFound ==
    ASSUME Control, Tabled, Ledgers, EntryChains, Listing, AnswerIs, NEW k \in RawKeys
    PROVE  \E i \in 1 .. 8 : RawFetch(k)[i][2] # Nil
<1>0. /\ FChain(db.SC, db.SC_NUM, FctCount) /\ AChain(db.AB, db.AB_NUM, AdmCount)
      /\ ECChain(db.CB, db.CB_NUM, EcCount) /\ AnswerFits(answer)
  BY DEF Ledgers, Factoids, Admins, Credits, AnswerIs
<1>1. CASE answer.kind = "head"
  <2>1. k = answer.key /\ k \in DOMAIN db.DB_MR
    BY <1>0, <1>1 DEF RawKeys, AnswerFits
  <2>2. FetchDBlockByHash(db, FetchDBHashByMR(db, k)) # Nil
    BY <2>1, DListed
  <2>3. RawFetch(k)[4][2] # Nil
    BY <2>2 DEF RawFetch
  <2> QED BY <2>3
<1>2. CASE answer.kind = "dblock"
  <2>1. PICK b : b = answer.val
    OBVIOUS
  <2>2. PICK i \in DOMAIN b.entries : k = b.entries[i].keyMR
    BY <1>2, <2>1 DEF RawKeys
  <2>3. answer.key \in DOMAIN db.DB_MR /\ b = DOf(answer.key)
    BY <1>0, <1>2, <2>1 DEF AnswerFits
  <2>4. Lists(b) /\ IsSealed(b) /\ b.height \in 0 .. (DirCount - 1)
    BY <2>3, DListed
  <2>5. i \in 1 .. Len(b.entries) /\ Len(b.entries) \in Nat
    BY <2>2, <2>4 DEF IsSealed, IsDBlock
  <2>6. /\ b.height \in 0 .. (AdmCount - 1) /\ b.height \in 0 .. (EcCount - 1)
        /\ b.height \in 0 .. (FctCount - 1)
    BY <2>4 DEF AdmCount, EcCount, FctCount, DirCount, Control
  <2>7. CASE i = 1
    <3>1. k = db.AB_NUM[b.height]
      BY <2>2, <2>4, <2>7 DEF Lists
    <3>2. FetchABlockByHash(db, k) # Nil
      BY <1>0, <2>6, <3>1, AFetched
    <3>3. RawFetch(k)[3][2] # Nil
      BY <3>2 DEF RawFetch
    <3> QED BY <3>3
  <2>8. CASE i = 2
    <3>1. k = db.CB_NUM[b.height]
      BY <2>2, <2>4, <2>8 DEF Lists
    <3>2. FetchECBlockByHash(db, k) # Nil
      BY <1>0, <2>6, <3>1, ECFetched
    <3>3. RawFetch(k)[7][2] # Nil
      BY <3>2 DEF RawFetch
    <3> QED BY <3>3
  <2>9. CASE i = 3
    <3>1. k = db.SC_NUM[b.height]
      BY <2>2, <2>4, <2>9 DEF Lists
    <3>2. FetchFBlockByHash(db, k) # Nil
      BY <1>0, <2>6, <3>1, FFetched
    <3>3. RawFetch(k)[1][2] # Nil
      BY <3>2 DEF RawFetch
    <3> QED BY <3>3
  <2>10. CASE i \notin {1, 2, 3}
    <3>1. i \in 4 .. Len(b.entries)
      BY <2>5, <2>10
    <3>2. k \in DOMAIN db.EB_MR
      BY <2>2, <2>4, <3>1 DEF Lists, ListsEBlocks, ListedAt
    <3>3. FetchEBlockByHash(db, FetchEBHashByMR(db, k)) # Nil
      BY <3>2, EKeyIs
    <3>4. RawFetch(k)[6][2] # Nil
      BY <3>3 DEF RawFetch
    <3> QED BY <3>4
  <2> QED BY <2>7, <2>8, <2>9, <2>10
<1>3. CASE answer.kind = "eblock"
  <2>1. k \in DOMAIN db.ENTRY
    BY <1>3, KeysLead DEF RawKeys
  <2>2. FetchEntryByHash(db, k) # Nil
    BY <2>1, EntryFetched
  <2>3. RawFetch(k)[8][2] # Nil
    BY <2>2 DEF RawFetch
  <2> QED BY <2>3
<1>4. CASE answer.kind \notin {"head", "dblock", "eblock"}
  BY <1>4 DEF RawKeys
<1> QED BY <1>1, <1>2, <1>3, <1>4

LEMMA handleGetRawFits ==
    ASSUME Control, Tabled, Ledgers, EntryChains, Listing, RequestIs, AnswerIs, handleGetRaw
    PROVE  RequestIs' /\ AnswerIs'
<1>1. PICK k \in RawKeys : OneRead("raw", k, RawBlock(k))
  BY DEF handleGetRaw
<1>2. PICK i \in 1 .. 8 : RawFetch(k)[i][2] # Nil
  BY RawFound
<1>3. PICK f : f = RawFetch(k)
  OBVIOUS
<1>4. PICK j \in 1 .. 8 : RawBlock(k) = f[j] /\ f[j][2] # Nil
  BY <1>2, <1>3, RawIs
<1>5. HasKey(f[j][1], f[j][2], k)
  BY <1>3, <1>4, RawHasKey
<1>6. PICK v : v = f[j]
  OBVIOUS
<1>7. v # Nil
  BY <1>3, <1>6 DEF RawFetch, Nil
<1>8. PICK a : a = [kind |-> "raw", key |-> k, from |-> "none", val |-> v, list |-> <<>>]
  OBVIOUS
<1>9. a.kind = "raw" /\ a.key = k /\ a.val = v
  BY <1>8
<1>10. AnswerFits(a)
  BY <1>5, <1>6, <1>9 DEF AnswerFits
<1>11. OneRead("raw", k, v)
  BY <1>1, <1>4, <1>6
<1> QED BY <1>7, <1>8, <1>10, <1>11, OneReadFits

LEMMA RequestsFit ==
    ASSUME Control, Tabled, Ledgers, EntryChains, Listing, RequestIs, AnswerIs, Requests
    PROVE  RequestIs' /\ AnswerIs'
BY DBlockHeadFits, handleDirectoryBlockFits, handleEntryBlockFits, handleEntryFits, handleChainHeadFits,
   handleGetRawFits DEF Requests

----------------------------------------------------------------------------
\* What holds for the request in work and for the last answer.

LEMMA InitServed == ASSUME Init PROVE RequestIs /\ AnswerIs
BY NoRequestFits, NoAnswerFits DEF Init, RequestIs, AnswerIs

LEMMA NextServed ==
    ASSUME Engine, Engine', Ledgers, EntryChains, Listing, RequestIs, AnswerIs, [Next]_vars
    PROVE  RequestIs' /\ AnswerIs'
<1>1. Control /\ Tabled /\ StoreGrows /\ Height' \in Nat
  BY NextGrows DEF Engine, Control
<1>2. CASE Requests
  BY <1>1, <1>2, RequestsFit
<1>3. CASE Reads
  BY <1>1, <1>3, ReadsFit
<1>4. CASE UNCHANGED answer
  <2>1. AnswerIs'
    BY <1>1, <1>4, AnswerKept
  <2>2. CASE UNCHANGED request
    BY <1>1, <2>1, <2>2, RequestKept
  <2>3. CASE request' = NoRequest
    BY <2>1, <2>3, NoRequestIs
  <2>4. CASE Requests \/ Reads
    BY <1>2, <1>3, <2>4
  <2>5. request' = request \/ request' = NoRequest \/ Requests \/ Reads
    BY DEF Next, Start, Restart, EndOfMinute, Build, Post, buildFromProcessList, newEntryCreditBlock,
        newAdminBlock, newFactoidBlock, newEntryBlock, newDirectoryBlock, WriteDirectoryBlock,
        KeepInSealing, client, vars
  <2> QED BY <2>2, <2>3, <2>4, <2>5
<1>5. UNCHANGED answer \/ Requests \/ Reads
  BY DEF Next, Start, Restart, EndOfMinute, Build, Post, buildFromProcessList, newEntryCreditBlock,
      newAdminBlock, newFactoidBlock, newEntryBlock, newDirectoryBlock, WriteDirectoryBlock,
      KeepInSealing, client, vars
<1> QED BY <1>2, <1>3, <1>4, <1>5

LEMMA AlwaysServed == Spec => [](RequestIs /\ AnswerIs)
<1>1. Init => RequestIs /\ AnswerIs
  BY InitServed
<1>2. /\ RequestIs /\ AnswerIs /\ Engine /\ Engine' /\ Ledgers /\ EntryChains /\ Listing /\ [Next]_vars
      => (RequestIs /\ AnswerIs)'
  BY NextServed
<1> QED BY <1>1, <1>2, AlwaysEngine, AlwaysLedgers, AlwaysChains, AlwaysListing, PTL DEF Spec

\* A client that was told of a key or a height gets what it stands for: no handler
\* answers "not found" because the engine was between two writes.
THEOREM EveryRequestAnswered == Spec => []RequestsAreAnswered
<1>1. ASSUME AnswerIs PROVE RequestsAreAnswered
  BY <1>1 DEF AnswerIs, AnswerFits, RequestsAreAnswered
<1> QED BY <1>1, AlwaysServed, PTL

\* What a handler returns for a key has that key when its hash is computed again.
THEOREM AnswersHaveTheirKey == Spec => []AnswersMatchTheirKey
<1>1. ASSUME Ledgers, EntryChains, Listing, AnswerIs PROVE AnswersMatchTheirKey
  <2>1. PICK a : a = answer
    OBVIOUS
  <2>2. AnswerFits(a)
    BY <1>1, <2>1 DEF AnswerIs
  <2>3. ASSUME a.kind = "dblock" PROVE HasKey("dblock", a.val, a.key)
    <3>1. PICK k, b : k = a.key /\ b = a.val
      OBVIOUS
    <3>2. k \in DOMAIN db.DB_MR /\ b = DOf(k)
      BY <2>2, <2>3, <3>1 DEF AnswerFits
    <3>3. IsSealed(b) /\ BuildKeyMerkleRoot(b) = k
      BY <1>1, <3>2, DListed, DKeyIs
    <3>4. HasKey("dblock", b, k)
      BY <3>3 DEF HasKey, IsSealed
    <3> QED BY <3>1, <3>4
  <2>4. ASSUME a.kind = "eblock" PROVE HasKey("eblock", a.val, a.key)
    <3>1. PICK k, b : k = a.key /\ b = a.val
      OBVIOUS
    <3>2. k \in DOMAIN db.EB_MR /\ b = EOf(k)
      BY <2>2, <2>4, <3>1 DEF AnswerFits
    <3>3. b = BuildEBlockHeader(b) /\ EBlockKeyMR(b) = k
      BY <1>1, <3>2, EKeyIs
    <3>4. HasKey("eblock", b, k)
      BY <3>3 DEF HasKey
    <3> QED BY <3>1, <3>4
  <2>5. /\ a.kind = "entry" => HasKey("entry", a.val, a.key)
        /\ a.kind = "raw" => HasKey(a.val[1], a.val[2], a.key)
    BY <2>2 DEF AnswerFits
  <2>6. a.kind \in {"dblock", "eblock", "entry"} => HasKey(a.kind, a.val, a.key)
    <3>1. CASE a.kind = "dblock"
      BY <2>3, <3>1
    <3>2. CASE a.kind = "eblock"
      BY <2>4, <3>2
    <3>3. CASE a.kind = "entry"
      BY <2>5, <3>3
    <3> QED BY <3>1, <3>2, <3>3
  <2> QED BY <2>1, <2>5, <2>6 DEF AnswersMatchTheirKey
<1> QED BY <1>1, AlwaysLedgers, AlwaysChains, AlwaysListing, AlwaysServed, PTL

----------------------------------------------------------------------------
\* The times of the listed entries.

TimedAt(s, i, j, t) == [hash |-> s[i], time |-> t + s[j][2]]

LEMMA TimesAre ==
    ASSUME NEW S, NEW s \in Seq(S), s # <<>>, s[Len(s)][1] = "minute", NEW t, NEW l, l = TimedEntries(s, t)
    PROVE  /\ Len(l) = Cardinality(Plain(s))
           /\ \A i \in Plain(s) : \E j : NextMark(s, i, j) /\ l[Count(s, i)] = TimedAt(s, i, j, t)
<1>1. PICK m, q : TimedUpTo(s, t, Len(s), m, q, l)
  BY TimedAre
<1>2. Len(s) \in Nat
  OBVIOUS
<1>3. m = Len(s)
  <2> SUFFICES ASSUME m # Len(s) PROVE FALSE
    OBVIOUS
  <2>1. m \in 0 .. Len(s) /\ \A j \in (m + 1) .. Len(s) : s[j][1] # "minute"
    BY <1>1 DEF TimedUpTo
  <2>2. Len(s) \in (m + 1) .. Len(s)
    BY <1>2, <2>1
  <2> QED BY <2>1, <2>2
<1>4. Len(l) = Count(s, Len(s))
  BY <1>1, <1>3 DEF TimedUpTo
<1>5. Count(s, Len(s)) = Cardinality(Plain(s))
  BY Counts
<1>6. ASSUME NEW i \in Plain(s)
      PROVE  \E j : NextMark(s, i, j) /\ l[Count(s, i)] = TimedAt(s, i, j, t)
  <2>1. i <= m
    BY <1>2, <1>3 DEF Plain
  <2> QED BY <1>1, <2>1 DEF TimedUpTo, TimedAt
<1> QED BY <1>4, <1>5, <1>6

Marker(s, i) == CHOOSE j \in (i + 1) .. Len(s) :
                    /\ s[j][1] = "minute"
                    /\ \A k \in (i + 1) .. (j - 1) : s[k][1] # "minute"

LEMMA NextMarkIs ==
    ASSUME NEW S, NEW s \in Seq(S), NEW i \in DOMAIN s, NEW j, NextMark(s, i, j)
    PROVE  j = Marker(s, i)
<1>1. i \in Nat /\ Len(s) \in Nat
  OBVIOUS
<1>2. ASSUME NEW x \in (i + 1) .. Len(s), s[x][1] = "minute",
             \A k \in (i + 1) .. (x - 1) : s[k][1] # "minute"
      PROVE  x = j
  <2>1. j \in (i + 1) .. Len(s) /\ s[j][1] = "minute" /\ \A k \in (i + 1) .. (j - 1) : s[k][1] # "minute"
    BY DEF NextMark
  <2>2. CASE x < j
    <3>1. x \in (i + 1) .. (j - 1)
      BY <1>1, <2>1, <2>2
    <3> QED BY <1>2, <2>1, <3>1
  <2>3. CASE j < x
    <3>1. j \in (i + 1) .. (x - 1)
      BY <1>1, <2>1, <2>3
    <3> QED BY <1>2, <2>1, <3>1
  <2> QED BY <1>1, <2>1, <2>2, <2>3
<1>3. \E x \in (i + 1) .. Len(s) : s[x][1] = "minute" /\ \A k \in (i + 1) .. (x - 1) : s[k][1] # "minute"
  BY DEF NextMark
<1> QED BY <1>2, <1>3 DEF Marker

\* An entry block that was found through a directory block lists each of its entries
\* once, in order, with the time of the minute marker behind it; none is left out.
THEOREM TimesAreRight == Spec => []EntriesAreTimed
<1>1. ASSUME EntryChains, AnswerIs PROVE EntriesAreTimed
  <2> SUFFICES ASSUME answer.kind = "eblock", answer.from # "chainhead" PROVE EntriesAreTimed
    BY DEF EntriesAreTimed
  <2>1. PICK b, l, t : b = answer.val /\ l = answer.list /\ t = Timestamp(b.height)
    OBVIOUS
  <2>2. answer.key \in DOMAIN db.EB_MR /\ b = EOf(answer.key) /\ l = TimedEntries(b.entries, t)
    BY <1>1, <2>1 DEF AnswerIs, AnswerFits, ListIs
  <2>3. PICK s : s = b.entries
    OBVIOUS
  <2>4. s \in Seq(EBHashes) /\ s # <<>> /\ Closed(s)
    BY <1>1, <2>2, <2>3, EKeyIs DEF IsEBlock
  <2>5. s[Len(s)][1] = "minute"
    BY <2>4 DEF Closed, Markings, MinuteMarker
  <2>6. /\ Len(l) = Cardinality(Plain(s))
        /\ \A i \in Plain(s) : \E j : NextMark(s, i, j) /\ l[Count(s, i)] = TimedAt(s, i, j, t)
    <3>1. l = TimedEntries(s, t)
      BY <2>2, <2>3
    <3> QED BY <2>4, <2>5, <3>1, TimesAre
  <2>7. ASSUME NEW i \in Plain(s) PROVE l[Count(s, i)] = TimedAt(s, i, Marker(s, i), t)
    <3>1. PICK j : NextMark(s, i, j) /\ l[Count(s, i)] = TimedAt(s, i, j, t)
      BY <2>6
    <3>2. i \in DOMAIN s
      BY DEF Plain
    <3>3. j = Marker(s, i)
      BY <2>4, <3>1, <3>2, NextMarkIs
    <3> QED BY <3>1, <3>3
  <2>8. Last(s)[1] = "minute"
    BY <2>5 DEF Last
  <2>9. /\ Last(answer.val.entries)[1] = "minute"
        /\ Len(answer.list) = Cardinality(Plain(answer.val.entries))
        /\ \A i \in Plain(answer.val.entries) : answer.list[Count(answer.val.entries, i)] =
                TimedAt(answer.val.entries, i, Marker(answer.val.entries, i), Timestamp(answer.val.height))
    BY <2>1, <2>3, <2>6, <2>7, <2>8
  <2> QED BY <2>9, Zenon DEF EntriesAreTimed, Plain, Count, Upto, Marker, TimedAt
<1> QED BY <1>1, AlwaysChains, AlwaysServed, PTL

=============================================================================
