---------------------------- MODULE SyncUpProofs ----------------------------
(***************************************************************************)
(* A client implements Mirror, its goroutine finds in the pool what it     *)
(* reads there, a block counts twice at most where the process died, and   *)
(* no start panics.                                                        *)
(***************************************************************************)
EXTENDS SyncUp, FiniteSetTheorems, TLAPS

----------------------------------------------------------------------------
\* Shapes of the data

LEMMA ListLength ==
    ASSUME NEW h \in Heights
    PROVE  /\ Len(Listed[h]) \in Nat
           /\ DOMAIN Listed[h] = 1 .. Len(Listed[h])
           /\ Len(DBEntries(h)) = 3 + Len(Listed[h])
           /\ DOMAIN DBEntries(h) = 1 .. (3 + Len(Listed[h]))
           /\ \A i \in 1 .. 3 : DBEntries(h)[i] = Key(SystemKinds[i], h)
           /\ \A i \in 4 .. (3 + Len(Listed[h])) :
                 /\ Listed[h][i - 3] \in EBlocks
                 /\ DBEntries(h)[i] = Key("e", Listed[h][i - 3])
<1> DEFINE n == 3 + Len(Listed[h])
           f(i) == IF i <= 3 THEN Key(SystemKinds[i], h)
                             ELSE Key("e", Listed[h][i - 3])
<1>1. Listed[h] \in Seq(EBlocks)
  BY ConstantTypes
<1>2. Len(Listed[h]) \in Nat /\ DOMAIN Listed[h] = 1 .. Len(Listed[h])
  BY <1>1
<1>3. DBEntries(h) = [i \in 1 .. n |-> f(i)]
  BY DEF DBEntries
<1>4. Len(DBEntries(h)) = n /\ DOMAIN DBEntries(h) = 1 .. n
  <2>1. n \in Nat
    BY <1>2
  <2> HIDE DEF n, f
  <2> QED BY <1>3, <2>1
<1>5. \A i \in 1 .. 3 : DBEntries(h)[i] = Key(SystemKinds[i], h)
  BY <1>2, <1>3
<1>6. \A i \in 4 .. n : DBEntries(h)[i] = Key("e", Listed[h][i - 3])
  BY <1>2, <1>3
<1>7. \A i \in 4 .. n : Listed[h][i - 3] \in EBlocks
  BY <1>1, <1>2
<1> QED BY <1>2, <1>4, <1>5, <1>6, <1>7

LEMMA BodyLength ==
    ASSUME NEW b \in EBlocks
    PROVE  /\ Len(Body[b]) \in Nat
           /\ DOMAIN Body[b] = 1 .. Len(Body[b])
BY ConstantTypes

LEMMA KeysDiffer ==
    ASSUME NEW k, NEW x, NEW l, NEW y, Key(k, x) = Key(l, y)
    PROVE  k = l /\ x = y
<1>1. Key(k, x).kind = k /\ Key(k, x).id = x /\ Key(l, y).kind = l /\ Key(l, y).id = y
  BY DEF Key
<1> QED BY <1>1

\* What the ith entry of directory block h stands for is stored.
Kept(h, i) ==
    /\ DBEntries(h)[i] \in db
    /\ i > 3 => /\ EntryKeys(Listed[h][i - 3]) \ {Marker} \subseteq db
                /\ ChainKeys(Listed[h][i - 3]) \subseteq db

LEMMA ContentKept ==
    ASSUME NEW h \in Heights, \A i \in 1 .. Len(DBEntries(h)) : Kept(h, i)
    PROVE  Content[h] \subseteq db
<1>1. BlockKeys(h) \subseteq db
  BY ListLength DEF BlockKeys, Kept
<1>2. ASSUME NEW b \in EBlocksAt(h)
      PROVE  EntryKeys(b) \ {Marker} \subseteq db /\ ChainKeys(b) \subseteq db
  <2>1. PICK j \in 1 .. Len(Listed[h]) : b = Listed[h][j]
    BY <1>2, ListLength DEF EBlocksAt
  <2>2. Kept(h, j + 3) /\ j + 3 > 3 /\ (j + 3) - 3 = j
    BY <2>1, ListLength
  <2> QED BY <2>1, <2>2 DEF Kept
<1>3. EntriesAt(h) \subseteq db
  BY <1>2 DEF EntriesAt
<1>4. UNION {ChainKeys(b) : b \in EBlocksAt(h)} \subseteq db
  BY <1>2
<1> QED BY <1>1, <1>3, <1>4 DEF Content, MessagesAt

----------------------------------------------------------------------------
\* The inductive invariant

Counters ==
    /\ pc \in {"loop", "checked", "store", "delete", "panic"}
    /\ lastDirBlkHeight \in -1 .. Top
    /\ dchainBlocks \subseteq Heights
    /\ waiting \in Heights \cup {None}
    /\ pc \in {"checked", "store"} => lastDirBlkHeight + 1 \in Heights
    /\ pc = "delete" => lastDirBlkHeight \in Heights
    /\ pc \in {"store", "delete"} =>
           /\ pos \in 1 .. (Len(DBEntries(height)) + 1)
           /\ sub \in Nat
    /\ pc = "store" /\ pos <= 3 => sub = 1

\* The stored directory is a prefix of the server's, and complete.
Prefix ==
    /\ StoredHeights = 0 .. lastDirBlkHeight
    /\ \A h \in StoredHeights : Content[h] \subseteq db

\* What the loop over the directory block has stored so far.
Progress ==
    pc = "store" =>
        /\ \A i \in 1 .. (pos - 1) : Kept(height, i)
        /\ AtEBlock =>
              /\ \A j \in 1 .. Len(Body[theBlock]) :
                     j < sub => Key("entry", Body[theBlock][j]) \in db \cup {Marker}
              /\ sub = Len(Body[theBlock]) + 2 => Key("e", theBlock) \in db

\* What the loops will still read from the pool is there.
Pooled ==
    /\ pc \in {"checked", "store"} => Present(height)
    /\ pc = "delete" => \A i \in 4 .. Len(DBEntries(height)) :
           i >= pos => DBEntries(height)[i] \in blockpool

SyncInv == Counters /\ Prefix /\ Progress /\ Pooled

----------------------------------------------------------------------------
\* Lemmas for the steps

LEMMA InitInv ==
    Init => SyncInv
<1> SUFFICES ASSUME Init PROVE SyncInv
  OBVIOUS
<1>1. Counters
  BY ConstantTypes DEF Init, Counters
<1>2. StoredHeights = {} /\ lastDirBlkHeight = -1
  BY DEF Init, StoredHeights
<1>3. Prefix
  BY <1>2 DEF Prefix
<1>4. Progress /\ Pooled
  BY DEF Init, Progress, Pooled
<1> QED BY <1>1, <1>3, <1>4 DEF SyncInv

\* A step that stores anything but a directory block keeps the directory.
LEMMA OtherWrites ==
    ASSUME NEW W, Prefix,
           db' = db \cup W,
           \A h \in Heights : DirKey(h) \notin W,
           lastDirBlkHeight' = lastDirBlkHeight
    PROVE  Prefix'
<1>1. StoredHeights' = StoredHeights
  BY DEF StoredHeights
<1>2. \A h \in StoredHeights : Content[h] \subseteq db'
  BY DEF Prefix
<1> QED BY <1>1, <1>2 DEF Prefix

\* The engine only adds to the pool.
LEMMA EngineStep ==
    ASSUME SyncInv,
           blockpool \subseteq blockpool',
           dchainBlocks' \subseteq Heights,
           waiting' \in Heights \cup {None},
           UNCHANGED sync
    PROVE  SyncInv'
<1>1. Counters'
  BY DEF SyncInv, Counters, sync, height
<1>2. Prefix'
  BY DEF SyncInv, Prefix, sync, StoredHeights
<1>3. Progress'
  BY DEF SyncInv, Progress, sync, height, Kept, AtEBlock, theBlock
<1>4. Pooled'
  BY DEF SyncInv, Pooled, sync, height, Present
<1> QED BY <1>1, <1>2, <1>3, <1>4 DEF SyncInv

LEMMA ReceiveInv ==
    ASSUME SyncInv, Receive
    PROVE  SyncInv'
<1>1. CASE \E k \in Messages : processBlock(k)
  <2>1. PICK k \in Messages : processBlock(k)
    BY <1>1
  <2>2. blockpool \subseteq blockpool' /\ UNCHANGED <<engine, sync>>
    BY <2>1 DEF processBlock, addBlockMsg
  <2>3. dchainBlocks' \subseteq Heights /\ waiting' \in Heights \cup {None}
    BY <2>2 DEF engine, SyncInv, Counters
  <2> QED BY <2>2, <2>3, EngineStep
<1>2. CASE \E h \in Heights : processDirBlock(h)
  <2>1. PICK h \in Heights : processDirBlock(h)
    BY <1>2
  <2>2. blockpool \subseteq blockpool' /\ UNCHANGED sync
    BY <2>1 DEF processDirBlock
  <2>3. dchainBlocks' \subseteq Heights /\ waiting' \in Heights \cup {None}
    BY <2>1 DEF processDirBlock, engine, SyncInv, Counters
  <2> QED BY <2>2, <2>3, EngineStep
<1>3. CASE addDirBlockMsg
  <2>1. blockpool \subseteq blockpool' /\ UNCHANGED sync
    BY <1>3 DEF addDirBlockMsg, addBlockMsg
  <2>2. dchainBlocks' \subseteq Heights /\ waiting' \in Heights \cup {None}
    BY <1>3 DEF addDirBlockMsg, SyncInv, Counters
  <2> QED BY <2>1, <2>2, EngineStep
<1> QED BY <1>1, <1>2, <1>3 DEF Receive

LEMMA CheckInv ==
    ASSUME SyncInv, validateBlocks \/ beginStore
    PROVE  SyncInv'
<1>1. CASE validateBlocks
  <2>1. /\ pc = "loop" /\ pc' = "checked"
        /\ height = lastDirBlkHeight + 1 /\ height' = height
        /\ height \in Heights
    BY <1>1 DEF validateBlocks, height, SyncInv, Counters
  <2>2. Counters'
    BY <1>1, <2>1 DEF validateBlocks, engine, SyncInv, Counters
  <2>3. Prefix'
    BY <1>1 DEF validateBlocks, SyncInv, Prefix, StoredHeights
  <2>4. Progress'
    BY <2>1 DEF Progress
  <2>5. Present(height)
    BY <1>1 DEF validateBlocks, validateBlocksFromMemPool, validateEntries,
                Present, EntriesAt
  <2>6. Pooled'
    BY <1>1, <2>1, <2>5 DEF validateBlocks, Pooled, Present
  <2> QED BY <2>2, <2>3, <2>4, <2>6 DEF SyncInv
<1>2. CASE beginStore
  <2>1. /\ pc = "checked" /\ pc' = "store" /\ pos' = 1 /\ sub' = 1
        /\ height = lastDirBlkHeight + 1 /\ height' = height
        /\ height \in Heights
    BY <1>2 DEF beginStore, height, SyncInv, Counters
  <2>2. Counters'
    <3>1. Len(DBEntries(height)) + 1 \in Nat /\ Len(DBEntries(height)) + 1 >= 1
      BY <2>1, ListLength
    <3>2. pos' \in 1 .. (Len(DBEntries(height')) + 1) /\ sub' \in Nat
      BY <2>1, <3>1
    <3> QED BY <1>2, <2>1, <3>2 DEF beginStore, engine, SyncInv, Counters
  <2>3. Prefix'
    BY <1>2 DEF beginStore, SyncInv, Prefix, StoredHeights
  <2>4. Progress'
    BY <2>1 DEF Progress, AtEBlock
  <2>5. Pooled'
    BY <1>2, <2>1 DEF beginStore, SyncInv, Pooled, Present
  <2> QED BY <2>2, <2>3, <2>4, <2>5 DEF SyncInv
<1> QED BY <1>1, <1>2

----------------------------------------------------------------------------
\* The writes of storeBlocksFromMemPool

\* Where the loops are.
LEMMA AtHeight ==
    ASSUME SyncInv, pc \in {"store", "delete"}
    PROVE  /\ height \in Heights
           /\ pos \in 1 .. (Len(DBEntries(height)) + 1)
           /\ Len(DBEntries(height)) = 3 + Len(Listed[height])
           /\ Len(Listed[height]) \in Nat
           /\ sub \in Nat
           /\ AtEBlock => /\ pos \in 4 .. Len(DBEntries(height))
                          /\ theBlock \in EBlocks
                          /\ theBlock \in EBlocksAt(height)
                          /\ DBEntries(height)[pos] = Key("e", theBlock)
                          /\ Len(Body[theBlock]) \in Nat
<1>1. height \in Heights /\ pos \in 1 .. (Len(DBEntries(height)) + 1) /\ sub \in Nat
  BY DEF SyncInv, Counters, height
<1>2. /\ Len(DBEntries(height)) = 3 + Len(Listed[height])
      /\ Len(Listed[height]) \in Nat
  BY <1>1, ListLength
<1>3. ASSUME AtEBlock
      PROVE  /\ pos \in 4 .. Len(DBEntries(height))
             /\ theBlock \in EBlocks
             /\ theBlock \in EBlocksAt(height)
             /\ DBEntries(height)[pos] = Key("e", theBlock)
  <2>1. pos \in 4 .. Len(DBEntries(height)) /\ pos - 3 \in 1 .. Len(Listed[height])
    BY <1>1, <1>2, <1>3 DEF AtEBlock
  <2> QED BY <1>1, <1>2, <2>1, ListLength DEF theBlock, EBlocksAt
<1>4. AtEBlock => Len(Body[theBlock]) \in Nat
  BY <1>3, BodyLength
<1> QED BY <1>1, <1>2, <1>3, <1>4

\* What is kept stays, and the directory block's entry at pos joins it.
LEMMA KeptNext ==
    ASSUME pos \in Nat, pos' = pos + 1, height' = height, db \subseteq db',
           \A i \in 1 .. (pos - 1) : Kept(height, i),
           DBEntries(height)[pos] \in db',
           pos > 3 => /\ EntryKeys(theBlock) \ {Marker} \subseteq db'
                      /\ ChainKeys(theBlock) \subseteq db'
    PROVE  (\A i \in 1 .. (pos - 1) : Kept(height, i))'
<1> SUFFICES ASSUME NEW i \in 1 .. pos PROVE (Kept(height, i))'
  OBVIOUS
<1>1. CASE i < pos
  BY <1>1 DEF Kept
<1>2. CASE i = pos
  BY <1>2 DEF Kept, theBlock
<1> QED BY <1>1, <1>2

\* A write leaves the pool and the height alone.
LEMMA PooledStays ==
    ASSUME SyncInv, pc = "store", pc' = "store", db \subseteq db',
           UNCHANGED <<blockpool, lastDirBlkHeight>>
    PROVE  Pooled' /\ height' = height
BY DEF SyncInv, Pooled, Present, height

LEMMA SystemBlockInv ==
    ASSUME SyncInv, storeSystemBlock
    PROVE  SyncInv'
<1>1. /\ pc = "store" /\ pc' = "store" /\ pos' = pos + 1 /\ sub' = sub
      /\ pos <= 3 /\ sub = 1
      /\ db' = db \cup {DBEntries(height)[pos]}
      /\ UNCHANGED <<blockpool, dchainBlocks, waiting, lastDirBlkHeight>>
  BY DEF storeSystemBlock, AtSystemBlock, engine, SyncInv, Counters
<1>2. /\ height \in Heights /\ pos \in 1 .. 3
      /\ Len(DBEntries(height)) = 3 + Len(Listed[height])
      /\ Len(Listed[height]) \in Nat
  BY <1>1, AtHeight
<1>3. height' = height /\ Pooled'
  BY <1>1, PooledStays
<1>4. Counters'
  BY <1>1, <1>2, <1>3 DEF SyncInv, Counters
<1>5. Prefix'
  <2>1. DBEntries(height)[pos] = Key(SystemKinds[pos], height)
    BY <1>2, ListLength
  <2>2. SystemKinds[pos] # "dir"
    BY <1>2 DEF SystemKinds
  <2>3. \A h \in Heights : DirKey(h) \notin {DBEntries(height)[pos]}
    BY <2>1, <2>2 DEF DirKey, Key
  <2> QED BY <1>1, <2>3, OtherWrites DEF SyncInv
<1>6. Progress'
  <2>1. \A i \in 1 .. (pos - 1) : Kept(height, i)
    BY <1>1 DEF SyncInv, Progress
  <2>2. (\A i \in 1 .. (pos - 1) : Kept(height, i))'
    BY <1>1, <1>2, <1>3, <2>1, KeptNext
  <2>3. AtEBlock' => (theBlock \in EBlocks)'
    <3>1. ASSUME AtEBlock' PROVE pos' \in 4 .. (3 + Len(Listed[height]))
      BY <1>1, <1>2, <1>3, <3>1 DEF AtEBlock
    <3> QED BY <1>2, <1>3, <3>1, ListLength DEF theBlock
  <2>4. AtEBlock' => (Len(Body[theBlock]) \in Nat)'
    BY <2>3, BodyLength
  <2> QED BY <1>1, <1>3, <2>2, <2>4 DEF Progress
<1> QED BY <1>3, <1>4, <1>5, <1>6 DEF SyncInv

\* What the loop over the entry block at pos has stored so far.
EBlockProgress ==
    /\ \A j \in 1 .. Len(Body[theBlock]) :
           j < sub => Key("entry", Body[theBlock][j]) \in db \cup {Marker}
    /\ sub = Len(Body[theBlock]) + 2 => Key("e", theBlock) \in db

\* A write inside the loop over an entry block.
LEMMA EBlockWrite ==
    ASSUME SyncInv, pc = "store", AtEBlock, NEW W,
           db' = db \cup W,
           \A h \in Heights : DirKey(h) \notin W,
           sub' = sub + 1, EBlockProgress',
           UNCHANGED <<blockpool, engine, pc, pos, lastDirBlkHeight>>
    PROVE  SyncInv'
<1>1. height' = height /\ Pooled'
  BY PooledStays
<1>2. /\ sub \in Nat /\ pos \in 4 .. Len(DBEntries(height))
      /\ Len(DBEntries(height)) \in Nat
  BY AtHeight
<1>3. Counters'
  BY <1>1, <1>2 DEF SyncInv, Counters, engine
<1>4. Prefix'
  BY OtherWrites DEF SyncInv
<1>5. Progress'
  BY <1>1, <1>2 DEF SyncInv, Progress, EBlockProgress, Kept
<1> QED BY <1>1, <1>3, <1>4, <1>5 DEF SyncInv

LEMMA EntryInv ==
    ASSUME SyncInv, storeEntry
    PROVE  SyncInv'
<1> DEFINE W == blockpool \cap {Key("entry", Body[theBlock][sub])}
<1>1. /\ pc = "store" /\ AtEBlock /\ sub <= Len(Body[theBlock])
      /\ db' = db \cup W /\ sub' = sub + 1
      /\ UNCHANGED <<blockpool, engine, pc, pos, lastDirBlkHeight>>
  BY DEF storeEntry
<1>2. \A h \in Heights : DirKey(h) \notin W
  BY DEF DirKey, Key
<1>3. /\ theBlock' = theBlock /\ sub \in Nat
      /\ theBlock \in EBlocks /\ theBlock \in EBlocksAt(height)
      /\ Len(Body[theBlock]) \in Nat
      /\ DOMAIN Body[theBlock] = 1 .. Len(Body[theBlock])
  BY <1>1, AtHeight, BodyLength, PooledStays DEF theBlock
<1>4. ASSUME NEW j \in 1 .. Len(Body[theBlock]), j < sub'
      PROVE  Key("entry", Body[theBlock][j]) \in db' \cup {Marker}
  <2>1. CASE j < sub
    BY <1>1, <2>1 DEF SyncInv, Progress
  <2>2. CASE j = sub
    <3>1. Key("entry", Body[theBlock][j]) \in EntryKeys(theBlock)
      BY <1>3 DEF EntryKeys
    <3>2. Key("entry", Body[theBlock][j]) \in EntriesAt(height) \cup {Marker}
      BY <1>3, <3>1 DEF EntriesAt
    <3>3. Present(height)
      BY <1>1 DEF SyncInv, Pooled
    <3>4. Key("entry", Body[theBlock][j]) \in blockpool \cup db \cup {Marker}
      BY <3>2, <3>3 DEF Present
    <3> QED BY <1>1, <2>2, <3>4
  <2> QED BY <1>1, <1>3, <1>4, <2>1, <2>2
<1>5. sub' # Len(Body[theBlock]) + 2
  BY <1>1, <1>3
<1>6. EBlockProgress'
  BY <1>3, <1>4, <1>5 DEF EBlockProgress
<1> QED BY <1>1, <1>2, <1>6, EBlockWrite

LEMMA EBlockInv ==
    ASSUME SyncInv, storeEBlock
    PROVE  SyncInv'
<1>1. /\ pc = "store" /\ AtEBlock /\ sub = Len(Body[theBlock]) + 1
      /\ db' = db \cup {Key("e", theBlock)} /\ sub' = sub + 1
      /\ UNCHANGED <<blockpool, engine, pc, pos, lastDirBlkHeight>>
  BY DEF storeEBlock
<1>2. \A h \in Heights : DirKey(h) \notin {Key("e", theBlock)}
  BY DEF DirKey, Key
<1>3. theBlock' = theBlock /\ sub \in Nat /\ Len(Body[theBlock]) \in Nat
  BY <1>1, AtHeight, PooledStays DEF theBlock
<1>4. \A j \in 1 .. Len(Body[theBlock]) :
          Key("entry", Body[theBlock][j]) \in db \cup {Marker}
  BY <1>1, <1>3 DEF SyncInv, Progress
<1>5. EBlockProgress'
  BY <1>1, <1>3, <1>4 DEF EBlockProgress
<1> QED BY <1>1, <1>2, <1>5, EBlockWrite

LEMMA ChainInv ==
    ASSUME SyncInv, storeChain
    PROVE  SyncInv'
<1>1. /\ pc = "store" /\ AtEBlock /\ sub = Len(Body[theBlock]) + 2
      /\ UNCHANGED <<blockpool, dchainBlocks, waiting, lastDirBlkHeight>>
  BY DEF storeChain, engine
<1>2. /\ height \in Heights /\ pos \in 4 .. Len(DBEntries(height))
      /\ Len(DBEntries(height)) = 3 + Len(Listed[height])
      /\ Len(Listed[height]) \in Nat
      /\ theBlock \in EBlocks /\ Len(Body[theBlock]) \in Nat
      /\ DBEntries(height)[pos] = Key("e", theBlock)
  BY <1>1, AtHeight
<1>3. CASE pc' = "panic" /\ UNCHANGED <<db, pos, sub>>
  <2>1. Counters'
    BY <1>1, <1>3 DEF SyncInv, Counters
  <2>2. Prefix'
    BY <1>1, <1>3 DEF SyncInv, Prefix, StoredHeights
  <2>3. Progress' /\ Pooled'
    BY <1>3 DEF Progress, Pooled
  <2> QED BY <2>1, <2>2, <2>3 DEF SyncInv
<1>4. CASE /\ db' = db \cup ChainKeys(theBlock)
           /\ pos' = pos + 1 /\ sub' = 1
           /\ UNCHANGED pc
  <2>1. height' = height /\ Pooled'
    BY <1>1, <1>4, PooledStays
  <2>2. Counters'
    BY <1>1, <1>2, <1>4, <2>1 DEF SyncInv, Counters
  <2>3. Prefix'
    <3>1. \A h \in Heights : DirKey(h) \notin ChainKeys(theBlock)
      BY DEF DirKey, ChainKeys, Key
    <3> QED BY <1>1, <1>4, <3>1, OtherWrites DEF SyncInv
  <2>4. Progress'
    <3>1. /\ \A i \in 1 .. (pos - 1) : Kept(height, i)
          /\ \A j \in 1 .. Len(Body[theBlock]) :
                 Key("entry", Body[theBlock][j]) \in db \cup {Marker}
          /\ Key("e", theBlock) \in db
      BY <1>1, <1>2 DEF SyncInv, Progress
    <3>2. EntryKeys(theBlock) \ {Marker} \subseteq db
      BY <1>2, <3>1, BodyLength DEF EntryKeys
    <3>3. (\A i \in 1 .. (pos - 1) : Kept(height, i))'
      BY <1>2, <1>4, <2>1, <3>1, <3>2, KeptNext
    <3>4. AtEBlock' => (theBlock \in EBlocks)'
      <4>1. ASSUME AtEBlock' PROVE pos' \in 4 .. (3 + Len(Listed[height]))
        BY <1>2, <1>4, <2>1, <4>1 DEF AtEBlock
      <4> QED BY <1>2, <2>1, <4>1, ListLength DEF theBlock
    <3>5. AtEBlock' => (Len(Body[theBlock]) \in Nat)'
      BY <3>4, BodyLength
    <3> QED BY <1>4, <2>1, <3>3, <3>5 DEF Progress
  <2> QED BY <2>1, <2>2, <2>3, <2>4 DEF SyncInv
<1> QED BY <1>3, <1>4 DEF storeChain

\* The last write: the directory grows by a complete height.
LEMMA DirBlockInv ==
    ASSUME SyncInv, storeDirBlock
    PROVE  SyncInv' /\ lastDirBlkHeight' = lastDirBlkHeight + 1
<1>1. /\ pc = "store" /\ pos = Len(DBEntries(height)) + 1
      /\ db' = db \cup {DirKey(height)}
      /\ height = lastDirBlkHeight + 1 /\ lastDirBlkHeight' = height
      /\ pc' = "delete" /\ pos' = 1 /\ sub' = 1
      /\ UNCHANGED <<blockpool, dchainBlocks, waiting>>
  BY DEF storeDirBlock, engine, height
<1>2. /\ height \in Heights /\ Len(DBEntries(height)) = 3 + Len(Listed[height])
      /\ Len(Listed[height]) \in Nat
  BY <1>1, AtHeight
<1>3. height' = height
  BY <1>1 DEF height
<1>4. Counters'
  BY <1>1, <1>2, <1>3 DEF SyncInv, Counters, Heights
<1>5. Prefix'
  <2>1. Content[height] \subseteq db
    <3>1. \A i \in 1 .. Len(DBEntries(height)) : Kept(height, i)
      BY <1>1, <1>2 DEF SyncInv, Progress
    <3> QED BY <1>2, <3>1, ContentKept
  <2>2. StoredHeights' = StoredHeights \cup {height}
    BY <1>1, <1>2 DEF StoredHeights, DirKey, Key
  <2>3. StoredHeights' = 0 .. lastDirBlkHeight'
    BY <1>1, <2>2 DEF SyncInv, Prefix, Counters
  <2>4. \A h \in StoredHeights' : Content[h] \subseteq db'
    BY <1>1, <2>1, <2>2 DEF SyncInv, Prefix
  <2> QED BY <2>3, <2>4 DEF Prefix
<1>6. Progress'
  BY <1>1 DEF Progress
<1>7. Pooled'
  <2>1. BlockKeys(height) \subseteq blockpool
    BY <1>1 DEF SyncInv, Pooled, Present
  <2>2. \A i \in 4 .. Len(DBEntries(height)) : DBEntries(height)[i] \in blockpool
    BY <1>2, <2>1, ListLength DEF BlockKeys
  <2> QED BY <1>1, <1>3, <2>2 DEF Pooled
<1> QED BY <1>1, <1>4, <1>5, <1>6, <1>7 DEF SyncInv

----------------------------------------------------------------------------
\* The deletions, and the restart

\* Deleting from the pool, the loop leaves the entry blocks ahead of it there.
LEMMA DeleteStep ==
    ASSUME SyncInv, pc = "delete", pc' \in {"delete", "loop"},
           pc' = "delete" =>
               /\ pos' \in pos .. (Len(DBEntries(height)) + 1)
               /\ sub' \in Nat
               /\ \A i \in 4 .. Len(DBEntries(height)) : i >= pos' =>
                      DBEntries(height)[i] \in blockpool',
           UNCHANGED <<dchainBlocks, waiting, lastDirBlkHeight, db>>
    PROVE  SyncInv'
<1>1. pc' = "delete" => height' = height
  BY DEF height
<1>2. Counters'
  BY <1>1, AtHeight DEF SyncInv, Counters
<1>3. Prefix'
  BY DEF SyncInv, Prefix, StoredHeights
<1>4. Progress' /\ Pooled'
  BY <1>1 DEF Progress, Pooled
<1> QED BY <1>2, <1>3, <1>4 DEF SyncInv

LEMMA DeleteInv ==
    ASSUME SyncInv,
           \/ deleteSystemBlock \/ deleteEntry \/ deleteEBlock \/ deleteDirBlock
    PROVE  SyncInv'
<1> DEFINE D == DBEntries(height)
<1>1. pc = "delete"
  BY DEF deleteSystemBlock, deleteEntry, deleteEBlock, deleteDirBlock
<1>2. /\ height \in Heights /\ pos \in 1 .. (Len(D) + 1) /\ sub \in Nat
      /\ Len(D) = 3 + Len(Listed[height]) /\ Len(Listed[height]) \in Nat
  BY <1>1, AtHeight
<1>3. \A i \in 4 .. Len(D) : /\ D[i] = Key("e", Listed[height][i - 3])
                             /\ i >= pos => D[i] \in blockpool
  BY <1>1, <1>2, ListLength DEF SyncInv, Pooled
<1>4. CASE deleteSystemBlock
  <2>1. /\ pc' = "delete" /\ pos' = pos + 1 /\ sub' = sub /\ pos <= 3
        /\ blockpool' = blockpool \ {D[pos]}
        /\ UNCHANGED <<dchainBlocks, waiting, lastDirBlkHeight, db>>
    BY <1>4 DEF deleteSystemBlock, AtSystemBlock, engine
  <2>2. D[pos] = Key(SystemKinds[pos], height) /\ SystemKinds[pos] # "e"
    BY <1>2, <2>1, ListLength DEF SystemKinds
  <2>3. \A i \in 4 .. Len(D) : D[i] # D[pos]
    <3> SUFFICES ASSUME NEW i \in 4 .. Len(D), D[i] = D[pos] PROVE FALSE
      OBVIOUS
    <3>1. Key("e", Listed[height][i - 3]) = Key(SystemKinds[pos], height)
      BY <1>3, <2>2
    <3> QED BY <2>2, <3>1, KeysDiffer
  <2>4. \A i \in 4 .. Len(D) : i >= pos' => D[i] \in blockpool'
    BY <1>2, <1>3, <2>1, <2>3
  <2>5. pos' \in pos .. (Len(D) + 1)
    BY <1>2, <2>1
  <2> QED BY <1>1, <1>2, <2>1, <2>4, <2>5, DeleteStep
<1>5. CASE deleteEntry
  <2>1. /\ pc' = "delete" /\ pos' = pos /\ sub' = sub + 1
        /\ blockpool' = blockpool \ {Key("entry", Body[theBlock][sub])}
        /\ UNCHANGED <<dchainBlocks, waiting, lastDirBlkHeight, db>>
    BY <1>1, <1>5 DEF deleteEntry, engine
  <2>2. \A i \in 4 .. Len(D) : D[i] # Key("entry", Body[theBlock][sub])
    <3> SUFFICES ASSUME NEW i \in 4 .. Len(D),
                        D[i] = Key("entry", Body[theBlock][sub])
                 PROVE  FALSE
      OBVIOUS
    <3>1. Key("e", Listed[height][i - 3]) = Key("entry", Body[theBlock][sub])
      BY <1>3
    <3>2. "e" = "entry"
      BY <3>1, KeysDiffer
    <3> QED BY <3>2
  <2>3. \A i \in 4 .. Len(D) : i >= pos' => D[i] \in blockpool'
    BY <1>3, <2>1, <2>2
  <2>4. pos' \in pos .. (Len(D) + 1) /\ sub' \in Nat
    BY <1>2, <2>1
  <2> QED BY <1>1, <2>1, <2>3, <2>4, DeleteStep
<1>6. CASE deleteEBlock
  <2>1. /\ pc' = "delete" /\ pos' = pos + 1 /\ sub' = 1 /\ AtEBlock
        /\ blockpool' = blockpool \ {Key("e", theBlock)}
        /\ UNCHANGED <<dchainBlocks, waiting, lastDirBlkHeight, db>>
    BY <1>1, <1>6 DEF deleteEBlock, engine
  <2>2. pos \in 4 .. Len(D)
    BY <1>2, <2>1 DEF AtEBlock
  <2>3. ASSUME NEW i \in 4 .. Len(D), i >= pos'
        PROVE  D[i] \in blockpool'
    <3>1. /\ i - 3 \in DOMAIN Listed[height] /\ pos - 3 \in DOMAIN Listed[height]
          /\ i - 3 # pos - 3 /\ i >= pos
      BY <1>2, <2>1, <2>2, <2>3, ListLength
    <3>2. Listed[height][i - 3] # Listed[height][pos - 3]
      BY <1>2, <3>1, ConstantTypes
    <3>3. D[i] # Key("e", theBlock)
      <4> SUFFICES ASSUME D[i] = Key("e", theBlock) PROVE FALSE
        OBVIOUS
      <4>1. Key("e", Listed[height][i - 3]) = Key("e", Listed[height][pos - 3])
        BY <1>3 DEF theBlock
      <4> QED BY <3>2, <4>1, KeysDiffer
    <3> QED BY <1>3, <2>1, <3>1, <3>3
  <2>4. pos' \in pos .. (Len(D) + 1) /\ sub' \in Nat
    BY <1>2, <2>1, <2>2
  <2> QED BY <1>1, <2>1, <2>3, <2>4, DeleteStep
<1>7. CASE deleteDirBlock
  <2>1. pc' = "loop" /\ UNCHANGED <<dchainBlocks, waiting, lastDirBlkHeight, db>>
    BY <1>7 DEF deleteDirBlock, engine
  <2> QED BY <1>1, <2>1, DeleteStep
<1> QED BY <1>4, <1>5, <1>6, <1>7

\* The start counts the stored directory blocks and finds the height again.
LEMMA RestartInv ==
    ASSUME SyncInv, initProcessor
    PROVE  SyncInv' /\ lastDirBlkHeight' = lastDirBlkHeight
<1>1. /\ pc' \in {"loop", "panic"} /\ db' = db /\ waiting' = None
      /\ dchainBlocks' = StoredHeights
      /\ lastDirBlkHeight' = Cardinality(StoredHeights) - 1
  BY DEF initProcessor
<1>2. lastDirBlkHeight \in -1 .. Top /\ StoredHeights = 0 .. lastDirBlkHeight
  BY DEF SyncInv, Counters, Prefix
<1>3. Cardinality(0 .. lastDirBlkHeight) = lastDirBlkHeight + 1
  <2>1. CASE lastDirBlkHeight = -1
    BY <2>1, FS_EmptySet
  <2>2. CASE lastDirBlkHeight >= 0
    BY <1>2, <2>2, FS_Interval, ConstantTypes
  <2> QED BY <1>2, <2>1, <2>2, ConstantTypes
<1>4. lastDirBlkHeight' = lastDirBlkHeight
  BY <1>1, <1>2, <1>3, ConstantTypes
<1>5. Counters'
  BY <1>1, <1>2, <1>4 DEF Counters, StoredHeights
<1>6. Prefix'
  BY <1>1, <1>4 DEF SyncInv, Prefix, StoredHeights
<1>7. Progress' /\ Pooled'
  BY <1>1 DEF Progress, Pooled
<1> QED BY <1>4, <1>5, <1>6, <1>7 DEF SyncInv

----------------------------------------------------------------------------
\* The theorems

LEMMA NextInv ==
    ASSUME SyncInv, [Next]_vars
    PROVE  /\ SyncInv'
           /\ \/ lastDirBlkHeight' = lastDirBlkHeight
              \/ lastDirBlkHeight' = lastDirBlkHeight + 1
<1>1. CASE Receive
  <2>1. lastDirBlkHeight' = lastDirBlkHeight
    BY <1>1 DEF Receive, processBlock, processDirBlock, addDirBlockMsg, sync
  <2> QED BY <1>1, <2>1, ReceiveInv
<1>2. CASE validateBlocks \/ beginStore
  <2>1. lastDirBlkHeight' = lastDirBlkHeight
    BY <1>2 DEF validateBlocks, beginStore
  <2> QED BY <1>2, <2>1, CheckInv
<1>3. CASE storeSystemBlock \/ storeEntry \/ storeEBlock \/ storeChain
  <2>1. lastDirBlkHeight' = lastDirBlkHeight
    BY <1>3 DEF storeSystemBlock, storeEntry, storeEBlock, storeChain
  <2> QED BY <1>3, <2>1, SystemBlockInv, EntryInv, EBlockInv, ChainInv
<1>4. CASE storeDirBlock
  BY <1>4, DirBlockInv
<1>5. CASE deleteSystemBlock \/ deleteEntry \/ deleteEBlock \/ deleteDirBlock
  <2>1. lastDirBlkHeight' = lastDirBlkHeight
    BY <1>5 DEF deleteSystemBlock, deleteEntry, deleteEBlock, deleteDirBlock
  <2> QED BY <1>5, <2>1, DeleteInv
<1>6. CASE initProcessor
  BY <1>6, RestartInv
<1>7. CASE UNCHANGED vars
  <2>1. SyncInv'
    BY <1>7, EngineStep DEF vars, engine, SyncInv, Counters
  <2> QED BY <1>7, <2>1 DEF vars, sync
<1> QED
  BY <1>1, <1>2, <1>3, <1>4, <1>5, <1>6, <1>7 DEF Next, validateAndStoreBlocks

LEMMA Invariance ==
    Spec => []SyncInv
<1>1. SyncInv /\ [Next]_vars => SyncInv'
  BY NextInv
<1> QED BY <1>1, InitInv, PTL DEF Spec

\* The goroutine finds in the pool what it reads there without a check, for
\* every server chain, pool size and order of delivery.
THEOREM PoolIsSafe ==
    Spec => []PoolKeepsWhatWasChecked
<1>1. SyncInv => PoolKeepsWhatWasChecked
  <2> SUFFICES ASSUME SyncInv PROVE PoolKeepsWhatWasChecked
    OBVIOUS
  <2>1. pc \in {"checked", "store"} => Present(height)
    BY DEF SyncInv, Pooled
  <2>2. ASSUME pc = "delete", AtEBlock
        PROVE  Key("e", theBlock) \in blockpool
    <3>1. /\ pos \in 4 .. Len(DBEntries(height))
          /\ DBEntries(height)[pos] = Key("e", theBlock)
      BY <2>2, AtHeight
    <3> QED BY <2>2, <3>1 DEF SyncInv, Pooled
  <2> QED BY <2>1, <2>2 DEF PoolKeepsWhatWasChecked
<1> QED BY <1>1, Invariance, PTL

\* A reader finds below each stored directory block all that it stands for.
LEMMA MirrorIsComplete ==
    ASSUME SyncInv
    PROVE  mirror = [h \in 0 .. lastDirBlkHeight |-> Content[h]]
BY DEF SyncInv, Prefix, mirror

\* The client implements Mirror, for every server chain, pool size and number
\* of restarts: the stored directory is at any time a complete prefix of the
\* server's and grows by one height at a time.
THEOREM ClientMirrorsServer ==
    Spec => MirrorsServer
<1>1. Init => MirrorOfServer!Init
  <2> SUFFICES ASSUME Init PROVE MirrorOfServer!Init
    OBVIOUS
  <2>1. StoredHeights = {}
    BY DEF Init, StoredHeights
  <2> QED BY <2>1 DEF MirrorOfServer!Init, mirror
<1>2. SyncInv /\ SyncInv' /\ [Next]_vars => [MirrorOfServer!Next]_mirror
  <2> SUFFICES ASSUME SyncInv, SyncInv', [Next]_vars
               PROVE  [MirrorOfServer!Next]_mirror
    OBVIOUS
  <2> DEFINE n == lastDirBlkHeight + 1
  <2>1. /\ mirror = [h \in 0 .. lastDirBlkHeight |-> Content[h]]
        /\ mirror' = [h \in 0 .. lastDirBlkHeight' |-> Content[h]]
    BY MirrorIsComplete DEF SyncInv, Prefix, mirror
  <2>2. CASE lastDirBlkHeight' = lastDirBlkHeight
    BY <2>1, <2>2
  <2>3. CASE lastDirBlkHeight' = n
    <3>1. n \in 0 .. Top /\ n - 1 = lastDirBlkHeight
      BY <2>3 DEF SyncInv, Counters
    <3>2. mirror' = [h \in 0 .. n |-> IF h < n THEN mirror[h] ELSE Content[n]]
      BY <2>1, <2>3, <3>1
    <3>3. DOMAIN mirror = 0 .. (n - 1)
      BY <2>1, <3>1
    <3> QED BY <3>1, <3>2, <3>3 DEF MirrorOfServer!Next, MirrorOfServer!Copy
  <2> QED BY <2>2, <2>3, NextInv
<1> QED
  BY <1>1, <1>2, Invariance, PTL DEF Spec, MirrorsServer, MirrorOfServer!Spec

----------------------------------------------------------------------------
\* Type correctness: with SyncInv, the parts of the state it says nothing of

DirKeys == {DirKey(h) : h \in Heights}

Records == UNION {Content[h] \cup {DirKey(h)} : h \in Heights}

\* The inner counter stays inside the entry block it runs over.
Inside ==
    pc \in {"store", "delete"} =>
        sub \in 1 .. (IF AtEBlock THEN Len(Body[theBlock]) + 2 ELSE 1)

Typed ==
    /\ blockpool \subseteq Messages \cup DirKeys
    /\ db \subseteq Records
    /\ applied \in [AppliedKinds -> [Heights -> Nat]]
    /\ boots \in Nat \ {0}
    /\ Inside

\* The block that a place in directory block h names has a length.
LEMMA PlaceLength ==
    ASSUME NEW h \in Heights, NEW p \in Int, 3 < p, p <= Len(DBEntries(h))
    PROVE  /\ Listed[h][p - 3] \in EBlocks
           /\ Len(Body[Listed[h][p - 3]]) \in Nat
<1>1. Len(Listed[h]) \in Nat /\ Len(DBEntries(h)) = 3 + Len(Listed[h])
  BY ListLength
<1>2. p \in 4 .. (3 + Len(Listed[h]))
  BY <1>1
<1>3. Listed[h][p - 3] \in EBlocks
  BY <1>2, ListLength
<1> QED BY <1>3, BodyLength

\* A loop that begins with its inner counter at 1 is inside.
LEMMA BeginsInside ==
    ASSUME SyncInv', sub' = 1 PROVE Inside'
<1> SUFFICES ASSUME pc' \in {"store", "delete"}
             PROVE  (sub \in 1 .. (IF AtEBlock THEN Len(Body[theBlock]) + 2 ELSE 1))'
  BY DEF Inside
<1>1. height' \in Heights /\ pos' \in 1 .. (Len(DBEntries(height')) + 1)
  BY DEF SyncInv, Counters, height
<1>2. Len(DBEntries(height')) \in Nat
  BY <1>1, ListLength
<1>3. pos' \in Int
  BY <1>1, <1>2
<1>4. ASSUME AtEBlock' PROVE (Len(Body[theBlock]) \in Nat)'
  BY <1>1, <1>3, <1>4, PlaceLength DEF AtEBlock, theBlock
<1> QED BY <1>4

\* What the pool gives to the database is of the server's chain.
LEMMA MessagesAreRecords ==
    Messages \cup DirKeys \subseteq Records
BY DEF Messages, DirKeys, Records, Content

\* What a directory block names is of the server's chain.
LEMMA NamedAreRecords ==
    ASSUME NEW h \in Heights
    PROVE  /\ DirKey(h) \in Records
           /\ \A i \in 1 .. Len(DBEntries(h)) : DBEntries(h)[i] \in Records
           /\ \A b \in EBlocksAt(h) : ChainKeys(b) \subseteq Records
<1>1. Content[h] \cup {DirKey(h)} \subseteq Records
  BY DEF Records
<1>2. \A i \in 1 .. Len(DBEntries(h)) : DBEntries(h)[i] \in Content[h]
  BY ListLength DEF Content, MessagesAt, BlockKeys
<1>3. \A b \in EBlocksAt(h) : ChainKeys(b) \subseteq Content[h]
  BY DEF Content
<1> QED BY <1>1, <1>2, <1>3

LEMMA TypedReceive ==
    ASSUME SyncInv, Typed, Receive PROVE Typed'
<1>1. UNCHANGED <<sync, boots>>
  BY DEF Receive, processBlock, processDirBlock, addDirBlockMsg
<1>2. blockpool' \subseteq Messages \cup DirKeys
  <2>1. ASSUME NEW k \in Messages, processBlock(k)
        PROVE  blockpool' \subseteq Messages \cup DirKeys
    BY <2>1 DEF processBlock, addBlockMsg, Typed
  <2>2. ASSUME NEW h \in Heights, processDirBlock(h)
        PROVE  blockpool' \subseteq Messages \cup DirKeys
    BY <2>2 DEF processDirBlock, Typed
  <2>3. CASE addDirBlockMsg
    <3>1. waiting \in Heights
      BY <2>3 DEF addDirBlockMsg, SyncInv, Counters
    <3> QED BY <2>3, <3>1 DEF addDirBlockMsg, addBlockMsg, Typed, DirKeys
  <2> QED BY <2>1, <2>2, <2>3 DEF Receive
<1>3. Inside'
  BY <1>1 DEF Typed, Inside, sync, AtEBlock, theBlock, height
<1> QED BY <1>1, <1>2, <1>3 DEF Typed, sync

LEMMA TypedStore ==
    ASSUME SyncInv, Typed, SyncInv',
           \/ storeSystemBlock \/ storeEntry \/ storeEBlock \/ storeChain \/ storeDirBlock
    PROVE  Typed'
<1>1. /\ pc = "store" /\ UNCHANGED <<blockpool, boots>>
  BY DEF storeSystemBlock, storeEntry, storeEBlock, storeChain, storeDirBlock
<1>2. /\ height \in Heights /\ pos \in 1 .. (Len(DBEntries(height)) + 1)
      /\ Len(DBEntries(height)) \in Nat /\ sub \in Nat
      /\ AtEBlock => /\ theBlock \in EBlocksAt(height)
                     /\ DBEntries(height)[pos] = Key("e", theBlock)
                     /\ pos \in 4 .. Len(DBEntries(height))
                     /\ Len(Body[theBlock]) \in Nat
  BY <1>1, AtHeight
<1>3. CASE storeSystemBlock
  <2>1. /\ pos \in 1 .. 3 /\ sub' = sub /\ sub = 1
        /\ db' = db \cup {DBEntries(height)[pos]}
    BY <1>2, <1>3 DEF storeSystemBlock, AtSystemBlock, SyncInv, Counters
  <2>2. db' \subseteq Records
    <3>1. pos \in 1 .. Len(DBEntries(height))
      BY <1>2, <2>1, ListLength
    <3> QED BY <1>2, <2>1, <3>1, NamedAreRecords DEF Typed
  <2>3. applied' \in [AppliedKinds -> [Heights -> Nat]]
    BY <1>3 DEF storeSystemBlock, Typed
  <2> QED BY <1>1, <2>1, <2>2, <2>3, BeginsInside DEF Typed
<1>4. CASE storeEntry \/ storeEBlock
  <2>1. /\ AtEBlock /\ sub <= Len(Body[theBlock]) + 1 /\ sub' = sub + 1
        /\ UNCHANGED <<pc, pos, lastDirBlkHeight, applied>>
    BY <1>2, <1>4 DEF storeEntry, storeEBlock
  <2>2. db' \subseteq Records
    <3>1. db' \subseteq db \cup blockpool \cup {DBEntries(height)[pos]}
      BY <1>2, <1>4, <2>1 DEF storeEntry, storeEBlock
    <3>2. DBEntries(height)[pos] \in Records
      BY <1>2, <2>1, NamedAreRecords
    <3> QED BY <3>1, <3>2, MessagesAreRecords DEF Typed
  <2>3. AtEBlock' /\ theBlock' = theBlock
    BY <2>1 DEF AtEBlock, theBlock, height
  <2>4. Inside'
    BY <1>2, <2>1, <2>3 DEF Inside
  <2> QED BY <1>1, <2>1, <2>2, <2>4 DEF Typed
<1>5. CASE storeChain
  <2>1. /\ AtEBlock /\ UNCHANGED applied /\ db' \in {db, db \cup ChainKeys(theBlock)}
    BY <1>5 DEF storeChain
  <2>2. db' \subseteq Records
    BY <1>2, <2>1, NamedAreRecords DEF Typed
  <2>3. Inside'
    <3>1. CASE pc' = "panic"
      BY <3>1 DEF Inside
    <3>2. CASE sub' = 1
      BY <3>2, BeginsInside
    <3> QED BY <1>5, <3>1, <3>2 DEF storeChain
  <2> QED BY <1>1, <2>1, <2>2, <2>3 DEF Typed
<1>6. CASE storeDirBlock
  <2>1. sub' = 1 /\ UNCHANGED applied /\ db' = db \cup {DirKey(height)}
    BY <1>6 DEF storeDirBlock
  <2>2. db' \subseteq Records
    BY <1>2, <2>1, NamedAreRecords DEF Typed
  <2> QED BY <1>1, <2>1, <2>2, BeginsInside DEF Typed
<1> QED BY <1>3, <1>4, <1>5, <1>6

LEMMA TypedDelete ==
    ASSUME SyncInv, Typed, SyncInv',
           \/ deleteSystemBlock \/ deleteEntry \/ deleteEBlock \/ deleteDirBlock
    PROVE  Typed'
<1>1. /\ pc = "delete" /\ blockpool' \subseteq blockpool
      /\ UNCHANGED <<lastDirBlkHeight, applied, db, boots>>
  BY DEF deleteSystemBlock, deleteEntry, deleteEBlock, deleteDirBlock
<1>2. Inside'
  <2>1. CASE deleteSystemBlock
    <3>1. pos <= 3 /\ sub' = sub
      BY <2>1 DEF deleteSystemBlock, AtSystemBlock
    <3>2. pos \in Int
      BY <1>1, AtHeight
    <3>3. sub = 1
      BY <1>1, <3>1, <3>2 DEF Typed, Inside, AtEBlock
    <3> QED BY <3>1, <3>3, BeginsInside
  <2>2. CASE deleteEntry
    <3>1. /\ AtEBlock /\ sub <= Len(Body[theBlock]) /\ sub' = sub + 1
          /\ UNCHANGED <<pc, pos>>
      BY <2>2 DEF deleteEntry
    <3>2. AtEBlock' /\ theBlock' = theBlock
      BY <1>1, <3>1 DEF AtEBlock, theBlock, height
    <3>3. sub \in Nat /\ Len(Body[theBlock]) \in Nat
      BY <1>1, <3>1, AtHeight
    <3> QED BY <3>1, <3>2, <3>3 DEF Inside
  <2>3. CASE deleteEBlock
    BY <2>3, BeginsInside DEF deleteEBlock
  <2>4. CASE deleteDirBlock
    BY <2>4 DEF deleteDirBlock, Inside
  <2> QED BY <2>1, <2>2, <2>3, <2>4
<1> QED BY <1>1, <1>2 DEF Typed

LEMMA TypedStep ==
    ASSUME SyncInv, Typed, [Next]_vars, SyncInv' PROVE Typed'
<1>1. CASE validateBlocks
  BY <1>1 DEF validateBlocks, Typed, Inside
<1>2. CASE beginStore
  BY <1>2, BeginsInside DEF beginStore, Typed
<1>3. CASE initProcessor
  <2>1. /\ blockpool' = {} /\ boots' = boots + 1 /\ db' = db /\ sub' = 1
        /\ applied' = [k \in AppliedKinds |-> [h \in Heights |->
                          IF Key(k, h) \in db THEN 1 ELSE 0]]
    BY <1>3 DEF initProcessor
  <2> QED BY <2>1, BeginsInside DEF Typed
<1>4. CASE UNCHANGED vars
  BY <1>4 DEF vars, sync, Typed, Inside, AtEBlock, theBlock, height
<1> QED BY <1>1, <1>2, <1>3, <1>4, TypedReceive, TypedStore, TypedDelete
        DEF Next, validateAndStoreBlocks

LEMMA TypedInvariant == Spec => [](SyncInv /\ Typed)
<1>1. Init => Typed
  BY DEF Init, Typed, Inside
<1>2. SyncInv /\ Typed /\ [Next]_vars => SyncInv' /\ Typed'
  BY NextInv, TypedStep
<1> QED BY <1>1, <1>2, InitInv, PTL DEF Spec

\* Type correctness of a client: the loop counters of storeBlocksFromMemPool and
\* deleteBlocksFromMemPool stay inside the directory block and the entry block
\* they run over, the height cache inside the chain, and the pool and the
\* database hold nothing but the server's records.
THEOREM ClientTypes == Spec => []TypeOK
<1>1. SyncInv /\ Typed => TypeOK
  <2> SUFFICES ASSUME SyncInv, Typed PROVE TypeOK
    OBVIOUS
  <2>1. pc \in {"checked", "store", "delete"} => height \in Heights
    BY DEF SyncInv, Counters, height
  <2>2. /\ blockpool \subseteq Messages \cup {DirKey(h) : h \in Heights}
        /\ db \subseteq UNION {Content[h] \cup {DirKey(h)} : h \in Heights}
    BY DEF Typed, DirKeys, Records
  <2>3. pc \in {"store", "delete"} =>
           /\ pos \in 1 .. (Len(DBEntries(height)) + 1)
           /\ sub \in 1 .. (IF AtEBlock THEN Len(Body[theBlock]) + 2 ELSE 1)
    BY DEF SyncInv, Counters, Typed, Inside
  <2> QED BY <2>1, <2>2, <2>3 DEF SyncInv, Counters, Typed, TypeOK
<1> QED BY <1>1, TypedInvariant, PTL

----------------------------------------------------------------------------
\* What the database holds beyond the last directory block

\* No block of a height that the goroutine has not come to.
SystemBelow ==
    \A k \in {"a", "ec", "f"} : \A h \in Heights :
        Key(k, h) \in db => h <= lastDirBlkHeight + 1

\* Every stored entry block is of such a height.
EBlocksBelow ==
    \A b \in EBlocks : Key("e", b) \in db =>
        \E h \in Heights : h <= lastDirBlkHeight + 1 /\ b \in EBlocksAt(h)

Below == SystemBelow /\ EBlocksBelow

LEMMA BelowStep ==
    ASSUME SyncInv, Below, [Next]_vars PROVE Below'
<1>0. \/ lastDirBlkHeight' = lastDirBlkHeight
      \/ lastDirBlkHeight' = lastDirBlkHeight + 1
  BY NextInv
<1>1. lastDirBlkHeight \in Int /\ lastDirBlkHeight <= lastDirBlkHeight'
  BY <1>0, ConstantTypes DEF SyncInv, Counters
<1>2. \A h \in Heights : h <= lastDirBlkHeight + 1 => h <= lastDirBlkHeight' + 1
  BY <1>0, <1>1 DEF Heights
<1>3. ASSUME \A k \in {"a", "ec", "f"} : \A h \in Heights :
                 Key(k, h) \in db' \ db => h <= lastDirBlkHeight + 1,
             \A b \in EBlocks : Key("e", b) \in db' \ db =>
                 \E h \in Heights : h <= lastDirBlkHeight + 1 /\ b \in EBlocksAt(h)
      PROVE  Below'
  <2>1. SystemBelow'
    BY <1>2, <1>3 DEF Below, SystemBelow
  <2>2. EBlocksBelow'
    BY <1>2, <1>3 DEF Below, EBlocksBelow
  <2> QED BY <2>1, <2>2 DEF Below
<1>4. CASE db' = db
  BY <1>3, <1>4
<1>5. CASE storeSystemBlock
  <2>1. /\ pc = "store" /\ pos <= 3 /\ height = lastDirBlkHeight + 1
        /\ db' = db \cup {DBEntries(height)[pos]}
    BY <1>5 DEF storeSystemBlock, AtSystemBlock, height
  <2>2. height \in Heights /\ pos \in 1 .. 3
    BY <2>1, AtHeight
  <2>3. DBEntries(height)[pos] = Key(SystemKinds[pos], height) /\ SystemKinds[pos] # "e"
    BY <2>2, ListLength DEF SystemKinds
  <2>4. \A k, h : Key(k, h) \in {DBEntries(height)[pos]} => k # "e" /\ h = height
    BY <2>3, KeysDiffer
  <2>5. \A h \in Heights : h = height => h <= lastDirBlkHeight + 1
    BY <1>1, <2>1
  <2> QED BY <1>3, <2>1, <2>4, <2>5
<1>6. CASE storeEBlock
  <2>1. /\ pc = "store" /\ AtEBlock /\ height = lastDirBlkHeight + 1
        /\ db' = db \cup {Key("e", theBlock)}
    BY <1>6 DEF storeEBlock, height
  <2>2. height \in Heights /\ theBlock \in EBlocksAt(height)
    BY <2>1, AtHeight
  <2>3. \A k, x : Key(k, x) \in {Key("e", theBlock)} => k = "e" /\ x = theBlock
    BY KeysDiffer
  <2>4. height <= lastDirBlkHeight + 1
    BY <1>1, <2>1
  <2> QED BY <1>3, <2>1, <2>2, <2>3, <2>4
<1>7. ASSUME \A m \in db' \ db :
                 \E k, x : m = Key(k, x) /\ k \in {"entry", "chain", "dir"}
      PROVE  Below'
  <2>1. \A k \in {"a", "ec", "f", "e"} : \A x : Key(k, x) \notin db' \ db
    BY <1>7, KeysDiffer
  <2> QED BY <1>3, <2>1
<1>8. CASE storeEntry \/ storeChain \/ storeDirBlock
  <2> DEFINE W == {Key("entry", Body[theBlock][sub])} \cup ChainKeys(theBlock)
                    \cup {DirKey(height)}
  <2>1. db' \subseteq db \cup W
    BY <1>8 DEF storeEntry, storeChain, storeDirBlock
  <2>2. \A m \in W : \E k, x : m = Key(k, x) /\ k \in {"entry", "chain", "dir"}
    BY DEF ChainKeys, DirKey
  <2> HIDE DEF W
  <2> QED BY <1>7, <2>1, <2>2
<1>9. CASE Receive \/ validateBlocks \/ beginStore \/ initProcessor \/ UNCHANGED vars
           \/ deleteSystemBlock \/ deleteEntry \/ deleteEBlock \/ deleteDirBlock
  BY <1>4, <1>9 DEF Receive, processBlock, processDirBlock, addDirBlockMsg, sync, vars,
     validateBlocks, beginStore, initProcessor, deleteSystemBlock, deleteEntry,
     deleteEBlock, deleteDirBlock
<1> QED BY <1>5, <1>6, <1>8, <1>9 DEF Next, validateAndStoreBlocks

\* The loop has stored the first entry of a block before it looks it up.
LEMMA FirstEntryFound ==
    ASSUME SyncInv, storeChain
    PROVE  Key("entry", Body[theBlock][1]) \in db
<1>1. pc = "store" /\ AtEBlock /\ sub = Len(Body[theBlock]) + 2
  BY DEF storeChain
<1>2. Len(Body[theBlock]) \in Nat /\ theBlock \in EBlocks
  BY <1>1, AtHeight
<1>3. Body[theBlock] # <<>> /\ Body[theBlock][1] # None
  BY <1>2, ConstantTypes
<1>4. 1 \in 1 .. Len(Body[theBlock])
  BY <1>2, <1>3, ConstantTypes
<1>5. Key("entry", Body[theBlock][1]) \in db \cup {Marker}
  BY <1>1, <1>2, <1>4 DEF SyncInv, Progress
<1>6. Key("entry", Body[theBlock][1]) # Marker
  BY <1>3, KeysDiffer DEF Marker
<1> QED BY <1>5, <1>6

----------------------------------------------------------------------------
\* How often a block is applied

\* The goroutine has stored the block of this kind of the height it is at.
Past(k) == pc = "store" /\ pos > IF k = "ec" THEN 2 ELSE 3

\* Below the height the goroutine is at a block is applied once or twice, above
\* it never; at it, once it is past, and before only by a start that found it in
\* the database.
AppliedAt(k, h) ==
    /\ h <= lastDirBlkHeight => applied[k][h] \in {1, 2}
    /\ h > lastDirBlkHeight + 1 => applied[k][h] = 0
    /\ h = lastDirBlkHeight + 1 =>
          applied[k][h] \in IF Past(k) THEN {1, 2} ELSE {0, 1}
    /\ boots = 1 => applied[k][h] \in {0, 1}
    /\ boots = 1 /\ h = lastDirBlkHeight + 1 /\ ~Past(k) => applied[k][h] = 0

Twice(k) == {h \in Heights : applied[k][h] = 2}

\* One height is applied twice at most, and none while one may still be.
OneTwice(k) ==
    /\ \A g, h \in Twice(k) : g = h
    /\ \A h \in Heights : h = lastDirBlkHeight + 1 /\ ~Past(k) /\ applied[k][h] = 1
          => Twice(k) = {}

KindOK(k) == OneTwice(k) /\ \A h \in Heights : AppliedAt(k, h)

AppliedInv == \A k \in AppliedKinds : KindOK(k)

\* A step that neither applies a block nor passes one.
LEMMA KindStays ==
    ASSUME NEW k \in AppliedKinds, KindOK(k),
           Past(k)' = Past(k), UNCHANGED <<lastDirBlkHeight, boots>>,
           \A h \in Heights : applied'[k][h] = applied[k][h]
    PROVE  KindOK(k)'
<1>1. Twice(k)' = Twice(k)
  BY DEF Twice
<1>2. OneTwice(k)'
  BY <1>1 DEF KindOK, OneTwice
<1>3. \A h \in Heights : AppliedAt(k, h)'
  BY DEF KindOK, AppliedAt
<1> QED BY <1>2, <1>3 DEF KindOK

\* The block at which the goroutine is, is stored and applied.
LEMMA KindApplied ==
    ASSUME SyncInv, Typed, NEW k \in AppliedKinds, KindOK(k), ~Past(k), Past(k)',
           height = lastDirBlkHeight + 1, height \in Heights,
           UNCHANGED <<lastDirBlkHeight, boots>>,
           \A h \in Heights : applied'[k][h] =
               IF h = height THEN applied[k][h] + 1 ELSE applied[k][h]
    PROVE  KindOK(k)'
<1>0. lastDirBlkHeight \in Int
  BY ConstantTypes DEF SyncInv, Counters
<1>1. /\ applied[k][height] \in {0, 1}
      /\ boots = 1 => applied[k][height] = 0
      /\ applied[k][height] = 1 => Twice(k) = {}
  BY DEF KindOK, AppliedAt, OneTwice
<1>2. applied'[k][height] = applied[k][height] + 1
  OBVIOUS
<1>3. ASSUME NEW h \in Heights PROVE AppliedAt(k, h)'
  <2>1. CASE h = height
    BY <1>0, <1>1, <1>2, <2>1 DEF AppliedAt
  <2>2. CASE h # height
    BY <1>0, <2>2 DEF KindOK, AppliedAt
  <2> QED BY <2>1, <2>2
<1>4. \A g, h \in Twice(k)' : g = h
  <2>1. CASE applied[k][height] = 0
    <3>1. height \notin Twice(k) /\ height \notin Twice(k)'
      BY <1>2, <2>1 DEF Twice
    <3>2. Twice(k)' = Twice(k)
      BY <3>1 DEF Twice
    <3> QED BY <3>2 DEF KindOK, OneTwice
  <2>2. CASE applied[k][height] = 1
    BY <1>1, <2>2 DEF Twice
  <2> QED BY <1>1, <2>1, <2>2
<1>5. OneTwice(k)'
  BY <1>4 DEF OneTwice
<1> QED BY <1>3, <1>5 DEF KindOK

LEMMA AppliedStep ==
    ASSUME SyncInv, Typed, Below, AppliedInv, [Next]_vars PROVE AppliedInv'
<1>1. CASE /\ UNCHANGED <<lastDirBlkHeight, boots, applied>>
           /\ \A k \in AppliedKinds : Past(k)' = Past(k)
  BY <1>1, KindStays DEF AppliedInv
<1>2. CASE Receive \/ UNCHANGED vars
  BY <1>1, <1>2 DEF Receive, processBlock, processDirBlock, addDirBlockMsg, sync, vars, Past
<1>3. CASE \/ validateBlocks
           \/ deleteSystemBlock \/ deleteEntry \/ deleteEBlock \/ deleteDirBlock
           \/ storeEntry \/ storeEBlock
  BY <1>1, <1>3 DEF validateBlocks, deleteSystemBlock, deleteEntry, deleteEBlock,
     deleteDirBlock, storeEntry, storeEBlock, Past
<1>4. CASE beginStore
  BY <1>1, <1>4 DEF beginStore, Past
<1>5. CASE storeChain
  <2>1. pc = "store" /\ AtEBlock /\ UNCHANGED <<lastDirBlkHeight, boots, applied>>
    BY <1>5 DEF storeChain
  <2>2. pos \in 4 .. Len(DBEntries(height)) /\ Len(DBEntries(height)) \in Nat
    BY <2>1, AtHeight
  <2>4. pos' = pos + 1 /\ pc' = pc
    BY <1>5, FirstEntryFound DEF storeChain
  <2> QED BY <1>1, <2>1, <2>2, <2>4 DEF Past
<1>6. CASE storeSystemBlock
  <2>1. /\ pc = "store" /\ pc' = "store" /\ pos' = pos + 1 /\ pos <= 3
        /\ height = lastDirBlkHeight + 1
        /\ UNCHANGED <<lastDirBlkHeight, boots>>
        /\ applied' = [k \in AppliedKinds |-> [h \in Heights |->
                      IF Key(k, h) = DBEntries(height)[pos]
                      THEN applied[k][h] + 1 ELSE applied[k][h]]]
    BY <1>6 DEF storeSystemBlock, AtSystemBlock, height
  <2>2. height \in Heights /\ pos \in 1 .. 3
    BY <2>1, AtHeight
  <2>3. DBEntries(height)[pos] = Key(SystemKinds[pos], height)
    BY <2>2, ListLength
  <2>4. \A k, h : Key(k, h) = DBEntries(height)[pos] <=> k = SystemKinds[pos] /\ h = height
    BY <2>3, KeysDiffer
  <2>5. ASSUME NEW k \in AppliedKinds PROVE KindOK(k)'
    <3>1. \A h \in Heights : applied'[k][h] =
              IF k = SystemKinds[pos] /\ h = height THEN applied[k][h] + 1 ELSE applied[k][h]
      BY <2>1, <2>4
    <3>2. CASE k = SystemKinds[pos]
      <4>1. ~Past(k) /\ Past(k)'
        BY <2>1, <2>2, <3>2 DEF Past, SystemKinds, AppliedKinds
      <4> QED BY <2>1, <2>2, <3>1, <3>2, <4>1, KindApplied DEF AppliedInv
    <3>3. CASE k # SystemKinds[pos]
      <4>1. Past(k)' = Past(k)
        BY <2>1, <2>2, <3>3 DEF Past, SystemKinds, AppliedKinds
      <4> QED BY <2>1, <3>1, <3>3, <4>1, KindStays DEF AppliedInv
    <3> QED BY <3>2, <3>3
  <2> QED BY <2>5 DEF AppliedInv
<1>7. CASE storeDirBlock
  <2>1. /\ pc = "store" /\ pos = Len(DBEntries(height)) + 1 /\ pc' = "delete"
        /\ height = lastDirBlkHeight + 1 /\ lastDirBlkHeight' = lastDirBlkHeight + 1
        /\ UNCHANGED <<boots, applied>>
    BY <1>7 DEF storeDirBlock, height
  <2>2. pos > 3 /\ lastDirBlkHeight \in Int
    BY <2>1, AtHeight, ConstantTypes DEF SyncInv, Counters
  <2>3. \A k \in AppliedKinds : Past(k) /\ ~Past(k)' /\ Twice(k)' = Twice(k)
    BY <2>1, <2>2 DEF Past, Twice
  <2>4. ASSUME NEW k \in AppliedKinds, NEW h \in Heights PROVE AppliedAt(k, h)'
    <3>1. AppliedAt(k, h) /\ h \in Int
      BY DEF AppliedInv, KindOK, Heights
    <3>2. h <= lastDirBlkHeight \/ h = lastDirBlkHeight + 1 \/ h > lastDirBlkHeight + 1
      BY <2>2, <3>1
    <3> QED BY <2>1, <2>2, <2>3, <3>1, <3>2 DEF AppliedAt
  <2>5. ASSUME NEW k \in AppliedKinds PROVE OneTwice(k)'
    <3>1. \A h \in Heights : h = lastDirBlkHeight' + 1 => applied'[k][h] = 0
      BY <2>1, <2>2 DEF AppliedInv, KindOK, AppliedAt, Heights
    <3> QED BY <2>3, <3>1 DEF AppliedInv, KindOK, OneTwice
  <2> QED BY <2>4, <2>5 DEF AppliedInv, KindOK
<1>8. CASE initProcessor
  <2>1. /\ boots' = boots + 1 /\ pc' # "store"
        /\ lastDirBlkHeight' = lastDirBlkHeight
        /\ applied' = [k \in AppliedKinds |-> [h \in Heights |->
                          IF Key(k, h) \in db THEN 1 ELSE 0]]
    BY <1>8, RestartInv DEF initProcessor
  <2>2. boots' # 1 /\ lastDirBlkHeight \in Int
    BY <2>1, ConstantTypes DEF Typed, SyncInv, Counters
  <2>3. ASSUME NEW k \in AppliedKinds PROVE KindOK(k)'
    <3>1. ~Past(k)' /\ Twice(k)' = {}
      BY <2>1 DEF Past, Twice
    <3>2. ASSUME NEW h \in Heights PROVE AppliedAt(k, h)'
      <4>1. h <= lastDirBlkHeight => Key(k, h) \in db
        <5>1. Key(k, h) \in BlockKeys(h)
          <6>1. \E i \in 1 .. 3 : SystemKinds[i] = k
            BY DEF AppliedKinds, SystemKinds
          <6> QED BY <6>1, ListLength DEF BlockKeys
        <5>2. h <= lastDirBlkHeight => h \in StoredHeights
          BY <2>2 DEF SyncInv, Prefix, Heights
        <5> QED BY <5>1, <5>2 DEF SyncInv, Prefix, Content, MessagesAt
      <4>2. h > lastDirBlkHeight + 1 => Key(k, h) \notin db
        BY <2>2 DEF Below, SystemBelow, AppliedKinds, Heights
      <4>3. h \in Int
        BY DEF Heights
      <4> QED BY <2>1, <2>2, <3>1, <4>1, <4>2, <4>3 DEF AppliedAt
    <3> QED BY <3>1, <3>2 DEF KindOK, OneTwice
  <2> QED BY <2>3 DEF AppliedInv
<1> QED BY <1>2, <1>3, <1>4, <1>5, <1>6, <1>7, <1>8 DEF Next, validateAndStoreBlocks

\* All that is invariant of a client.
ClientInv == SyncInv /\ Typed /\ Below /\ AppliedInv

LEMMA ClientInvariant == Spec => []ClientInv
<1>1. Init => Typed /\ Below /\ AppliedInv
  <2> SUFFICES ASSUME Init PROVE Typed /\ Below /\ AppliedInv
    OBVIOUS
  <2>1. Typed
    BY DEF Init, Typed, Inside
  <2>2. Below
    BY DEF Init, Below, SystemBelow, EBlocksBelow
  <2>3. AppliedInv
    BY DEF Init, AppliedInv, KindOK, OneTwice, AppliedAt, Twice, Past, Heights
  <2> QED BY <2>1, <2>2, <2>3
<1>2. ClientInv /\ [Next]_vars => ClientInv'
  BY NextInv, TypedStep, BelowStep, AppliedStep DEF ClientInv
<1> QED BY <1>1, <1>2, InitInv, PTL DEF Spec, ClientInv

\* The entry credit and factoid blocks of every stored height are applied to the
\* balances in memory, at most one of each kind twice, and only after a restart:
\* storeBlocksFromMemPool applies a block that initECChain or initFctChain has
\* applied already only if the process died between it and its directory block.
THEOREM BlocksApplied == Spec => []BlocksAppliedOnce
<1>1. ClientInv => BlocksAppliedOnce
  <2> SUFFICES ASSUME ClientInv, NEW k \in AppliedKinds
               PROVE  LET twice == {h \in Heights : applied[k][h] > 1} IN
                      /\ \A h \in StoredHeights : applied[k][h] >= 1
                      /\ \A h \in twice : applied[k][h] = 2
                      /\ Cardinality(twice) <= IF boots = 1 THEN 0 ELSE 1
    BY DEF BlocksAppliedOnce
  <2> DEFINE twice == {h \in Heights : applied[k][h] > 1}
  <2>1. \A h \in Heights : AppliedAt(k, h)
    BY DEF ClientInv, AppliedInv, KindOK
  <2>2. lastDirBlkHeight \in Int
    BY ConstantTypes DEF ClientInv, SyncInv, Counters
  <2>3. \A h \in Heights : applied[k][h] \in {0, 1, 2}
    BY <2>1, <2>2 DEF AppliedAt, Heights
  <2>4. twice = Twice(k)
    BY <2>3 DEF Twice
  <2>5. \A h \in StoredHeights : applied[k][h] \in {1, 2}
    <3>1. \A h \in StoredHeights : h \in Heights /\ h <= lastDirBlkHeight
      BY <2>2 DEF ClientInv, SyncInv, Prefix, StoredHeights
    <3> QED BY <2>1, <3>1 DEF AppliedAt
  <2>6. \A h \in StoredHeights : applied[k][h] >= 1
    BY <2>5
  <2>7. CASE twice = {}
    BY <2>4, <2>6, <2>7, FS_EmptySet DEF Twice
  <2>8. CASE twice # {}
    <3>1. PICK h : h \in twice
      BY <2>8
    <3>2. twice = {h}
      BY <2>4, <3>1 DEF ClientInv, AppliedInv, KindOK, OneTwice
    <3>3. Cardinality(twice) = 1
      BY <3>2, FS_Singleton
    <3>4. boots # 1
      BY <2>1, <2>3, <3>1 DEF AppliedAt
    <3> QED BY <2>4, <2>6, <3>3, <3>4 DEF Twice
  <2> QED BY <2>7, <2>8
<1> QED BY <1>1, ClientInvariant, PTL

----------------------------------------------------------------------------
\* The start

\* A finite set of numbers with all the smaller ones of each is 0, 1, ...
LEMMA ClosedIsConsecutive ==
    ASSUME NEW S \in SUBSET Nat, IsFiniteSet(S),
           \A n \in S : \A m \in 0 .. (n - 1) : m \in S
    PROVE  Consecutive(S)
<1> DEFINE n == Cardinality(S)
<1>1. n \in Nat
  BY FS_CardinalityType
<1>2. /\ IsFiniteSet(0 .. (n - 1)) /\ Cardinality(0 .. (n - 1)) = n
      /\ IsFiniteSet(0 .. n) /\ Cardinality(0 .. n) = n + 1
  <2> HIDE DEF n
  <2> QED BY <1>1, FS_Interval
<1>3. n \notin S
  <2> SUFFICES ASSUME n \in S PROVE FALSE
    OBVIOUS
  <2>1. 0 .. n \subseteq S
    BY <1>1
  <2>2. Cardinality(0 .. n) <= n
    BY <2>1, FS_Subset
  <2> HIDE DEF n
  <2> QED BY <1>1, <1>2, <2>2
<1>4. S \subseteq 0 .. (n - 1)
  <2> SUFFICES ASSUME NEW m \in S PROVE m \in 0 .. (n - 1)
    OBVIOUS
  <2>1. m \in Nat /\ \A l \in 0 .. (m - 1) : l \in S
    OBVIOUS
  <2> HIDE DEF n
  <2> QED BY <1>1, <1>3, <2>1
<1>5. S = 0 .. (n - 1)
  BY <1>2, <1>4, FS_Subset
<1> QED BY <1>5 DEF Consecutive

\* The stored heights of a kind end with the last directory block or one later.
LEMMA HeightsOfKind ==
    ASSUME SyncInv, Below, NEW k \in {"a", "ec", "f"}
    PROVE  Consecutive(HeightsOf(k)) /\ HasPredecessor(k)
<1>1. lastDirBlkHeight \in -1 .. Top /\ StoredHeights = 0 .. lastDirBlkHeight /\ Top \in Nat
  BY ConstantTypes DEF SyncInv, Counters, Prefix
<1>2. StoredHeights \subseteq HeightsOf(k)
  <2> SUFFICES ASSUME NEW h \in StoredHeights PROVE h \in HeightsOf(k)
    OBVIOUS
  <2>1. h \in Heights
    BY DEF StoredHeights
  <2>2. Key(k, h) \in BlockKeys(h)
    <3>1. \E i \in 1 .. 3 : SystemKinds[i] = k
      BY DEF SystemKinds
    <3> QED BY <2>1, <3>1, ListLength DEF BlockKeys
  <2> QED BY <2>1, <2>2 DEF SyncInv, Prefix, Content, MessagesAt, HeightsOf
<1>3. HeightsOf(k) \subseteq 0 .. (lastDirBlkHeight + 1) /\ HeightsOf(k) \subseteq Heights
  BY <1>1 DEF Below, SystemBelow, HeightsOf, Heights
<1>4. IsFiniteSet(HeightsOf(k)) /\ HeightsOf(k) \in SUBSET Nat
  <2>1. IsFiniteSet(Heights) /\ Heights \subseteq Nat
    BY <1>1, FS_Interval DEF Heights
  <2> QED BY <1>3, <2>1, FS_Subset
<1>5. \A n \in HeightsOf(k) : \A m \in 0 .. (n - 1) : m \in HeightsOf(k)
  <2> SUFFICES ASSUME NEW n \in HeightsOf(k), NEW m \in 0 .. (n - 1) PROVE m \in HeightsOf(k)
    OBVIOUS
  <2>1. n \in 0 .. (lastDirBlkHeight + 1)
    BY <1>3
  <2>2. m \in 0 .. lastDirBlkHeight
    BY <1>1, <2>1
  <2> QED BY <1>1, <1>2, <2>2
<1>6. Consecutive(HeightsOf(k))
  BY <1>4, <1>5, ClosedIsConsecutive
<1>7. HasPredecessor(k)
  BY <1>2, <1>4, FS_Subset DEF HasPredecessor
<1> QED BY <1>6, <1>7

\* The stored blocks of an entry chain are numbered from 0.
LEMMA ChainsConsecutive ==
    ASSUME SyncInv, Below, NEW c
    PROVE  Consecutive({SeqOf[x] : x \in BlocksOf(c)})
<1> DEFINE B == BlocksOf(c)
           S == {SeqOf[x] : x \in B}
<1>1. B \subseteq EBlocks /\ S \in SUBSET Nat
  BY ConstantTypes DEF BlocksOf
<1>2. IsFiniteSet(S)
  <2> DEFINE f == [x \in B |-> SeqOf[x]]
  <2>1. f \in Surjection(B, S)
    BY DEF Surjection
  <2>2. IsFiniteSet(B)
    BY <1>1, ServerChains, FS_Subset
  <2> HIDE DEF f, B, S
  <2> QED BY <2>1, <2>2, FS_Surjection
<1>3. ASSUME NEW n \in S, NEW m \in 0 .. (n - 1) PROVE m \in S
  <2>1. PICK x \in B : n = SeqOf[x]
    OBVIOUS
  <2>2. PICK h \in Heights : h <= lastDirBlkHeight + 1 /\ x \in EBlocksAt(h)
    BY DEF BlocksOf, Below, EBlocksBelow
  <2>3. PICK i \in DOMAIN Listed[h] : Listed[h][i] = x
    BY <2>2 DEF EBlocksAt
  <2>4. \E g \in 0 .. (h - 1) : \E j \in DOMAIN Listed[g] :
            ChainOf[Listed[g][j]] = c /\ SeqOf[Listed[g][j]] = m
    <3>1. ChainOf[x] = c
      BY DEF BlocksOf
    <3> QED BY <1>3, <2>1, <2>3, <3>1, ServerChains
  <2>5. PICK g \in 0 .. (h - 1) : \E j \in DOMAIN Listed[g] :
            ChainOf[Listed[g][j]] = c /\ SeqOf[Listed[g][j]] = m
    BY <2>4
  <2>6. PICK j \in DOMAIN Listed[g] :
            ChainOf[Listed[g][j]] = c /\ SeqOf[Listed[g][j]] = m
    BY <2>5
  <2>7. g \in StoredHeights /\ g \in Heights
    BY <2>2, ConstantTypes DEF SyncInv, Counters, Prefix, Heights
  <2>8. Listed[g][j] \in EBlocks /\ Key("e", Listed[g][j]) \in BlockKeys(g)
    <3>1. j \in 1 .. Len(Listed[g]) /\ Len(Listed[g]) \in Nat
      BY <2>6, <2>7, ListLength
    <3>2. j + 3 \in 4 .. (3 + Len(Listed[g])) /\ (j + 3) - 3 = j
      BY <3>1
    <3>3. /\ Listed[g][(j + 3) - 3] \in EBlocks
          /\ DBEntries(g)[j + 3] = Key("e", Listed[g][(j + 3) - 3])
          /\ j + 3 \in DOMAIN DBEntries(g)
      BY <2>7, <3>1, <3>2, ListLength
    <3> QED BY <3>2, <3>3 DEF BlockKeys
  <2>9. Key("e", Listed[g][j]) \in db
    BY <2>7, <2>8 DEF SyncInv, Prefix, Content, MessagesAt
  <2>10. Listed[g][j] \in B
    BY <2>6, <2>8, <2>9 DEF BlocksOf
  <2> QED BY <2>6, <2>10
<1> HIDE DEF B, S
<1>4. Consecutive(S)
  BY <1>1, <1>2, <1>3, ClosedIsConsecutive
<1> QED BY <1>4 DEF S, B

LEMMA StartSucceeds ==
    ASSUME SyncInv, Below PROVE StartupSucceeds
<1>1. Consecutive(StoredHeights)
  <2>1. /\ lastDirBlkHeight \in -1 .. Top /\ Top \in Nat
        /\ StoredHeights = 0 .. lastDirBlkHeight
    BY ConstantTypes DEF SyncInv, Counters, Prefix
  <2>2. StoredHeights \in SUBSET Nat /\ IsFiniteSet(StoredHeights)
    BY <2>1, FS_Interval
  <2>3. \A n \in StoredHeights : \A m \in 0 .. (n - 1) : m \in StoredHeights
    BY <2>1
  <2> QED BY <2>2, <2>3, ClosedIsConsecutive
<1> QED BY <1>1, HeightsOfKind, ChainsConsecutive DEF StartupSucceeds

\* A client starts on every database it can leave behind, wherever it died, and
\* storeBlocksFromMemPool finds the first entry of every chain it opens. This is
\* where ServerChains is needed.
THEOREM ClientNeverPanics == Spec => []StartupNeverPanics
<1>1. Init => StartupNeverPanics
  BY DEF Init, StartupNeverPanics
<1>2. ASSUME ClientInv, StartupNeverPanics, [Next]_vars PROVE StartupNeverPanics'
  <2>1. SyncInv /\ Below
    BY <1>2 DEF ClientInv
  <2>2. CASE storeChain
    BY <1>2, <2>1, <2>2, FirstEntryFound DEF storeChain, StartupNeverPanics
  <2>3. CASE initProcessor
    BY <2>1, <2>3, StartSucceeds DEF initProcessor, StartupNeverPanics
  <2>4. CASE Receive \/ UNCHANGED vars
    BY <1>2, <2>4 DEF Receive, processBlock, processDirBlock, addDirBlockMsg, vars, sync,
       StartupNeverPanics
  <2>5. CASE \/ validateBlocks \/ beginStore
             \/ storeSystemBlock \/ storeEntry \/ storeEBlock \/ storeDirBlock
             \/ deleteSystemBlock \/ deleteEntry \/ deleteEBlock \/ deleteDirBlock
    BY <1>2, <2>5 DEF validateBlocks, beginStore, storeSystemBlock, storeEntry, storeEBlock,
       storeDirBlock, deleteSystemBlock, deleteEntry, deleteEBlock, deleteDirBlock,
       StartupNeverPanics
  <2> QED BY <1>2, <2>2, <2>3, <2>4, <2>5 DEF Next, validateAndStoreBlocks
<1> QED BY <1>1, <1>2, ClientInvariant, PTL DEF Spec

=============================================================================
