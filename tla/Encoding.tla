------------------------------ MODULE Encoding ------------------------------
(***************************************************************************)
(* The binary forms of entries and blocks, their hashes and merkle roots   *)
(* (common/).                                                              *)
(*                                                                         *)
(* A byte string is a sequence of fields. A field is a pair of its sort    *)
(* and its value: a number, a hash, a chain id, or a message of fixed      *)
(* size. A hash is the pair of what was hashed and how, so different       *)
(* contents have different hashes. What decides how a string is read back  *)
(* is kept: counts, sizes, type bytes and variable integers.               *)
(***************************************************************************)
EXTENDS Integers, Sequences, FiniteSets, SequencesExt

CONSTANTS ChunkBits,    \* bits of a variable integer per byte (7)
          Chunks,       \* bytes of its loop (9); a word has one bit more
          SizeBound     \* the first size that a signed size field cannot hold (2^15)

ASSUME EncodingAssumption == {ChunkBits, Chunks, SizeBound} \subseteq Nat \ {0}

\* A nil pointer, a missing row: the one value without any field.
Nil             == <<>>

Num(n)          == <<"num", n>>
Chain(c)        == <<"chain", c>>
SystemChain(c)  == <<"system", c>>
Sha(how, bytes) == <<how, bytes>>
NewHash         == <<"zero", 0>>

\* The fields of a sequence of pairs, one after the other.
Pairs(s) == [j \in 1 .. (2 * Len(s)) |-> s[(j + 1) \div 2][2 - (j % 2)]]

-----------------------------------------------------------------------------
\* Variable integers

\* A one, shifted to the left.
TwoTo(n) == LET p[k \in 0 .. n] == IF k = 0 THEN 1 ELSE 2 * p[k - 1] IN p[n]

WordBits == ChunkBits * Chunks + 1
Words    == 0 .. (TwoTo(WordBits) - 1)
More     == TwoTo(ChunkBits)            \* 0x80: another byte follows

\* The top ChunkBits + 1 bits of v after i shifts: byte(h >> 56).
TopBits(v, i) ==
    ((v * TwoTo(ChunkBits * i)) % TwoTo(WordBits)) \div TwoTo(WordBits - ChunkBits - 1)

\* Faulty variant: a group of zeros inside the number is left out.
EncodeVarInt_SkipsZeros(v) ==
    LET idx == SelectSeq([i \in 1 .. Chunks |-> i - 1], LAMBDA i : TopBits(v, i) # 0)
    IN  IF v = 0 THEN <<Num(0)>>
        ELSE [k \in DOMAIN idx |->
                Num((TopBits(v, idx[k]) % More) + IF k = Len(idx) THEN 0 ELSE More)]

\* Leading groups of zeros are not written. The high bit has a byte of its own.
EncodeVarInt(v) ==
    LET high       == v >= TwoTo(WordBits - 1)
        start(i)   == high \/ \E j \in 0 .. i : TopBits(v, j) # 0
        skipped    == Cardinality({i \in 0 .. (Chunks - 1) : ~start(i)})
        byte(i)    == (TopBits(v, i) % More) + IF i = Chunks - 1 THEN 0 ELSE More
    IN  (IF v = 0 THEN <<Num(0)>> ELSE <<>>)
        \o (IF high THEN <<Num(More + 1)>> ELSE <<>>)
        \o [k \in 1 .. (Chunks - skipped) |-> Num(byte(skipped + k - 1))]

\* The value, and what follows the first byte without the continuation bit.
DecodeVarInt(data) ==
    LET last == CHOOSE n \in DOMAIN data :
                    /\ data[n][2] < More \/ n = Len(data)
                    /\ \A k \in 1 .. (n - 1) : data[k][2] >= More
        v[k \in 0 .. last] ==
            IF k = 0 THEN 0 ELSE (v[k - 1] * More + (data[k][2] % More)) % TwoTo(WordBits)
    IN  [v    |-> v[last],
         rest |-> SubSeq(data, last + 1, Len(data))]

-----------------------------------------------------------------------------
\* Merkle trees

\* Faulty variant: the left half is copied twice.
hashMerkleBranches_LeftTwice(left, right) == Sha("node", <<left, left>>)

hashMerkleBranches(left, right) == Sha("node", <<left, right>>)

nextPowerOfTwo(n) ==
    LET pow[k \in 0 .. n] == IF k = 0 THEN 1 ELSE 2 * pow[k - 1]
    IN  CHOOSE p \in {pow[k] : k \in 0 .. n} : p >= n /\ p < 2 * n

\* The linear array of BuildMerkleTreeStore: leaves padded with nil, then level
\* by level the parents. A left child without a right one is hashed with itself.
MerkleTree(hashes) ==
    LET p == nextPowerOfTwo(Len(hashes))
        tree[i \in 1 .. (2 * p - 1)] ==
            IF i <= p THEN (IF i <= Len(hashes) THEN hashes[i] ELSE Nil)
            ELSE LET left  == tree[2 * (i - p) - 1]
                     right == tree[2 * (i - p)]
                 IN  IF left = Nil THEN Nil
                     ELSE hashMerkleBranches(left, IF right = Nil THEN left ELSE right)
    IN  tree

MerkleRoot(hashes) == Last(MerkleTree(hashes))

-----------------------------------------------------------------------------
\* Entries: [chain, ext, content], ext a sequence of byte sequences. A size
\* field counts as one byte.

\* A size has sixteen bits. It is read as a signed number.
Uint16(n) == n % (2 * SizeBound)
Int16(n)  == IF n < SizeBound THEN n ELSE n - 2 * SizeBound

MarshalExtID(x) == <<Num(Uint16(Len(x)))>> \o x

MarshalExtIDs(ext) == FlattenSeq([i \in DOMAIN ext |-> MarshalExtID(ext[i])])

MarshalEntry(e) ==
    <<Chain(e.chain), Num(Uint16(Len(MarshalExtIDs(e.ext))))>>
        \o (MarshalExtIDs(e.ext) \o e.content)

EntryHash(e) == Sha("entry", MarshalEntry(e))

\* One round of the loop over the external ids: left bytes of them remain. A
\* missing size counts as 0; a negative one is refused by make, with a panic.
ReadExtID(st) ==
    LET size == IF st.rest = <<>> THEN 0 ELSE Int16(Head(st.rest)[2])
        from == SubSeq(st.rest, 2, Len(st.rest))
        left == st.left - 1 - size
    IN  IF ~st.ok \/ st.left <= 0 THEN st
        ELSE IF size < 0 \/ size > Len(from) \/ left < 0 THEN [st EXCEPT !.ok = FALSE]
        ELSE [ok |-> TRUE, left |-> left, ids |-> Append(st.ids, SubSeq(from, 1, size)),
              rest |-> SubSeq(from, size + 1, Len(from))]

\* Nil stands for an error or a panic. A negative size of all ids is as good as
\* none: what would be the ids belongs to the content.
UnmarshalEntry(data) ==
    LET start == [ok |-> TRUE, left |-> Int16(data[2][2]), ids |-> <<>>,
                  rest |-> SubSeq(data, 3, Len(data))]
        st[k \in 0 .. SizeBound] == IF k = 0 THEN start ELSE ReadExtID(st[k - 1])
        end   == st[SizeBound]
    IN  IF end.ok THEN [chain |-> data[1][2], ext |-> end.ids, content |-> end.rest]
        ELSE Nil

-----------------------------------------------------------------------------
\* Entry blocks

\* AddEndOfMinuteMarker: a hash of zeros but for its last byte.
MinuteMarker(m) == <<"minute", m>>

EmptyEBlock(chain) ==
    [chain |-> chain, bodyMR |-> NewHash, prevKeyMR |-> NewHash,
     prevLedgerKeyMR |-> NewHash, seq |-> 0, height |-> 0, count |-> 0,
     entries |-> <<>>]

EBlockHeader(b) ==
    <<Chain(b.chain), b.bodyMR, b.prevKeyMR, b.prevLedgerKeyMR,
      Num(b.seq), Num(b.height), Num(b.count)>>

BuildEBlockHeader(b) ==
    [b EXCEPT !.bodyMR = MerkleRoot(b.entries), !.count = Len(b.entries)]

MarshalEBlock(b) == EBlockHeader(BuildEBlockHeader(b)) \o b.entries

UnmarshalEBlock(data) ==
    [chain |-> data[1][2], bodyMR |-> data[2], prevKeyMR |-> data[3],
     prevLedgerKeyMR |-> data[4], seq |-> data[5][2], height |-> data[6][2],
     count |-> data[7][2], entries |-> SubSeq(data, 8, 7 + data[7][2])]

EBlockHash(b) == Sha("eblock", MarshalEBlock(b))

\* Sha(Sha(header) + BodyMR), after the header is built.
EBlockKeyMR(b) ==
    LET built == BuildEBlockHeader(b)
    IN  Sha("ekeymr", <<Sha("eheader", EBlockHeader(built)), built.bodyMR>>)

MakeEBlock(chain, next, prev) ==
    IF prev = Nil THEN [EmptyEBlock(chain) EXCEPT !.seq = next]
    ELSE [EmptyEBlock(chain) EXCEPT !.seq = next, !.prevKeyMR = EBlockKeyMR(prev),
                                    !.prevLedgerKeyMR = EBlockHash(prev)]

-----------------------------------------------------------------------------
\* Entry credit blocks. An object is [ecid, msg, index, num]: a marker has a
\* number, a commit a message, a balance increase a transaction with its key, the
\* index of the output and an amount.

EmptyECBlock ==
    [bodyHash |-> NewHash, prevHeaderHash |-> NewHash, prevLedgerKeyMR |-> NewHash,
     height |-> 0, count |-> 0, size |-> 0, entries |-> <<>>]

ECEntry(ecid, msg, index, num) == [ecid |-> ecid, msg |-> msg, index |-> index, num |-> num]

MarkerOf(ecid, n)    == ECEntry(ecid, Nil, 0, n)
CommitOf(msg)        == ECEntry("commit", msg, 0, 0)
Increase(tx, i, n)   == ECEntry("increase", tx, i, n)

Markers == {"server", "minute"}

MarshalECEntry(e) ==
    CASE e.ecid \in Markers -> <<Num(e.num)>>
      [] e.ecid = "commit"  -> <<<<"msg", e.msg>>>>
      [] OTHER              -> <<<<"msg", e.msg>>>>
                                \o (EncodeVarInt(e.index) \o EncodeVarInt(e.num))

MarshalECBody(b) ==
    FlattenSeq([i \in DOMAIN b.entries |->
        <<<<"ecid", b.entries[i].ecid>>>> \o MarshalECEntry(b.entries[i])])

ECBlockHeader(b) ==
    <<b.bodyHash, b.prevHeaderHash, b.prevLedgerKeyMR, Num(b.height),
      Num(b.count), Num(b.size)>>

BuildECBlockHeader(b) ==
    [b EXCEPT !.bodyHash = Sha("ecbody", MarshalECBody(b)),
              !.count = Len(b.entries), !.size = Len(MarshalECBody(b))]

MarshalECBlock(b) == ECBlockHeader(BuildECBlockHeader(b)) \o MarshalECBody(b)

ECBlockHash(b) == Sha("ecblock", MarshalECBlock(b))

\* HeaderHash takes the header as it is.
HeaderHash(b) == Sha("echeader", ECBlockHeader(b))

\* One round of the loop over the objects: the id byte says how much to read.
ReadECEntry(st) ==
    LET ecid == st.rest[1][2]
        from == SubSeq(st.rest, 2, Len(st.rest))
        tail == SubSeq(from, 2, Len(from))
    IN  CASE ecid \in Markers ->
                [rest |-> tail, entries |-> Append(st.entries, MarkerOf(ecid, from[1][2]))]
          [] ecid = "commit" ->
                [rest |-> tail, entries |-> Append(st.entries, CommitOf(from[1][2]))]
          [] OTHER ->
                LET i == DecodeVarInt(tail)
                    n == DecodeVarInt(i.rest)
                IN  [rest |-> n.rest,
                     entries |-> Append(st.entries, Increase(from[1][2], i.v, n.v))]

UnmarshalECBlock(data) ==
    LET count == data[5][2]
        st[k \in 0 .. count] ==
            IF k = 0 THEN [rest |-> SubSeq(data, 7, Len(data)), entries |-> <<>>]
            ELSE ReadECEntry(st[k - 1])
    IN  [bodyHash |-> data[1], prevHeaderHash |-> data[2], prevLedgerKeyMR |-> data[3],
         height |-> data[4][2], count |-> count, size |-> data[6][2],
         entries |-> st[count].entries]

NextECBlock(prev) ==
    [EmptyECBlock EXCEPT !.prevHeaderHash = HeaderHash(prev),
                         !.prevLedgerKeyMR = ECBlockHash(prev),
                         !.height = prev.height + 1]

-----------------------------------------------------------------------------
\* Admin blocks. An entry is [type, value]: a minute or a signature. partial
\* and full keep the two hashes once they have been asked for.

CreateAdminBlock(height, prevLedgerKeyMR) ==
    [prevLedgerKeyMR |-> prevLedgerKeyMR, height |-> height, count |-> 0,
     size |-> 0, entries |-> <<>>, partial |-> Nil, full |-> Nil]

ABEntry(type, value) == [type |-> type, value |-> value]

MarshalABEntry(e) ==
    <<<<"type", e.type>>, IF e.type = "minute" THEN Num(e.value) ELSE e.value>>

\* As many entries as the header says.
MarshalABlock(b) ==
    <<b.prevLedgerKeyMR, Num(b.height), Num(b.count), Num(b.size)>>
        \o Pairs([i \in 1 .. b.count |-> MarshalABEntry(b.entries[i])])

UnmarshalABlock(data) ==
    [prevLedgerKeyMR |-> data[1], height |-> data[2][2], count |-> data[3][2],
     size |-> data[4][2], partial |-> Nil, full |-> Nil,
     entries |-> [i \in 1 .. data[3][2] |->
        LET type == data[3 + 2 * i][2]
            v    == data[4 + 2 * i]
        IN  ABEntry(type, IF type = "minute" THEN v[2] ELSE v)]]

BuildPartialHash(b) ==
    IF b.partial # Nil THEN b ELSE [b EXCEPT !.partial = Sha("ablock", MarshalABlock(b))]

BuildFullHash(b) ==
    IF b.full # Nil THEN b ELSE [b EXCEPT !.full = Sha("afull", MarshalABlock(b))]

-----------------------------------------------------------------------------
\* Directory blocks. An entry is [chain, keyMR].

CreateDBlock(height, prevKeyMR, prevLedgerKeyMR) ==
    [bodyMR |-> Nil, prevKeyMR |-> prevKeyMR, prevLedgerKeyMR |-> prevLedgerKeyMR,
     timestamp |-> 0, height |-> height, count |-> 0, entries |-> <<>>]

DBlockHeader(b) ==
    <<IF b.bodyMR = Nil THEN NewHash ELSE b.bodyMR, b.prevKeyMR, b.prevLedgerKeyMR,
      Num(b.timestamp), Num(b.height), Num(b.count)>>

MarshalDBEntry(e) == <<e.chain, e.keyMR>>

MarshalDBlock(b) ==
    DBlockHeader(b) \o Pairs([i \in DOMAIN b.entries |-> MarshalDBEntry(b.entries[i])])

UnmarshalDBlock(data) ==
    [bodyMR |-> data[1], prevKeyMR |-> data[2], prevLedgerKeyMR |-> data[3],
     timestamp |-> data[4][2], height |-> data[5][2], count |-> data[6][2],
     entries |-> [i \in 1 .. data[6][2] |->
        [chain |-> data[5 + 2 * i], keyMR |-> data[6 + 2 * i]]]]

BuildBodyMR(b) ==
    MerkleRoot([i \in DOMAIN b.entries |-> Sha("dbentry", MarshalDBEntry(b.entries[i]))])

DBlockHash(b) == Sha("dblock", MarshalDBlock(b))

BuildKeyMerkleRoot(b) == MerkleRoot(<<Sha("dheader", DBlockHeader(b)), b.bodyMR>>)

=============================================================================
