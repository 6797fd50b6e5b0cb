----------------------------- MODULE AontClient -----------------------------
(***************************************************************************)
(* The client library (client/client.cpp): write_file in one process and    *)
(* read_file in another, on one file name, over the Cassandra tables meta   *)
(* and blocks.                                                              *)
(*                                                                          *)
(* write_file encrypts each block under FK, encrypts a few randomly chosen  *)
(* ones a second time under the group key GK, hides FK and SK in two tails  *)
(* by XORing them with the hashes of all blocks, and stores the metadata    *)
(* last.  The metadata INSERT is awaited; the block INSERTs are not, and    *)
(* their results are never looked at.                                       *)
(***************************************************************************)
EXTENDS XorCrypto, Sequences

CONSTANTS
  Contents,   \* files: non-empty sequences of plaintext blocks
  SeCounts,   \* values of SE_BLOCKS_COUNT
  KeyNames,   \* what gen_random_bytestream may return
  MaxWrites,  \* bound: write_file calls
  Faults      \* subset of {"crash", "loss", "select"}

ASSUME ClientAssumption ==
  /\ \A c \in Contents : c \in Seq(Range(c))
  /\ SeCounts \subseteq Nat
  /\ MaxWrites \in Nat
  /\ Faults \subseteq {"crash", "loss", "select"}

\* The indexes of the blocks of some file.
Indexes == UNION { 0 .. Len(c) - 1 : c \in Contents }

Keys == { {<<"key", k>>} : k \in KeyNames }
GK == {<<"key", "GK">>}
Plain(c) == {<<"plain", c>>}
IndexBytes(i) == {<<"index", i>>}

Absent == [ver |-> 0, data |-> {}]
NoMeta == [ver |-> 0, n |-> 0, tailFk |-> {}, tailSk |-> {}, tailsSe |-> {}]

VARIABLES
  writing,   \* write_file is under way
  reading,   \* read_file is under way
  ver,       \* write_file calls so far
  content,   \* content[v]: what call v was given (history)
  keys,      \* keys[v]: FK and SK of call v (history for the past ones)
  se,        \* se[v]: super_encrypted_blocks_index of call v (likewise)
  next,      \* current_block of the write
  tailFk, tailSk,
  meta,      \* Cassandra row of table meta, with the call that wrote it
  blocks,    \* Cassandra table blocks: blocks[i] = [ver, data]
  inflight,  \* block INSERTs not executed yet: [ver, idx, data]
  rmeta,     \* the reader's copy of the metadata
  got,       \* got[i]: blocks downloaded so far
  clean,     \* history: every write had ended and landed when the read began,
             \* none has begun since, and no SELECT of the read has failed
  broken,    \* history: a write was cut short, or an INSERT was lost
  result     \* outcome of the last read

writeVars == <<writing, ver, content, keys, se, next, tailFk, tailSk>>
readVars  == <<reading, rmeta, got, clean, result>>
tables    == <<meta, blocks, inflight>>
vars == <<writeVars, readVars, tables, broken>>

NoResult  == [kind |-> "none", value |-> <<>>]
Undefined == [kind |-> "undefined", value |-> <<>>]
Value(v)  == [kind |-> "value", value |-> v]

Init ==
  /\ writing = FALSE /\ reading = FALSE /\ ver = 0 /\ content = <<>>
  /\ keys = <<>> /\ se = <<>> /\ next = 0 /\ tailFk = {} /\ tailSk = {}
  /\ meta = NoMeta
  /\ blocks = [i \in Indexes |-> Absent]
  /\ inflight = {}
  /\ rmeta = NoMeta /\ got = <<>> /\ clean = FALSE
  /\ broken = FALSE
  /\ result = NoResult

-----------------------------------------------------------------------------
(* write_file                                                               *)

Size == Len(content[ver])

\* The head of write_file: keys, and SE_BLOCKS_COUNT distinct random blocks.
\* With more of them than blocks the search for a free one never ends; such
\* calls are left out.  When SE_BLOCKS_COUNT is 0, fk stands for the random IV
\* that write_file_aes encrypts under, and no FK or SK is used.
StartWrite ==
  /\ ~ writing
  /\ ver < MaxWrites
  /\ \E c \in Contents, s \in SeCounts, kf \in Keys, ks \in Keys :
       /\ s <= Len(c)
       /\ \E chosen \in kSubset(s, 0 .. Len(c) - 1) : se' = Append(se, chosen)
       /\ content' = Append(content, c)
       /\ keys' = Append(keys, [fk |-> kf, sk |-> ks])
       /\ tailFk' = kf /\ tailSk' = ks
  /\ ver' = ver + 1
  /\ next' = 0
  /\ writing' = TRUE
  /\ clean' = FALSE
  /\ UNCHANGED <<reading, rmeta, got, result, tables, broken>>

\* Block i of call v as it is stored, and the hashes that enter the two tails:
\* that of the inner ciphertext for FK, of the stored one for SK.
AesBlock(v, i) == Xor(Plain(content[v][i + 1]), Stream(GK \cup keys[v].fk))
EncBlock(v, i) ==
  IF se[v] = {} THEN AesBlock(v, i)
  ELSE AesCtr(keys[v].fk, Plain(content[v][i + 1]))
StoredBlock(v, i) ==
  IF i \in se[v] THEN AesCtr(GK, EncBlock(v, i)) ELSE EncBlock(v, i)

FkHashOfStored(v, i) == Sha(StoredBlock(v, i))
FkHash(v, i) == Sha(EncBlock(v, i))
SkHash(v, i) == Sha(StoredBlock(v, i))

\* Block i of a file is the row named "<file>.i".
BlockNameFromOne(i) == i + 1
BlockName(i) == i

WriteBlock ==
  /\ writing
  /\ next < Size
  /\ inflight' = inflight \cup
       { [ver |-> ver, idx |-> BlockName(next), data |-> StoredBlock(ver, next)] }
  /\ tailFk' = Xor(tailFk, FkHash(ver, next))
  /\ tailSk' = Xor(tailSk, SkHash(ver, next))
  /\ next' = next + 1
  /\ UNCHANGED <<writing, ver, content, keys, se, meta, blocks, readVars, broken>>

\* The locals of write_file are gone.
WriteEnds ==
  /\ writing
  /\ writing' = FALSE
  /\ next' = 0 /\ tailFk' = {} /\ tailSk' = {}
  /\ UNCHANGED <<ver, content, keys, se, blocks, inflight, readVars>>

\* insert_meta is awaited.  write_file_aes stores "" for the tails.
WriteMeta ==
  /\ WriteEnds
  /\ next = Size
  /\ meta' = [ver |-> ver, n |-> Size,
              tailFk |-> IF se[ver] = {} THEN {} ELSE AesCtr(GK, tailFk),
              tailSk |-> IF se[ver] = {} THEN {} ELSE AesCtr(GK, tailSk),
              tailsSe |-> { AesCtr(keys[ver].sk, IndexBytes(i)) : i \in se[ver] }]
  /\ UNCHANGED broken

\* write_file ends without its metadata: the process dies, or the INSERT fails,
\* whose error code is read and not used.  What it has sent may still land.
WriteCutShort ==
  /\ WriteEnds
  /\ \/ "crash" \in Faults
     \/ "loss" \in Faults /\ next = Size
  /\ broken' = TRUE
  /\ UNCHANGED meta

-----------------------------------------------------------------------------
(* Cassandra: INSERTs land in any order; of two to the same row the one     *)
(* issued later wins.                                                       *)

InsertLands ==
  \E w \in inflight :
    /\ inflight' = inflight \ {w}
    /\ blocks' = IF blocks[w.idx].ver > w.ver THEN blocks
                 ELSE [blocks EXCEPT ![w.idx] = [ver |-> w.ver, data |-> w.data]]
    /\ UNCHANGED <<writeVars, readVars, meta, broken>>

InsertLost ==
  /\ "loss" \in Faults
  /\ \E w \in inflight : inflight' = inflight \ {w}
  /\ broken' = TRUE
  /\ UNCHANGED <<writeVars, readVars, meta, blocks>>

-----------------------------------------------------------------------------
(* read_file                                                                *)

StartRead ==
  /\ ~ reading
  /\ meta # NoMeta
  /\ rmeta' = meta
  /\ got' = <<>>
  /\ clean' = (~ writing /\ inflight = {} /\ ~ broken)
  /\ reading' = TRUE
  /\ result' = NoResult
  /\ UNCHANGED <<writeVars, tables, broken>>

\* There is no metadata, or its SELECT fails: the number of blocks, the tails
\* and the pointers to them are what the stack held, and so is what follows.
MetaUnread ==
  /\ ~ reading
  /\ meta = NoMeta \/ "select" \in Faults
  /\ rmeta' = NoMeta
  /\ clean' = FALSE
  /\ result' = Undefined
  /\ UNCHANGED <<reading, got, writeVars, tables, broken>>

\* To the caller of get_block a failed SELECT is like a row that is not there.
BlockRead == got' = Append(got, blocks[Len(got)]) /\ UNCHANGED clean
BlockUnread ==
  "select" \in Faults /\ got' = Append(got, Absent) /\ clean' = FALSE

ReadBlock ==
  /\ reading
  /\ Len(got) < rmeta.n
  /\ BlockRead \/ BlockUnread
  /\ UNCHANGED <<reading, rmeta, result, writeVars, tables, broken>>

Read(i) == got[i + 1].data
BlockRange == 0 .. rmeta.n - 1

AontSk == Xor(AesCtr(GK, rmeta.tailSk),
              XorAll([i \in BlockRange |-> Sha(Read(i))]))

SeIndexes == { i \in BlockRange : AesCtr(AontSk, IndexBytes(i)) \in rmeta.tailsSe }

\* The reader's cache once the super-encrypted blocks are decrypted.
Cached(i) == IF i \in SeIndexes THEN AesCtr(GK, Read(i)) ELSE Read(i)

AontFk == Xor(AesCtr(GK, rmeta.tailFk),
              XorAll([i \in BlockRange |-> Sha(Cached(i))]))

\* A row that was not read leaves the pointer to the block uninitialised, and
\* an index decrypted with a wrong SK points outside the block cache.
MissingBlock == \E i \in BlockRange : got[i + 1].ver = 0
DecodeUndefined ==
  \/ MissingBlock
  \/ Cardinality(SeIndexes) # Cardinality(rmeta.tailsSe)

Decode ==
  IF DecodeUndefined THEN Undefined
  ELSE Value([i \in 1 .. rmeta.n |-> AesCtr(AontFk, Cached(i - 1))])

\* read_file_aes decrypts into a local stream and leaves "value" alone.
DecodeAes ==
  IF MissingBlock THEN Undefined ELSE Value(<<>>)

FinishRead ==
  /\ reading
  /\ Len(got) = rmeta.n
  /\ result' = IF rmeta.tailsSe = {} THEN DecodeAes ELSE Decode
  /\ reading' = FALSE
  /\ got' = <<>>
  /\ UNCHANGED <<rmeta, clean, writeVars, tables, broken>>

-----------------------------------------------------------------------------
Next ==
  \/ StartWrite \/ WriteBlock \/ WriteMeta \/ WriteCutShort
  \/ InsertLands \/ InsertLost
  \/ StartRead \/ MetaUnread \/ ReadBlock \/ FinishRead

Spec == Init /\ [][Next]_vars

-----------------------------------------------------------------------------
TypeOK ==
  /\ writing \in BOOLEAN /\ reading \in BOOLEAN
  /\ ver \in 0 .. MaxWrites
  /\ content \in Seq(Contents) /\ Len(content) = ver
  /\ keys \in Seq([fk : Keys, sk : Keys]) /\ Len(keys) = ver
  /\ se \in Seq(SUBSET Indexes) /\ Len(se) = ver
  /\ next \in Nat /\ (writing => ver > 0 /\ next <= Size)
  /\ meta.ver \in 0 .. ver /\ rmeta.ver \in 0 .. ver /\ rmeta.n \in Nat
  /\ DOMAIN blocks = Indexes
  /\ \A i \in Indexes : blocks[i].ver \in 0 .. ver
  /\ \A w \in inflight : w.ver \in 1 .. ver /\ w.idx \in Indexes
  /\ clean \in BOOLEAN /\ broken \in BOOLEAN
  /\ result.kind \in {"none", "undefined", "value"}

Plaintext(v) == [i \in 1 .. Len(content[v]) |-> Plain(content[v][i])]

\* A read of a file that is not in AES mode has ended.
Ended == ~ reading /\ result # NoResult /\ rmeta.tailsSe # {}

\* A read that meets no write, every earlier one having landed whole, and none
\* of whose SELECTs fails returns the content of the last write: the two tails
\* undo what write_file did, whatever blocks were chosen and whatever keys
\* malloc's garbage gave (client.cpp 143-225 against 349-465).
QuietReadReturnsContent ==
  Ended /\ clean => result = Value(Plaintext(rmeta.ver))

FreshKeys ==
  \A v, w \in 1 .. ver : v # w => keys[v].fk # keys[w].fk
                                /\ keys[v].sk # keys[w].sk

\* Equal blocks of a file have equal ciphertexts, whose hashes cancel in pairs.
DistinctBlocks == \A v \in 1 .. ver : IsInjective(content[v])

\* With fresh keys for every write and no block twice in a file, a read of a
\* mixture of two writes, of which one was cut short, lost a block, has not
\* landed yet or is still being made, never passes for a file: a block that is
\* not the one the metadata was computed from spoils SK, and SK the block
\* indexes (client.cpp 349-448).
NoMixedRead ==
  Ended /\ FreshKeys /\ DistinctBlocks /\ result.kind = "value" =>
    result.value = Plaintext(rmeta.ver)

\* main.cpp 81: "check that the same content was returned" by a read_file that
\* follows write_file in the same process.
SameContentReturned ==
  Ended => result = Value(Plaintext(rmeta.ver))

=============================================================================
