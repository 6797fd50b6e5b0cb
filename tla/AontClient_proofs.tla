-------------------------- MODULE AontClient_proofs --------------------------
(***************************************************************************)
(* Proofs about AontClient, for every set of files, of key names and of     *)
(* SE_BLOCKS_COUNTs, every number of writes and every set of faults: what   *)
(* read_file makes of the blocks it has downloaded, and which blocks those  *)
(* are.                                                                     *)
(***************************************************************************)
EXTENDS AontClientInv, XorCrypto_proofs, SequenceTheorems

-----------------------------------------------------------------------------
(* The calls of write_file.                                                 *)

\* What is known of a call that write_file has made.
LEMMA CallTypes ==
  ASSUME TypeOK, CallsInv, NEW v \in 1 .. ver
  PROVE  /\ content[v] \in Contents
         /\ content[v] \in Seq(Range(content[v]))
         /\ Len(content[v]) \in Nat
         /\ keys[v] \in [fk : Keys, sk : Keys]
         /\ se[v] \subseteq BlocksOf(v)
         /\ BlocksOf(v) \subseteq Indexes
         /\ IsFiniteSet(BlocksOf(v)) /\ IsFiniteSet(se[v])
<1>1. content[v] \in Contents
  BY DEF TypeOK
<1>2. content[v] \in Seq(Range(content[v]))
  BY <1>1, ClientAssumption
<1>3. Len(content[v]) \in Nat
  BY <1>2
<1>4. keys[v] \in [fk : Keys, sk : Keys]
  <2>1. keys \in Seq([fk : Keys, sk : Keys]) /\ v \in 1 .. Len(keys)
    BY DEF TypeOK
  <2> QED BY <2>1, ElementOfSeq
<1>7. se[v] \subseteq BlocksOf(v)
  BY DEF CallsInv
<1>5. IsFiniteSet(BlocksOf(v))
  BY <1>3, FS_Interval DEF BlocksOf
<1>6. BlocksOf(v) \subseteq Indexes
  BY <1>1 DEF BlocksOf, Indexes
<1> QED BY <1>1, <1>2, <1>3, <1>4, <1>5, <1>6, <1>7, FS_Subset

\* Counter mode under one key keeps block indexes apart.
LEMMA IndexesApart ==
  \A key, i, j :
    AesCtr(key, IndexBytes(i)) = AesCtr(key, IndexBytes(j)) => i = j
<1> SUFFICES ASSUME NEW key, NEW i, NEW j,
                    AesCtr(key, IndexBytes(i)) = AesCtr(key, IndexBytes(j))
             PROVE  i = j
  OBVIOUS
<1>1. IndexBytes(i) = IndexBytes(j)
  BY XorCancels DEF AesCtr
<1>2. <<"index", i>> \in {<<"index", j>>}
  BY <1>1 DEF IndexBytes
<1>3. <<"index", i>> = <<"index", j>>
  BY <1>2
<1> QED BY <1>3

\* The indexes that write_file has stored are as many as the blocks it chose.
LEMMA TailsCount ==
  ASSUME NEW S, IsFiniteSet(S), NEW key,
         NEW T, \A t : t \in T <=> \E i \in S : t = AesCtr(key, IndexBytes(i))
  PROVE  IsFiniteSet(T) /\ Cardinality(T) = Cardinality(S)
<1> DEFINE f == [i \in S |-> AesCtr(key, IndexBytes(i))]
<1>1. f \in Bijection(S, T)
  <2>1. f \in [S -> T] /\ IsInjective(f)
    BY IndexesApart DEF IsInjective
  <2>2. \A t \in T : \E s \in S : f[s] = t
    OBVIOUS
  <2> QED BY <2>1, <2>2 DEF Bijection, Injection, Surjection
<1>2. ExistsBijection(S, T)
  BY <1>1 DEF ExistsBijection
<1> QED BY <1>2, FS_Bijection

-----------------------------------------------------------------------------
(* read_file with the blocks of one call.                                   *)

\* The SK that a reader computes is that of the call exactly when the hashes
\* of the blocks it has read XOR to those of the call.
LEMMA ReaderSk ==
  ASSUME TypeOK, CallsInv, NEW v \in 1 .. ver, se[v] # {}, rmeta = MetaOf(v)
  PROVE  /\ BlockRange = BlocksOf(v)
         /\ AontSk = Xor(SkTail(v, Len(content[v])),
                         XorAll([i \in BlocksOf(v) |-> Sha(Read(i))]))
<1>1. /\ rmeta.n = Len(content[v])
      /\ rmeta.tailSk = AesCtr(GK, SkTail(v, Len(content[v])))
  BY DEF MetaOf
<1>2. BlockRange = BlocksOf(v)
  BY <1>1 DEF BlockRange, BlocksOf
<1> QED BY <1>1, <1>2, AesRoundTrip DEF AontSk

\* The package of a call, read whole, gives back its content.
LEMMA DecodeRoundTrip ==
  ASSUME TypeOK, CallsInv, NEW v \in 1 .. ver, se[v] # {}, rmeta = MetaOf(v),
         \A i \in BlocksOf(v) : got[i + 1] = BlockOf(v, i)
  PROVE  Decode = Value(Plaintext(v))
<1>1. /\ BlockRange = BlocksOf(v)
      /\ BlocksOf(v) = 0 .. Len(content[v]) - 1
      /\ rmeta.n = Len(content[v])
      /\ Len(content[v]) \in Nat
      /\ se[v] \subseteq BlocksOf(v) /\ IsFiniteSet(se[v])
      /\ rmeta.tailsSe = { AesCtr(keys[v].sk, IndexBytes(i)) : i \in se[v] }
      /\ rmeta.tailFk = AesCtr(GK, FkTail(v, Len(content[v])))
  BY ReaderSk, CallTypes DEF MetaOf, BlocksOf
<1>2. \A i \in BlocksOf(v) : Read(i) = StoredBlock(v, i)
  <2> SUFFICES ASSUME NEW i \in BlocksOf(v) PROVE Read(i) = StoredBlock(v, i)
    OBVIOUS
  <2>1. got[i + 1] = [ver |-> v, data |-> StoredBlock(v, i)]
    BY DEF BlockOf
  <2> QED BY <2>1 DEF Read
<1>3. AontSk = keys[v].sk
  <2>1. [i \in BlocksOf(v) |-> Sha(Read(i))]
          = [i \in 0 .. Len(content[v]) - 1 |-> SkHash(v, i)]
    BY <1>1, <1>2 DEF SkHash
  <2>2. AontSk = Xor(SkTail(v, Len(content[v])), SkHashes(v, Len(content[v])))
    BY <2>1, ReaderSk DEF SkHashes
  <2> QED BY <2>2, XorCancels DEF SkTail
<1>4. SeIndexes = se[v]
  <2>1. \A i : AesCtr(keys[v].sk, IndexBytes(i)) \in rmeta.tailsSe <=> i \in se[v]
    BY <1>1, IndexesApart
  <2> QED BY <1>1, <1>3, <2>1 DEF SeIndexes
<1>5. \A i \in BlocksOf(v) : Cached(i) = EncBlock(v, i)
  BY <1>2, <1>4, AesRoundTrip DEF Cached, StoredBlock
<1>6. AontFk = keys[v].fk
  <2>1. [i \in BlockRange |-> Sha(Cached(i))]
          = [i \in 0 .. Len(content[v]) - 1 |-> FkHash(v, i)]
    BY <1>1, <1>5 DEF FkHash
  <2>2. AontFk = Xor(FkTail(v, Len(content[v])), FkHashes(v, Len(content[v])))
    <3>1. AontFk = Xor(AesCtr(GK, rmeta.tailFk), FkHashes(v, Len(content[v])))
      BY <2>1 DEF AontFk, FkHashes
    <3> QED BY <1>1, <3>1, AesRoundTrip
  <2> QED BY <2>2, XorCancels DEF FkTail
<1>7. ~ DecodeUndefined
  <2>1. Cardinality(SeIndexes) = Cardinality(rmeta.tailsSe)
    <3>1. \A t : t \in rmeta.tailsSe <=>
                 \E i \in se[v] : t = AesCtr(keys[v].sk, IndexBytes(i))
      BY <1>1
    <3>2. Cardinality(rmeta.tailsSe) = Cardinality(se[v])
      BY <1>1, <3>1, TailsCount, SMTT(30)
    <3> QED BY <1>4, <3>2
  <2>2. ASSUME NEW i \in BlocksOf(v) PROVE got[i + 1].ver # 0
    <3>1. got[i + 1] = [ver |-> v, data |-> StoredBlock(v, i)]
      BY DEF BlockOf
    <3>2. v # 0
      BY DEF TypeOK
    <3> QED BY <3>1, <3>2
  <2> QED BY <1>1, <2>1, <2>2 DEF DecodeUndefined, MissingBlock
<1>8. \A i \in 1 .. rmeta.n : AesCtr(AontFk, Cached(i - 1)) = Plain(content[v][i])
  <2> SUFFICES ASSUME NEW i \in 1 .. Len(content[v])
               PROVE  AesCtr(AontFk, Cached(i - 1)) = Plain(content[v][i])
    BY <1>1
  <2>1. i - 1 \in BlocksOf(v) /\ (i - 1) + 1 = i
    BY <1>1
  <2>2. EncBlock(v, i - 1) = AesCtr(keys[v].fk, Plain(content[v][i]))
    BY <2>1 DEF EncBlock
  <2> QED BY <1>5, <1>6, <2>1, <2>2, AesRoundTrip
<1> QED BY <1>1, <1>7, <1>8 DEF Decode, Plaintext

-----------------------------------------------------------------------------
(* read_file with the blocks of several calls.                              *)

\* The terms of a stored block: its plaintext and key streams.
LEMMA StoredPlain ==
  ASSUME NEW v, NEW i, NEW c
  PROVE  <<"plain", c>> \in StoredBlock(v, i) <=> c = content[v][i + 1]
<1>1. \A key : <<"plain", c>> \notin Stream(key)
  BY DEF Stream
<1>2. <<"plain", c>> \in Plain(content[v][i + 1]) <=> c = content[v][i + 1]
  BY DEF Plain
<1> QED BY <1>1, <1>2, XorTerms DEF StoredBlock, EncBlock, AesBlock, AesCtr

\* Which key streams a stored block is under: in AES mode one stream of both
\* keys, otherwise FK, and GK on top in a super-encrypted block.
LEMMA StoredStreams ==
  ASSUME NEW v, NEW i, NEW key
  PROVE  /\ se[v] = {} => (<<"stream", key>> \in StoredBlock(v, i)
                             <=> key = GK \cup keys[v].fk)
         /\ se[v] # {} => (<<"stream", key>> \in StoredBlock(v, i)
                             <=> ~ (key = keys[v].fk <=> i \in se[v] /\ key = GK))
<1>1. \A k : <<"stream", key>> \in Stream(k) <=> key = k
  BY DEF Stream
<1>2. \A c : <<"stream", key>> \notin Plain(c)
  BY DEF Plain
<1>3. <<"stream", key>> \in EncBlock(v, i) <=>
        key = IF se[v] = {} THEN GK \cup keys[v].fk ELSE keys[v].fk
  <2> DEFINE p == Plain(content[v][i + 1])
             k == IF se[v] = {} THEN GK \cup keys[v].fk ELSE keys[v].fk
  <2>1. EncBlock(v, i) = Xor(p, Stream(k))
    BY DEF EncBlock, AesBlock, AesCtr
  <2>2. <<"stream", key>> \notin p
    BY <1>2
  <2> HIDE DEF p, k
  <2>3. <<"stream", key>> \in EncBlock(v, i) <=> key = k
    BY <1>1, <2>1, <2>2, XorTerms
  <2> QED BY <2>3 DEF k
<1>4. <<"stream", key>> \in StoredBlock(v, i) <=>
        IF i \in se[v] THEN ~ (<<"stream", key>> \in EncBlock(v, i) <=> key = GK)
                       ELSE <<"stream", key>> \in EncBlock(v, i)
  BY <1>1, XorTerms DEF StoredBlock, AesCtr
<1> QED BY <1>3, <1>4

\* Blocks of a file without repetitions are stored differently.
LEMMA StoredApart ==
  ASSUME TypeOK, CallsInv, NEW v \in 1 .. ver, IsInjective(content[v]),
         NEW i \in BlocksOf(v), NEW j \in BlocksOf(v),
         StoredBlock(v, i) = StoredBlock(v, j)
  PROVE  i = j
<1>1. content[v][i + 1] = content[v][j + 1]
  <2> DEFINE c == content[v][i + 1]
  <2>1. <<"plain", c>> \in StoredBlock(v, i)
    BY StoredPlain
  <2>2. <<"plain", c>> \in StoredBlock(v, j)
    BY <2>1
  <2> QED BY <2>2, StoredPlain
<1>2. /\ DOMAIN content[v] = 1 .. Len(content[v])
      /\ i + 1 \in 1 .. Len(content[v]) /\ j + 1 \in 1 .. Len(content[v])
      /\ i \in Int /\ j \in Int
  BY CallTypes DEF BlocksOf
<1> QED BY <1>1, <1>2 DEF IsInjective

\* So are blocks under different keys, whatever the calls that stored them.
LEMMA CallsApart ==
  ASSUME TypeOK, CallsInv, NEW u \in 1 .. ver, NEW v \in 1 .. ver,
         se[v] # {}, keys[u].fk # keys[v].fk, NEW i, NEW j
  PROVE  StoredBlock(u, i) # StoredBlock(v, j)
<1> SUFFICES ASSUME StoredBlock(u, i) = StoredBlock(v, j) PROVE FALSE
  OBVIOUS
<1>k. PICK a, b : keys[u].fk = {a} /\ keys[v].fk = {b}
  <2>1. keys[u].fk \in Keys /\ keys[v].fk \in Keys
    BY CallTypes
  <2> QED BY <2>1 DEF Keys
<1>g. PICK g : GK = {g}
  BY DEF GK
<1>1. \A key : <<"stream", key>> \in StoredBlock(v, j) <=>
                 ~ (key = {b} <=> j \in se[v] /\ key = {g})
  BY <1>k, <1>g, StoredStreams
<1>2. CASE se[u] = {}
  <2>0. GK \cup keys[u].fk = {g, a}
    BY <1>k, <1>g
  <2>1. \A key : <<"stream", key>> \in StoredBlock(u, i) <=> key = {g, a}
    <3>1. ASSUME NEW key
          PROVE  <<"stream", key>> \in StoredBlock(u, i) <=> key = GK \cup keys[u].fk
      BY <1>2, StoredStreams
    <3> QED BY <3>1, <2>0
  <2>2. CASE b # g
    <3>1. {b} = {g, a}
      BY <1>1, <2>1, <2>2
    <3> QED BY <3>1, <2>2
  <2>3. CASE b = g
    <3>1. a # g
      BY <1>k, <2>3
    <3>2. ~ ({g, a} = {b}) /\ ~ ({g, a} = {g})
      BY <3>1, <2>3
    <3> QED BY <1>1, <2>1, <3>2
  <2> QED BY <2>2, <2>3
<1>3. CASE se[u] # {}
  <2>1. \A key : <<"stream", key>> \in StoredBlock(u, i) <=>
                   ~ (key = {a} <=> i \in se[u] /\ key = {g})
    BY <1>3, <1>k, <1>g, StoredStreams
  <2>2. a # b /\ {a} # {b}
    BY <1>k
  <2>3. CASE a # g
    <3>1. {a} # {g}
      BY <2>3
    <3> QED BY <1>1, <2>1, <2>2, <3>1
  <2>4. CASE b # g
    <3>1. {b} # {g}
      BY <2>4
    <3> QED BY <1>1, <2>1, <2>2, <3>1
  <2> QED BY <2>2, <2>3, <2>4
<1> QED BY <1>2, <1>3

\* A read that passes for a file has read the blocks of the call whose metadata
\* it had: the block indexes tell that it has found SK, SK that it has seen the
\* hashes of all blocks of the call, and there are no more blocks than those.
LEMMA ValueMeansOneCall ==
  ASSUME TypeOK, CallsInv, FreshKeys, DistinctBlocks,
         NEW v \in 1 .. ver, se[v] # {}, rmeta = MetaOf(v),
         \A i \in BlocksOf(v) : IsBlock(got[i + 1], i),
         ~ DecodeUndefined
  PROVE  \A i \in BlocksOf(v) : got[i + 1] = BlockOf(v, i)
<1>1. /\ BlockRange = BlocksOf(v)
      /\ BlocksOf(v) = 0 .. Len(content[v]) - 1
      /\ Len(content[v]) \in Nat
      /\ IsFiniteSet(BlocksOf(v))
      /\ se[v] \subseteq BlocksOf(v) /\ IsFiniteSet(se[v])
      /\ rmeta.tailsSe = { AesCtr(keys[v].sk, IndexBytes(i)) : i \in se[v] }
  BY ReaderSk, CallTypes DEF MetaOf, BlocksOf
<1>2. AontSk = keys[v].sk
  <2>1. SeIndexes # {}
    <3>1. Cardinality(SeIndexes) = Cardinality(rmeta.tailsSe)
      BY DEF DecodeUndefined
    <3>2. Cardinality(rmeta.tailsSe) = Cardinality(se[v])
      <4>1. \A t : t \in rmeta.tailsSe <=>
                   \E i \in se[v] : t = AesCtr(keys[v].sk, IndexBytes(i))
        BY <1>1
      <4> QED BY <1>1, <4>1, TailsCount
    <3>3. Cardinality(se[v]) # 0 /\ Cardinality({}) = 0
      BY <1>1, FS_EmptySet
    <3> QED BY <3>1, <3>2, <3>3
  <2>2. PICK i \in SeIndexes, j \in se[v] :
          AesCtr(AontSk, IndexBytes(i)) = AesCtr(keys[v].sk, IndexBytes(j))
    BY <1>1, <2>1 DEF SeIndexes
  <2> DEFINE x == <<"stream", AontSk>>
  <2>3. \A k : x \notin IndexBytes(k)
    BY DEF IndexBytes
  <2>4. \A key : x \in Stream(key) <=> AontSk = key
    BY DEF Stream
  <2>5. x \in AesCtr(AontSk, IndexBytes(i))
    BY <2>3, <2>4, XorTerms DEF AesCtr
  <2>6. x \in AesCtr(keys[v].sk, IndexBytes(j)) <=> AontSk = keys[v].sk
    BY <2>3, <2>4, XorTerms DEF AesCtr
  <2> QED BY <2>2, <2>5, <2>6
<1> DEFINE r == [i \in BlocksOf(v) |-> Read(i)]
           s == [i \in BlocksOf(v) |-> StoredBlock(v, i)]
<1>3. XorAll([i \in BlocksOf(v) |-> Sha(r[i])])
        = XorAll([i \in BlocksOf(v) |-> Sha(s[i])])
  <2>1. [i \in BlocksOf(v) |-> Sha(s[i])]
          = [i \in 0 .. Len(content[v]) - 1 |-> SkHash(v, i)]
    BY <1>1 DEF SkHash
  <2>2. [i \in BlocksOf(v) |-> Sha(r[i])] = [i \in BlocksOf(v) |-> Sha(Read(i))]
    OBVIOUS
  <2>3. Xor(Xor(keys[v].sk, SkHashes(v, Len(content[v]))),
            XorAll([i \in BlocksOf(v) |-> Sha(Read(i))])) = keys[v].sk
    BY <1>2, ReaderSk DEF SkTail
  <2>4. SkHashes(v, Len(content[v])) = XorAll([i \in BlocksOf(v) |-> Sha(Read(i))])
    BY <2>3, XorCancels
  <2> QED BY <2>1, <2>2, <2>4 DEF SkHashes
<1>4. IsInjective(s)
  BY StoredApart DEF IsInjective, DistinctBlocks
<1>5. ASSUME NEW j \in BlocksOf(v)
      PROVE  \E i \in BlocksOf(v) : Read(i) = StoredBlock(v, j)
  <2>1. <<"sha", s[j]>> \in XorAll([i \in BlocksOf(v) |-> Sha(s[i])])
    BY <1>4, XorAllOfHashes
  <2>2. <<"sha", s[j]>> \in XorAll([i \in BlocksOf(v) |-> Sha(r[i])])
    BY <2>1, <1>3
  <2>3. \E i \in BlocksOf(v) : <<"sha", s[j]>> = <<"sha", r[i]>>
    <3>1. DOMAIN r = BlocksOf(v)
      OBVIOUS
    <3> HIDE DEF r
    <3> QED BY <2>2, <3>1, XorAllOfHashes
  <2> QED BY <2>3
<1>6. ASSUME NEW i \in BlocksOf(v)
      PROVE  \E j \in BlocksOf(v) : Read(i) = StoredBlock(v, j)
  <2> DEFINE h == [j \in BlocksOf(v) |->
                     CHOOSE k \in BlocksOf(v) : Read(k) = StoredBlock(v, j)]
  <2>1. \A j \in BlocksOf(v) :
          h[j] \in BlocksOf(v) /\ Read(h[j]) = StoredBlock(v, j)
    BY <1>5
  <2>2. h \in Injection(BlocksOf(v), BlocksOf(v))
    <3>1. h \in [BlocksOf(v) -> BlocksOf(v)]
      BY <2>1
    <3>2. ASSUME NEW j \in BlocksOf(v), NEW k \in BlocksOf(v), h[j] = h[k]
          PROVE  j = k
      <4>1. s[j] = s[k]
        BY <2>1, <3>2
      <4> QED BY <4>1, <1>4 DEF IsInjective
    <3> QED BY <3>1, <3>2 DEF Injection, IsInjective
  <2>3. h \in Surjection(BlocksOf(v), BlocksOf(v))
    BY <1>1, <2>2, FS_Injection
  <2>4. \E j \in BlocksOf(v) : h[j] = i
    BY <2>3 DEF Surjection
  <2> QED BY <2>1, <2>4
<1>7. ASSUME NEW i \in BlocksOf(v) PROVE got[i + 1] = BlockOf(v, i)
  <2>1. PICK u \in 1 .. ver : got[i + 1] = BlockOf(u, i)
    <3>1. got[i + 1].ver # 0
      BY <1>1 DEF DecodeUndefined, MissingBlock
    <3>2. got[i + 1] # Absent
      BY <3>1 DEF Absent
    <3> QED BY <3>2 DEF IsBlock
  <2>2. PICK j \in BlocksOf(v) : Read(i) = StoredBlock(v, j)
    BY <1>6
  <2>3. Read(i) = StoredBlock(u, i)
    BY <2>1 DEF Read, BlockOf
  <2>4. keys[u].fk = keys[v].fk
    BY <2>2, <2>3, CallsApart
  <2>5. u = v
    BY <2>4 DEF FreshKeys
  <2> QED BY <2>1, <2>5
<1> QED BY <1>7

-----------------------------------------------------------------------------
(* Steps.                                                                   *)

\* Calls are only added to.
LEMMA CallsStay ==
  ASSUME TypeOK, [Next]_vars
  PROVE  /\ ver \in Nat /\ ver' \in Nat /\ ver <= ver'
         /\ \A v \in 1 .. ver : /\ v \in 1 .. ver'
                                /\ content'[v] = content[v]
                                /\ keys'[v] = keys[v]
                                /\ se'[v] = se[v]
         /\ StartWrite \/ UNCHANGED <<ver, content, keys, se>>
<1>1. ver \in Nat /\ MaxWrites \in Nat
  BY ClientAssumption DEF TypeOK
<1>2. CASE StartWrite
  <2>1. PICK c, e, k : /\ content' = Append(content, c)
                       /\ se' = Append(se, e)
                       /\ keys' = Append(keys, k)
                       /\ ver' = ver + 1
    BY <1>2 DEF StartWrite
  <2>2. /\ content \in Seq(Contents) /\ Len(content) = ver
        /\ se \in Seq(SUBSET Indexes) /\ Len(se) = ver
        /\ keys \in Seq([fk : Keys, sk : Keys]) /\ Len(keys) = ver
    BY DEF TypeOK
  <2>3. \A v \in 1 .. ver : /\ content'[v] = content[v]
                            /\ keys'[v] = keys[v]
                            /\ se'[v] = se[v]
    BY <2>1, <2>2
  <2>4. /\ ver' \in Nat /\ ver <= ver'
        /\ \A v \in 1 .. ver : v \in 1 .. ver'
    BY <1>1, <2>1
  <2> QED BY <1>1, <1>2, <2>3, <2>4
<1>3. CASE UNCHANGED <<ver, content, keys, se>>
  BY <1>1, <1>3
<1>4. StartWrite \/ UNCHANGED <<ver, content, keys, se>>
  BY DEF Next, WriteBlock, WriteMeta, WriteCutShort, WriteEnds, InsertLands,
         InsertLost, StartRead, MetaUnread, ReadBlock, FinishRead, writeVars, vars
<1> QED BY <1>2, <1>3, <1>4

\* So what a call has stored, or would store, does not change.
LEMMA ValuesStay ==
  ASSUME TypeOK, [Next]_vars, NEW v \in 1 .. ver
  PROVE  /\ v \in 1 .. ver'
         /\ BlocksOf(v)' = BlocksOf(v)
         /\ \A i : /\ StoredBlock(v, i)' = StoredBlock(v, i)
                   /\ BlockOf(v, i)' = BlockOf(v, i)
                   /\ InsertOf(v, i)' = InsertOf(v, i)
                   /\ FkHash(v, i)' = FkHash(v, i)
                   /\ SkHash(v, i)' = SkHash(v, i)
         /\ Plaintext(v)' = Plaintext(v)
         /\ \A n : /\ FkTail(v, n)' = FkTail(v, n)
                   /\ SkTail(v, n)' = SkTail(v, n)
         /\ MetaOf(v)' = MetaOf(v)
<1>1. /\ v \in 1 .. ver' /\ content'[v] = content[v]
      /\ keys'[v] = keys[v] /\ se'[v] = se[v]
  BY CallsStay
<1>2. BlocksOf(v)' = BlocksOf(v) /\ Plaintext(v)' = Plaintext(v)
  BY <1>1 DEF BlocksOf, Plaintext
<1>3. ASSUME NEW i
      PROVE  /\ EncBlock(v, i)' = EncBlock(v, i)
             /\ StoredBlock(v, i)' = StoredBlock(v, i)
  BY <1>1 DEF EncBlock, AesBlock, StoredBlock
<1>4. ASSUME NEW i
      PROVE  /\ BlockOf(v, i)' = BlockOf(v, i)
             /\ InsertOf(v, i)' = InsertOf(v, i)
             /\ FkHash(v, i)' = FkHash(v, i)
             /\ SkHash(v, i)' = SkHash(v, i)
  BY <1>3 DEF BlockOf, InsertOf, FkHash, SkHash
<1>5. ASSUME NEW n
      PROVE  FkTail(v, n)' = FkTail(v, n) /\ SkTail(v, n)' = SkTail(v, n)
  <2>1. FkHashes(v, n)' = FkHashes(v, n) /\ SkHashes(v, n)' = SkHashes(v, n)
    BY <1>4 DEF FkHashes, SkHashes
  <2> QED BY <1>1, <2>1 DEF FkTail, SkTail
<1>6. MetaOf(v)' = MetaOf(v)
  BY <1>1, <1>5 DEF MetaOf
<1> QED BY <1>1, <1>2, <1>3, <1>4, <1>5, <1>6

\* The new call of StartWrite.
LEMMA NewCall ==
  ASSUME TypeOK, StartWrite
  PROVE  /\ ver \in Nat /\ ver' = ver + 1 /\ ver' <= MaxWrites
         /\ content' \in Seq(Contents) /\ Len(content') = ver'
         /\ keys' \in Seq([fk : Keys, sk : Keys]) /\ Len(keys') = ver'
         /\ se' \in Seq(SUBSET Indexes) /\ Len(se') = ver'
         /\ content'[ver'] \in Contents
         /\ se'[ver'] \subseteq 0 .. Len(content'[ver']) - 1
         /\ tailFk' = keys'[ver'].fk /\ tailSk' = keys'[ver'].sk
<1>0. PICK c \in Contents, kf \in Keys, ks \in Keys :
        /\ \E s \in SeCounts : \E e \in kSubset(s, 0 .. Len(c) - 1) :
             se' = Append(se, e)
        /\ content' = Append(content, c)
        /\ keys' = Append(keys, [fk |-> kf, sk |-> ks])
        /\ tailFk' = kf /\ tailSk' = ks
  BY DEF StartWrite
<1>1. PICK e \in SUBSET (0 .. Len(c) - 1) : se' = Append(se, e)
  BY <1>0 DEF kSubset
<1>2. /\ content \in Seq(Contents) /\ Len(content) = ver
      /\ se \in Seq(SUBSET Indexes) /\ Len(se) = ver
      /\ keys \in Seq([fk : Keys, sk : Keys]) /\ Len(keys) = ver
      /\ ver \in Nat
  BY DEF TypeOK
<1>3. ver' = ver + 1 /\ ver + 1 <= MaxWrites
  BY <1>2, ClientAssumption DEF StartWrite
<1>4. e \subseteq 0 .. Len(c) - 1 /\ e \subseteq Indexes
  BY DEF Indexes
<1>5. [fk |-> kf, sk |-> ks] \in [fk : Keys, sk : Keys]
  OBVIOUS
<1>6. /\ content' \in Seq(Contents) /\ Len(content') = ver + 1
      /\ content'[ver + 1] = c
  BY <1>0, <1>2, AppendProperties
<1>7. /\ keys' \in Seq([fk : Keys, sk : Keys]) /\ Len(keys') = ver + 1
      /\ keys'[ver + 1] = [fk |-> kf, sk |-> ks]
  BY <1>0, <1>2, <1>5, AppendProperties
<1>8. /\ se' \in Seq(SUBSET Indexes) /\ Len(se') = ver + 1
      /\ se'[ver + 1] = e
  BY <1>1, <1>2, <1>4, AppendProperties
<1> QED BY <1>0, <1>1, <1>2, <1>3, <1>4, <1>6, <1>7, <1>8

\* Before the first call there is nothing of any type but the initial one.
LEMMA TypeInit == Init => TypeOK
<1> SUFFICES ASSUME Init PROVE TypeOK
  OBVIOUS
<1>1. /\ content \in Seq(Contents) /\ Len(content) = 0
      /\ keys \in Seq([fk : Keys, sk : Keys]) /\ Len(keys) = 0
      /\ se \in Seq(SUBSET Indexes) /\ Len(se) = 0
  BY EmptySeq DEF Init
<1>2. 0 \in 0 .. MaxWrites
  BY ClientAssumption
<1>3. /\ writing = FALSE /\ reading = FALSE /\ ver = 0 /\ next = 0
      /\ clean = FALSE /\ broken = FALSE /\ inflight = {}
  BY DEF Init
<1>4. meta.ver = 0 /\ rmeta.ver = 0 /\ rmeta.n = 0
  BY DEF Init, NoMeta
<1>5. DOMAIN blocks = Indexes /\ \A i \in Indexes : blocks[i].ver = 0
  BY DEF Init, Absent
<1>6. result.kind = "none"
  BY DEF Init, NoResult
<1>7. /\ ver \in 0 .. MaxWrites /\ 0 \in 0 .. ver /\ next \in Nat
      /\ rmeta.n \in Nat
  BY <1>2, <1>3, <1>4
<1>8. /\ content \in Seq(Contents) /\ Len(content) = ver
      /\ keys \in Seq([fk : Keys, sk : Keys]) /\ Len(keys) = ver
      /\ se \in Seq(SUBSET Indexes) /\ Len(se) = ver
  BY <1>1, <1>3
<1> QED BY <1>3, <1>4, <1>5, <1>6, <1>7, <1>8 DEF TypeOK

\* The metadata and the block that write_file is about to store.
LEMMA WriteTypes ==
  ASSUME TypeOK, CallsInv, writing
  PROVE  /\ ver \in 1 .. ver
         /\ Size = Len(content[ver]) /\ Size \in Nat
         /\ next \in Nat /\ next <= Size
         /\ next < Size => next \in BlocksOf(ver) /\ next \in Indexes
<1>1. ver \in 1 .. ver
  BY DEF TypeOK
<1>2. Size = Len(content[ver]) /\ Size \in Nat
  BY <1>1, CallTypes DEF Size
<1>3. next \in Nat /\ next <= Size
  BY DEF TypeOK
<1>4. next < Size => next \in BlocksOf(ver)
  BY <1>2, <1>3 DEF BlocksOf
<1>5. BlocksOf(ver) \subseteq Indexes
  BY <1>1, CallTypes
<1> QED BY <1>1, <1>2, <1>3, <1>4, <1>5

\* A step of either process, or of Cassandra, keeps the types.
LEMMA TypeNext == TypeOK /\ CallsInv /\ ReadInv /\ [Next]_vars => TypeOK'
<1> SUFFICES ASSUME TypeOK, CallsInv, ReadInv, [Next]_vars PROVE TypeOK'
  OBVIOUS
<1> USE DEF TypeOK, Size
<1>1. CASE StartWrite
  <2>1. /\ writing' = TRUE /\ next' = 0 /\ clean' = FALSE
        /\ UNCHANGED <<reading, rmeta, result, meta, blocks, inflight, broken>>
    BY <1>1 DEF StartWrite, tables
  <2>2. /\ ver \in Nat /\ ver' = ver + 1 /\ ver' <= MaxWrites
        /\ content' \in Seq(Contents) /\ Len(content') = ver'
        /\ keys' \in Seq([fk : Keys, sk : Keys]) /\ Len(keys') = ver'
        /\ se' \in Seq(SUBSET Indexes) /\ Len(se') = ver'
        /\ content'[ver'] \in Contents
    BY <1>1, NewCall
  <2>3. Len(content'[ver']) \in Nat
    BY <2>2, ClientAssumption
  <2>4. ver' \in 0 .. MaxWrites /\ ver' > 0 /\ next' <= Size'
    BY <2>1, <2>2, <2>3, ClientAssumption DEF Size
  <2>5. 0 .. ver \subseteq 0 .. ver' /\ 1 .. ver \subseteq 1 .. ver'
    BY <2>2
  <2> QED BY <2>1, <2>2, <2>4, <2>5
<1>2. CASE WriteBlock
  <2>1. /\ writing /\ next < Size
        /\ inflight' = inflight \cup {InsertOf(ver, next)}
        /\ next' = next + 1
        /\ UNCHANGED <<writing, ver, content, keys, se, meta, blocks, reading,
                       rmeta, clean, result, broken>>
    BY <1>2 DEF WriteBlock, BlockName, InsertOf, readVars
  <2>2. /\ ver \in 1 .. ver /\ next \in Indexes
        /\ next' \in Nat /\ next' <= Size /\ Size' = Size
    BY <2>1, WriteTypes DEF Size
  <2>3. InsertOf(ver, next).ver = ver /\ InsertOf(ver, next).idx = next
    BY DEF InsertOf
  <2>4. \A w \in inflight' : w.ver \in 1 .. ver /\ w.idx \in Indexes
    BY <2>1, <2>2, <2>3
  <2> QED BY <2>1, <2>2, <2>4
<1>3. CASE WriteMeta
  <2>1. /\ writing' = FALSE /\ next' = 0
        /\ UNCHANGED <<ver, content, keys, se, blocks, inflight, reading, rmeta,
                       clean, result, broken>>
        /\ meta'.ver = ver
    BY <1>3 DEF WriteMeta, WriteEnds, readVars
  <2>2. ver \in Nat /\ meta'.ver \in 0 .. ver
    BY <2>1, ClientAssumption
  <2> QED BY <2>1, <2>2
<1>4. CASE WriteCutShort
  <2>1. /\ writing' = FALSE /\ next' = 0 /\ broken' = TRUE
        /\ UNCHANGED <<ver, content, keys, se, blocks, inflight, meta, reading,
                       rmeta, clean, result>>
    BY <1>4 DEF WriteCutShort, WriteEnds, readVars
  <2> QED BY <2>1
<1>5. CASE InsertLands
  <2>1. PICK w \in inflight :
          /\ inflight' = inflight \ {w}
          /\ blocks' = IF blocks[w.idx].ver > w.ver THEN blocks
                       ELSE [blocks EXCEPT ![w.idx] =
                               [ver |-> w.ver, data |-> w.data]]
    BY <1>5 DEF InsertLands
  <2>2. UNCHANGED <<writing, ver, content, keys, se, next, meta, reading, rmeta,
                    clean, result, broken>>
    BY <1>5 DEF InsertLands, writeVars, readVars
  <2>3. DOMAIN blocks' = Indexes
    BY <2>1
  <2>4. ASSUME NEW i \in Indexes PROVE blocks'[i].ver \in 0 .. ver
    <3>1. blocks'[i] = blocks[i] \/ blocks'[i] = [ver |-> w.ver, data |-> w.data]
      BY <2>1
    <3>2. w.ver \in 0 .. ver
      BY <2>1
    <3> QED BY <3>1, <3>2
  <2> QED BY <2>1, <2>2, <2>3, <2>4
<1>6. CASE InsertLost
  BY <1>6 DEF InsertLost, writeVars, readVars
<1>7. CASE StartRead
  <2>1. /\ rmeta' = meta /\ reading' = TRUE /\ meta # NoMeta
        /\ clean' \in BOOLEAN /\ result' = NoResult
        /\ UNCHANGED <<writing, ver, content, keys, se, next, meta, blocks,
                       inflight, broken>>
    BY <1>7 DEF StartRead, writeVars, tables
  <2>2. meta.n \in Nat
    BY <2>1, CallTypes DEF ReadInv, IsMeta, MetaOf
  <2> QED BY <2>1, <2>2 DEF NoResult
<1>8. CASE ReadBlock \/ MetaUnread
  <2>1. CASE ReadBlock
    BY <2>1 DEF ReadBlock, BlockRead, BlockUnread, writeVars, tables
  <2>2. CASE MetaUnread
    <3>1. /\ rmeta' = NoMeta /\ clean' = FALSE /\ result' = Undefined
          /\ UNCHANGED <<writing, ver, content, keys, se, next, meta, blocks,
                         inflight, reading, broken>>
      BY <2>2 DEF MetaUnread, writeVars, tables
    <3>2. NoMeta.ver \in 0 .. ver /\ NoMeta.n \in Nat
      BY ClientAssumption DEF NoMeta
    <3> QED BY <3>1, <3>2 DEF Undefined
  <2> QED BY <1>8, <2>1, <2>2
<1>9. CASE FinishRead
  <2>1. result'.kind \in {"none", "undefined", "value"}
    BY <1>9 DEF FinishRead, DecodeAes, Decode, Undefined, Value
  <2> QED BY <1>9, <2>1 DEF FinishRead, writeVars, tables
<1>10. CASE UNCHANGED vars
  BY <1>10 DEF vars, writeVars, readVars, tables
<1> QED
  BY <1>1, <1>2, <1>3, <1>4, <1>5, <1>6, <1>7, <1>8, <1>9, <1>10 DEF Next

\* The blocks a call super-encrypts are drawn from those of its file.
LEMMA CallsNext == TypeOK /\ CallsInv /\ [Next]_vars => CallsInv'
<1> SUFFICES ASSUME TypeOK, CallsInv, [Next]_vars, NEW v \in 1 .. ver'
             PROVE  (se[v] \subseteq BlocksOf(v))'
  BY DEF CallsInv
<1>1. CASE v \in 1 .. ver
  <2>1. se'[v] = se[v] /\ BlocksOf(v)' = BlocksOf(v)
    BY <1>1, CallsStay, ValuesStay
  <2> QED BY <1>1, <2>1 DEF CallsInv
<1>2. CASE v \notin 1 .. ver
  <2>1. StartWrite
    BY <1>2, CallsStay
  <2>2. ver \in Nat /\ ver' = ver + 1
    BY <2>1, NewCall
  <2>3. v = ver'
    BY <1>2, <2>2
  <2> QED BY <2>1, <2>3, NewCall DEF BlocksOf
<1> QED BY <1>1, <1>2

\* A block, or a metadata row, of some call stays one.
LEMMA BlockStays ==
  ASSUME TypeOK, [Next]_vars, NEW b, NEW i, IsBlock(b, i)
  PROVE  IsBlock(b, i)'
<1>1. CASE b = Absent
  BY <1>1 DEF IsBlock, Absent
<1>2. CASE b # Absent
  <2>1. PICK v \in 1 .. ver : b.ver = v /\ i \in BlocksOf(v) /\ b = BlockOf(v, i)
    BY <1>2 DEF IsBlock
  <2>2. v \in 1 .. ver' /\ BlocksOf(v)' = BlocksOf(v) /\ BlockOf(v, i)' = BlockOf(v, i)
    BY ValuesStay
  <2> QED BY <2>1, <2>2 DEF IsBlock
<1> QED BY <1>1, <1>2

\* A metadata row of some call remains one when calls are added.
LEMMA MetaStays ==
  ASSUME TypeOK, [Next]_vars, NEW m, IsMeta(m)
  PROVE  IsMeta(m)'
<1>1. CASE m = NoMeta
  BY <1>1 DEF IsMeta, NoMeta
<1>2. CASE m # NoMeta
  <2>1. PICK v \in 1 .. ver : m.ver = v /\ m = MetaOf(v)
    BY <1>2 DEF IsMeta
  <2>2. v \in 1 .. ver' /\ MetaOf(v)' = MetaOf(v)
    BY ValuesStay
  <2> QED BY <2>1, <2>2 DEF IsMeta
<1> QED BY <1>1, <1>2

\* So does an INSERT on its way.
LEMMA InsertStays ==
  ASSUME TypeOK, [Next]_vars, NEW w, IsInsert(w)
  PROVE  IsInsert(w)'
<1>0. PICK v \in 1 .. ver :
        \E i \in BlocksOf(v) : w.ver = v /\ w = InsertOf(v, i)
  BY DEF IsInsert
<1>1. PICK i \in BlocksOf(v) : w.ver = v /\ w = InsertOf(v, i)
  BY <1>0
<1>2. v \in 1 .. ver' /\ BlocksOf(v)' = BlocksOf(v) /\ InsertOf(v, i)' = InsertOf(v, i)
  BY ValuesStay
<1> QED BY <1>1, <1>2 DEF IsInsert

\* The tails start as the keys, and take up a hash with every block.
LEMMA TailStart ==
  ASSUME NEW v
  PROVE  FkTail(v, 0) = keys[v].fk /\ SkTail(v, 0) = keys[v].sk
<1>1. FkHashes(v, 0) = {} /\ SkHashes(v, 0) = {}
  BY XorAllEmpty DEF FkHashes, SkHashes
<1> QED BY <1>1, XorAlgebra DEF FkTail, SkTail

\* The tails after one more block.
LEMMA TailStep ==
  ASSUME NEW v, NEW n \in Nat
  PROVE  /\ FkTail(v, n + 1) = Xor(FkTail(v, n), FkHash(v, n))
         /\ SkTail(v, n + 1) = Xor(SkTail(v, n), SkHash(v, n))
<1>0. (n + 1) - 1 = n /\ n \in 0 .. n
  OBVIOUS
<1>1. FkHashes(v, n + 1) = Xor(FkHashes(v, n), FkHash(v, n))
  <2> DEFINE f == [i \in 0 .. n - 1 |-> FkHash(v, i)]
             g == [i \in 0 .. n |-> FkHash(v, i)]
  <2>1. /\ DOMAIN f = 0 .. n - 1 /\ DOMAIN g = 0 .. n
        /\ \A i \in 0 .. n - 1 : g[i] = f[i]
        /\ g[n] = FkHash(v, n)
    BY <1>0
  <2>2. FkHashes(v, n) = XorAll(f) /\ FkHashes(v, n + 1) = XorAll(g)
    BY <1>0 DEF FkHashes
  <2> HIDE DEF f, g
  <2> QED BY <2>1, <2>2, XorAllStep
<1>2. SkHashes(v, n + 1) = Xor(SkHashes(v, n), SkHash(v, n))
  <2> DEFINE f == [i \in 0 .. n - 1 |-> SkHash(v, i)]
             g == [i \in 0 .. n |-> SkHash(v, i)]
  <2>1. /\ DOMAIN f = 0 .. n - 1 /\ DOMAIN g = 0 .. n
        /\ \A i \in 0 .. n - 1 : g[i] = f[i]
        /\ g[n] = SkHash(v, n)
    BY <1>0
  <2>2. SkHashes(v, n) = XorAll(f) /\ SkHashes(v, n + 1) = XorAll(g)
    BY <1>0 DEF SkHashes
  <2> HIDE DEF f, g
  <2> QED BY <2>1, <2>2, XorAllStep
<1> QED BY <1>1, <1>2, XorAlgebra DEF FkTail, SkTail

\* Only write_file issues INSERTs, and only what it issued lands in table
\* blocks.
LEMMA BlocksNext == TypeOK /\ CallsInv /\ BlocksInv /\ [Next]_vars => BlocksInv'
<1> SUFFICES ASSUME TypeOK, CallsInv, BlocksInv, [Next]_vars PROVE BlocksInv'
  OBVIOUS
<1>s. ASSUME \A i \in Indexes : IsBlock(blocks'[i], i),
             \A w \in inflight' : IsInsert(w)
      PROVE  BlocksInv'
  <2>1. ASSUME NEW i \in Indexes, NEW b, b = blocks'[i] PROVE IsBlock(b, i)'
    <3>1. IsBlock(b, i)
      BY <1>s, <2>1
    <3> QED BY <3>1, BlockStays
  <2>2. \A i \in Indexes : IsBlock(blocks[i], i)'
    BY <2>1 DEF IsBlock
  <2>3. \A w \in inflight' : IsInsert(w)'
    BY <1>s, InsertStays
  <2> QED BY <2>2, <2>3 DEF BlocksInv
<1>1. CASE WriteBlock
  <2>1. /\ writing /\ next < Size /\ blocks' = blocks
        /\ inflight' = inflight \cup {InsertOf(ver, next)}
    BY <1>1 DEF WriteBlock, BlockName, InsertOf
  <2>2. IsInsert(InsertOf(ver, next))
    <3>1. ver \in 1 .. ver /\ next \in BlocksOf(ver)
      BY <2>1, WriteTypes
    <3>2. InsertOf(ver, next).ver = ver
      BY DEF InsertOf
    <3> QED BY <3>1, <3>2 DEF IsInsert
  <2> QED BY <1>s, <2>1, <2>2 DEF BlocksInv
<1>2. CASE InsertLands
  <2>1. PICK w \in inflight :
          /\ inflight' = inflight \ {w}
          /\ blocks' = IF blocks[w.idx].ver > w.ver THEN blocks
                       ELSE [blocks EXCEPT ![w.idx] =
                               [ver |-> w.ver, data |-> w.data]]
    BY <1>2 DEF InsertLands
  <2>w. PICK v \in 1 .. ver :
          \E j \in BlocksOf(v) : w.ver = v /\ w = InsertOf(v, j)
    BY DEF BlocksInv, IsInsert
  <2>2. PICK j \in BlocksOf(v) : w.ver = v /\ w = InsertOf(v, j)
    BY <2>w
  <2>3. w.idx = j /\ [ver |-> w.ver, data |-> w.data] = BlockOf(v, j)
    BY <2>2 DEF InsertOf, BlockOf
  <2>4. BlockOf(v, j).ver = v
    BY DEF BlockOf
  <2>5. ASSUME NEW i \in Indexes PROVE IsBlock(blocks'[i], i)
    <3>1. CASE blocks'[i] = blocks[i]
      BY <3>1 DEF BlocksInv
    <3>2. CASE blocks'[i] # blocks[i]
      <4>1. i = j /\ blocks'[i] = BlockOf(v, j)
        BY <2>1, <2>3, <3>2 DEF TypeOK
      <4> QED BY <4>1, <2>4 DEF IsBlock
    <3> QED BY <3>1, <3>2
  <2> QED BY <1>s, <2>1, <2>5 DEF BlocksInv
<1>3. CASE blocks' = blocks /\ inflight' \subseteq inflight
  BY <1>s, <1>3 DEF BlocksInv
<1>4. WriteBlock \/ InsertLands \/ (blocks' = blocks /\ inflight' \subseteq inflight)
  BY DEF Next, StartWrite, WriteMeta, WriteCutShort, WriteEnds, InsertLost,
         StartRead, MetaUnread, ReadBlock, FinishRead, tables, vars
<1> QED BY <1>1, <1>2, <1>3, <1>4

\* At every turn of write_file the tails are those of the blocks so far.
LEMMA TailsNext == TypeOK /\ CallsInv /\ TailsInv /\ [Next]_vars => TailsInv'
<1> SUFFICES ASSUME TypeOK, CallsInv, TailsInv, [Next]_vars PROVE TailsInv'
  OBVIOUS
<1>s. ASSUME NEW v, NEW n, v = ver', n = next',
             tailFk' = FkTail(v, n)', tailSk' = SkTail(v, n)'
      PROVE  TailsInv'
  BY <1>s DEF TailsInv, FkTail, SkTail, FkHashes, SkHashes, FkHash, SkHash,
              EncBlock, AesBlock, StoredBlock
<1>1. CASE StartWrite
  <2>1. next' = 0 /\ tailFk' = keys'[ver'].fk /\ tailSk' = keys'[ver'].sk
    BY <1>1, NewCall DEF StartWrite
  <2>2. PICK v : v = ver'
    OBVIOUS
  <2>3. FkTail(v, 0)' = keys'[v].fk /\ SkTail(v, 0)' = keys'[v].sk
    <3>1. FkHashes(v, 0)' = {} /\ SkHashes(v, 0)' = {}
      BY XorAllEmpty DEF FkHashes, SkHashes
    <3> QED BY <3>1, XorAlgebra DEF FkTail, SkTail
  <2> QED BY <1>s, <2>1, <2>2, <2>3
<1>2. CASE WriteBlock
  <2>1. /\ writing /\ next' = next + 1 /\ ver' = ver
        /\ tailFk' = Xor(tailFk, FkHash(ver, next))
        /\ tailSk' = Xor(tailSk, SkHash(ver, next))
    BY <1>2 DEF WriteBlock
  <2>2. ver \in 1 .. ver /\ next \in Nat
    BY <2>1, WriteTypes
  <2>3. PICK v, n : v = ver /\ n = next
    OBVIOUS
  <2>4. tailFk' = FkTail(v, n + 1) /\ tailSk' = SkTail(v, n + 1)
    BY <2>1, <2>2, <2>3, TailStep DEF TailsInv
  <2>5. FkTail(v, n + 1)' = FkTail(v, n + 1) /\ SkTail(v, n + 1)' = SkTail(v, n + 1)
    BY <2>2, <2>3, ValuesStay
  <2> QED BY <1>s, <2>1, <2>3, <2>4, <2>5
<1>3. CASE writing' = FALSE
  BY <1>3 DEF TailsInv
<1>4. CASE UNCHANGED writeVars
  BY <1>4 DEF writeVars, TailsInv, FkTail, SkTail, FkHashes, SkHashes, FkHash,
              SkHash, EncBlock, AesBlock, StoredBlock
<1>5. StartWrite \/ WriteBlock \/ writing' = FALSE \/ UNCHANGED writeVars
  BY DEF Next, WriteMeta, WriteCutShort, WriteEnds, InsertLands, InsertLost,
         StartRead, MetaUnread, ReadBlock, FinishRead, vars
<1> QED BY <1>1, <1>2, <1>3, <1>4, <1>5

\* A sequence is one over the values that it has.
LEMMA SeqOverRange ==
  ASSUME NEW S, NEW s \in Seq(S) PROVE s \in Seq(Range(s))
<1>1. Len(s) \in Nat /\ s \in [1 .. Len(s) -> S]
  OBVIOUS
<1>2. DOMAIN s = 1 .. Len(s)
  BY <1>1
<1>3. s \in [1 .. Len(s) -> Range(s)]
  BY <1>1, <1>2 DEF Range
<1> QED BY <1>1, <1>3, SeqDef

\* The metadata in the hands of a reader.
LEMMA ReaderMeta ==
  ASSUME TypeOK, CallsInv, NEW m, IsMeta(m), m # NoMeta
  PROVE  /\ m.ver \in 1 .. ver
         /\ m = MetaOf(m.ver)
         /\ m.n = Len(content[m.ver]) /\ m.n \in Nat
         /\ m.tailsSe # {} => se[m.ver] # {}
         /\ \A k : k \in 1 .. m.n => k - 1 \in BlocksOf(m.ver)
         /\ \A k \in Nat : k < m.n => k \in BlocksOf(m.ver) /\ k \in Indexes
<1>1. PICK v \in 1 .. ver : m.ver = v /\ m = MetaOf(v)
  BY DEF IsMeta
<1>2. /\ m.n = Len(content[v])
      /\ m.tailsSe = { AesCtr(keys[v].sk, IndexBytes(i)) : i \in se[v] }
  BY <1>1 DEF MetaOf
<1>3. m.tailsSe # {} => se[v] # {}
  BY <1>2
<1>4. Len(content[v]) \in Nat /\ BlocksOf(v) \subseteq Indexes
  BY CallTypes
<1> QED BY <1>1, <1>2, <1>3, <1>4 DEF BlocksOf

\* What the reader has taken stays the row and the blocks of calls.
LEMMA ReadNext ==
  TypeOK /\ CallsInv /\ BlocksInv /\ TailsInv /\ ReadInv /\ [Next]_vars => ReadInv'
<1> SUFFICES ASSUME TypeOK, CallsInv, BlocksInv, TailsInv, ReadInv, [Next]_vars
             PROVE  ReadInv'
  OBVIOUS
<1>s. ASSUME /\ IsMeta(meta') /\ IsMeta(rmeta')
             /\ got' \in Seq(Range(got'))
             /\ ~ reading' => got' = <<>>
             /\ reading' => /\ rmeta' # NoMeta
                            /\ Len(got') <= rmeta'.n
                            /\ \A k \in 1 .. Len(got') : IsBlock(got'[k], k - 1)
      PROVE  ReadInv'
  <2>1. ASSUME NEW m, IsMeta(m) PROVE IsMeta(m)'
    BY <2>1, MetaStays
  <2>2. IsMeta(meta)' /\ IsMeta(rmeta)'
    <3>1. PICK m : m = meta'
      OBVIOUS
    <3>2. PICK r : r = rmeta'
      OBVIOUS
    <3>3. IsMeta(m)' /\ IsMeta(r)'
      BY <1>s, <2>1, <3>1, <3>2
    <3> QED BY <3>1, <3>2, <3>3 DEF IsMeta
  <2>3. ASSUME reading', NEW k \in 1 .. Len(got') PROVE IsBlock(got[k], k - 1)'
    <3>1. PICK b : b = got'[k]
      OBVIOUS
    <3>2. IsBlock(b, k - 1)'
      BY <1>s, <2>3, <3>1, BlockStays
    <3> QED BY <3>1, <3>2 DEF IsBlock
  <2>4. (rmeta # NoMeta)' <=> rmeta' # NoMeta
    BY DEF NoMeta
  <2> QED BY <1>s, <2>2, <2>3, <2>4 DEF ReadInv
<1>1. CASE StartRead
  <2>1. /\ meta' = meta /\ rmeta' = meta /\ got' = <<>> /\ reading' = TRUE
        /\ meta # NoMeta
    BY <1>1 DEF StartRead, tables
  <2>2. meta.n \in Nat
    BY <2>1, ReaderMeta DEF ReadInv
  <2>3. got' \in Seq(Range(got'))
    BY <2>1, EmptySeq
  <2>4. Len(got') = 0
    BY <2>1
  <2> QED BY <1>s, <2>1, <2>2, <2>3, <2>4 DEF ReadInv
<1>2. CASE ReadBlock
  <2>1. /\ reading /\ Len(got) < rmeta.n
        /\ UNCHANGED <<meta, rmeta, reading>>
    BY <1>2 DEF ReadBlock, tables
  <2>2. PICK b \in {blocks[Len(got)], Absent} : got' = Append(got, b)
    BY <1>2 DEF ReadBlock, BlockRead, BlockUnread
  <2>3. got \in Seq(Range(got) \cup {b}) /\ Len(got) \in Nat
    <3>1. got \in Seq(Range(got))
      BY DEF ReadInv
    <3> QED BY <3>1, SeqMonotonic
  <2>4. /\ got' \in Seq(Range(got) \cup {b})
        /\ Len(got') = Len(got) + 1
        /\ got'[Len(got) + 1] = b
        /\ \A k \in 1 .. Len(got) : got'[k] = got[k]
    BY <2>1, <2>2, <2>3, AppendProperties
  <2>5. IsBlock(b, Len(got))
    <3>1. Len(got) \in Indexes
      BY <2>1, <2>3, ReaderMeta DEF ReadInv
    <3> QED BY <2>2, <3>1 DEF BlocksInv, IsBlock
  <2>6. ASSUME NEW k \in 1 .. Len(got') PROVE IsBlock(got'[k], k - 1)
    <3>1. CASE k \in 1 .. Len(got)
      BY <2>1, <2>4, <3>1 DEF ReadInv
    <3>2. CASE k = Len(got) + 1
      <4>1. k - 1 = Len(got)
        BY <2>3, <3>2
      <4> QED BY <2>4, <2>5, <3>2, <4>1
    <3> QED BY <2>3, <2>4, <3>1, <3>2
  <2>7. got' \in Seq(Range(got'))
    BY <2>4, SeqOverRange
  <2>8. rmeta.n \in Nat /\ Len(got') <= rmeta.n
    BY <2>1, <2>3, <2>4, ReaderMeta DEF ReadInv
  <2> QED BY <1>s, <2>1, <2>6, <2>7, <2>8 DEF ReadInv
<1>3. CASE WriteMeta
  <2>1. /\ writing /\ next = Size
        /\ UNCHANGED <<rmeta, got, reading>>
        /\ meta' = [ver |-> ver, n |-> Size,
                    tailFk |-> IF se[ver] = {} THEN {} ELSE AesCtr(GK, tailFk),
                    tailSk |-> IF se[ver] = {} THEN {} ELSE AesCtr(GK, tailSk),
                    tailsSe |->
                      { AesCtr(keys[ver].sk, IndexBytes(i)) : i \in se[ver] }]
    BY <1>3 DEF WriteMeta, WriteEnds, readVars
  <2>2. /\ ver \in 1 .. ver /\ Size = Len(content[ver])
        /\ tailFk = FkTail(ver, Size) /\ tailSk = SkTail(ver, Size)
    BY <2>1, WriteTypes DEF TailsInv
  <2>3. meta' = MetaOf(ver) /\ meta'.ver = ver
    BY <2>1, <2>2 DEF MetaOf
  <2>4. IsMeta(meta')
    BY <2>2, <2>3 DEF IsMeta
  <2> QED BY <1>s, <2>1, <2>4 DEF ReadInv
<1>4. CASE FinishRead
  <2>1. got' = <<>> /\ reading' = FALSE /\ UNCHANGED <<meta, rmeta>>
    BY <1>4 DEF FinishRead, tables
  <2>2. got' \in Seq(Range(got'))
    BY <2>1, EmptySeq
  <2> QED BY <1>s, <2>1, <2>2 DEF ReadInv
<1>5. CASE UNCHANGED <<meta, rmeta, got, reading>>
  BY <1>s, <1>5 DEF ReadInv
<1>6. \/ StartRead \/ MetaUnread \/ ReadBlock \/ WriteMeta \/ FinishRead
      \/ UNCHANGED <<meta, rmeta, got, reading>>
  BY DEF Next, StartWrite, WriteBlock, WriteCutShort, WriteEnds, InsertLands,
         InsertLost, readVars, tables, vars
<1>7. CASE MetaUnread
  BY <1>s, <1>7 DEF MetaUnread, ReadInv, IsMeta, tables
<1> QED BY <1>1, <1>2, <1>3, <1>4, <1>5, <1>6, <1>7

\* While nothing is cut short or lost, blocks issued are stored or on their
\* way.
LEMMA SettledNext ==
  TypeOK /\ CallsInv /\ SettledInv /\ [Next]_vars => SettledInv'
<1> SUFFICES ASSUME TypeOK, CallsInv, SettledInv, [Next]_vars,
                    ~ broken', ver' > 0
             PROVE  /\ ~ writing' => meta'.ver = ver'
                    /\ \A i \in Issued' : \/ blocks'[i].ver = ver'
                                          \/ InsertOf(ver, i)' \in inflight'
  BY DEF SettledInv
<1>1. CASE StartWrite
  <2>1. writing' = TRUE /\ next' = 0
    BY <1>1 DEF StartWrite
  <2> QED BY <2>1 DEF Issued
<1>s. ASSUME ~ StartWrite
      PROVE  /\ ver' = ver /\ ver \in 1 .. ver /\ broken = FALSE
             /\ \A i : InsertOf(ver, i)' = InsertOf(ver, i)
             /\ BlocksOf(ver)' = BlocksOf(ver)
             /\ ~ writing => meta.ver = ver
             /\ \A i \in Issued : \/ blocks[i].ver = ver
                                  \/ InsertOf(ver, i) \in inflight
  <2>1. UNCHANGED <<ver, content, keys, se>>
    BY <1>s, CallsStay
  <2>2. ver \in 1 .. ver
    BY <2>1 DEF TypeOK
  <2>3. broken = FALSE
    BY <1>s DEF Next, WriteBlock, WriteMeta, WriteCutShort, InsertLands,
                InsertLost, StartRead, MetaUnread, ReadBlock, FinishRead, vars, TypeOK
  <2>4. \A i : InsertOf(ver, i)' = InsertOf(ver, i)
    BY <2>1 DEF InsertOf, StoredBlock, EncBlock, AesBlock
  <2>5. BlocksOf(ver)' = BlocksOf(ver)
    BY <2>1 DEF BlocksOf
  <2> QED BY <2>1, <2>2, <2>3, <2>4, <2>5 DEF SettledInv
<1>2. CASE WriteBlock
  <2>1. /\ writing /\ writing' = writing /\ next' = next + 1 /\ blocks' = blocks
        /\ inflight' = inflight \cup {InsertOf(ver, next)}
        /\ ver' = ver /\ writing' = TRUE
    BY <1>2 DEF WriteBlock, BlockName, InsertOf, TypeOK
  <2>2. ~ StartWrite
    BY <2>1 DEF StartWrite
  <2>3. Issued' = Issued \cup {next} /\ next \in Nat
    BY <2>1 DEF Issued, TypeOK
  <2> QED BY <1>s, <2>1, <2>2, <2>3
<1>3. CASE WriteMeta
  <2>1. /\ writing /\ writing' = FALSE /\ next = Size /\ meta'.ver = ver
        /\ UNCHANGED <<ver, blocks, inflight>>
    BY <1>3 DEF WriteMeta, WriteEnds
  <2>2. ~ StartWrite
    BY <2>1 DEF StartWrite
  <2>3. Issued' = Issued
    BY <1>s, <2>1, <2>2 DEF Issued, BlocksOf, Size
  <2> QED BY <1>s, <2>1, <2>2, <2>3
<1>4. CASE InsertLands
  <2>1. PICK w \in inflight :
          /\ inflight' = inflight \ {w}
          /\ blocks' = IF blocks[w.idx].ver > w.ver THEN blocks
                       ELSE [blocks EXCEPT ![w.idx] =
                               [ver |-> w.ver, data |-> w.data]]
    BY <1>4 DEF InsertLands
  <2>2. UNCHANGED <<writing, ver, content, next, meta>>
    BY <1>4 DEF InsertLands, writeVars
  <2>3. \A i \in Indexes : blocks[i].ver \in 0 .. ver
    BY DEF TypeOK
  <2>4. w.ver \in 1 .. ver /\ w.idx \in Indexes /\ ver \in Nat
    BY ClientAssumption DEF TypeOK
  <2>5. UNCHANGED <<content, keys, se, ver>>
    BY <1>4 DEF InsertLands, writeVars
  <2>6. /\ ver \in 1 .. ver
        /\ \A i : InsertOf(ver, i)' = InsertOf(ver, i)
        /\ ~ writing => meta.ver = ver
        /\ \A i \in Issued : \/ blocks[i].ver = ver
                             \/ InsertOf(ver, i) \in inflight
    <3>1. broken = FALSE
      BY <1>4 DEF InsertLands
    <3>2. \A i : InsertOf(ver, i)' = InsertOf(ver, i)
      BY <2>5 DEF InsertOf, StoredBlock, EncBlock, AesBlock
    <3> QED BY <2>2, <2>4, <3>1, <3>2 DEF SettledInv
  <2>7. Issued' = Issued /\ Issued \subseteq Indexes
    <3>1. Issued' = Issued
      BY <2>2 DEF Issued, BlocksOf
    <3>2. CASE writing
      <4>1. next <= Len(content[ver]) /\ next \in Nat /\ Len(content[ver]) \in Nat
        BY <3>2, WriteTypes
      <4>2. Issued \subseteq BlocksOf(ver)
        BY <3>2, <4>1 DEF Issued, BlocksOf
      <4> QED BY <2>6, <3>1, <4>2, CallTypes
    <3>3. CASE ~ writing
      BY <2>6, <3>1, <3>3, CallTypes DEF Issued
    <3> QED BY <3>2, <3>3
  <2>8. ASSUME NEW i \in Issued
        PROVE  blocks'[i].ver = ver \/ InsertOf(ver, i) \in inflight'
    <3>0. i \in Indexes /\ DOMAIN blocks = Indexes
      BY <2>7 DEF TypeOK
    <3>1. CASE w = InsertOf(ver, i)
      <4>1. w.ver = ver /\ w.idx = i
        BY <3>1 DEF InsertOf
      <4>2. ~ (blocks[i].ver > ver)
        BY <2>3, <2>4, <3>0
      <4>3. blocks'[i] = [ver |-> w.ver, data |-> w.data]
        BY <2>1, <3>0, <4>1, <4>2
      <4> QED BY <4>1, <4>3
    <3>2. CASE InsertOf(ver, i) \in inflight /\ w # InsertOf(ver, i)
      BY <2>1, <3>2
    <3>3. CASE blocks[i].ver = ver
      <4>1. CASE w.idx = i /\ ~ (blocks[i].ver > w.ver)
        <5>1. w.ver = ver
          BY <2>4, <3>3, <4>1
        <5>2. blocks'[i] = [ver |-> w.ver, data |-> w.data]
          BY <2>1, <3>0, <4>1
        <5> QED BY <5>1, <5>2
      <4>2. CASE w.idx # i \/ blocks[i].ver > w.ver
        <5>1. blocks'[i] = blocks[i]
          BY <2>1, <3>0, <4>2
        <5> QED BY <3>3, <5>1
      <4> QED BY <4>1, <4>2
    <3> QED BY <2>6, <3>1, <3>2, <3>3
  <2> QED BY <2>2, <2>6, <2>7, <2>8
<1>5. CASE /\ UNCHANGED <<writing, ver, content, keys, se, next, meta, blocks, inflight>>
           /\ broken = FALSE
  <2>1. \A i : InsertOf(ver, i)' = InsertOf(ver, i)
    BY <1>5 DEF InsertOf, StoredBlock, EncBlock, AesBlock
  <2>2. Issued' = Issued
    BY <1>5 DEF Issued, BlocksOf
  <2> QED BY <1>5, <2>1, <2>2 DEF SettledInv
<1>6. ASSUME ~ StartWrite, ~ WriteBlock, ~ WriteMeta, ~ InsertLands
      PROVE  /\ UNCHANGED <<writing, ver, content, keys, se, next, meta, blocks,
                            inflight>>
             /\ broken = FALSE
  BY <1>6 DEF Next, WriteCutShort, InsertLost, StartRead, MetaUnread, ReadBlock, FinishRead,
              writeVars, tables, vars
<1> QED BY <1>1, <1>2, <1>3, <1>4, <1>5, <1>6

\* A clean read, which no write has met, goes on reading blocks of the last
\* call.
LEMMA CleanNext ==
  /\ TypeOK /\ CallsInv /\ ReadInv /\ SettledInv /\ CleanInv /\ [Next]_vars
  => CleanInv'
<1> SUFFICES ASSUME TypeOK, CallsInv, ReadInv, SettledInv, CleanInv, [Next]_vars
             PROVE  CleanInv'
  OBVIOUS
<1>t. clean' \in BOOLEAN
  <2>1. TypeOK'
    BY TypeNext
  <2> QED BY <2>1 DEF TypeOK
<1> SUFFICES ASSUME clean' = TRUE
             PROVE  /\ ~ writing' /\ inflight' = {} /\ ~ broken'
                    /\ rmeta' = meta' /\ (rmeta # NoMeta)'
                    /\ \A k \in 1 .. Len(got') : got'[k].ver = ver'
  BY <1>t DEF CleanInv
<1>n. NoMeta' = NoMeta
  BY DEF NoMeta
<1>1. CASE StartRead
  <2>1. /\ ~ writing /\ inflight = {} /\ ~ broken
        /\ rmeta' = meta /\ got' = <<>> /\ meta # NoMeta
        /\ UNCHANGED <<writing, inflight, broken, meta>>
    BY <1>1 DEF StartRead, writeVars, tables
  <2> QED BY <1>n, <2>1
<1>2. CASE ReadBlock
  <2>1. /\ reading /\ Len(got) < rmeta.n /\ got' = Append(got, blocks[Len(got)])
        /\ UNCHANGED <<writing, ver, meta, rmeta, inflight, broken, clean>>
    BY <1>2 DEF ReadBlock, BlockRead, BlockUnread, writeVars, tables
  <2>2. /\ ~ writing /\ inflight = {} /\ ~ broken
        /\ rmeta = meta /\ rmeta # NoMeta
        /\ \A k \in 1 .. Len(got) : got[k].ver = ver
    BY <2>1 DEF CleanInv
  <2>3. got \in Seq(Range(got)) /\ Len(got) \in Nat
    BY DEF ReadInv
  <2>4. blocks[Len(got)].ver = ver
    <3>1. rmeta.ver \in 1 .. ver /\ ver > 0
      BY <2>2, ReaderMeta DEF ReadInv, TypeOK
    <3>2. rmeta.ver = ver
      BY <2>2, <3>1 DEF SettledInv
    <3>3. Len(got) \in Issued
      BY <2>1, <2>2, <2>3, <3>2, ReaderMeta DEF ReadInv, Issued
    <3> QED BY <2>2, <3>1, <3>3 DEF SettledInv
  <2>5. ASSUME NEW k \in 1 .. Len(got') PROVE got'[k].ver = ver
    <3>1. CASE k \in 1 .. Len(got)
      BY <2>1, <2>2, <2>3, <3>1
    <3>2. CASE k = Len(got) + 1
      BY <2>1, <2>3, <2>4, <3>2
    <3> QED BY <2>1, <2>3, <3>1, <3>2
  <2> QED BY <1>n, <2>1, <2>2, <2>5
<1>3. CASE FinishRead
  <2>1. /\ got' = <<>>
        /\ UNCHANGED <<writing, meta, rmeta, inflight, broken, clean>>
    BY <1>3 DEF FinishRead, writeVars, tables
  <2> QED BY <1>n, <2>1 DEF CleanInv
<1>4. CASE UNCHANGED vars
  BY <1>n, <1>4 DEF CleanInv, vars, writeVars, readVars, tables
<1>5. ASSUME ~ StartRead, ~ ReadBlock, ~ FinishRead, ~ UNCHANGED vars PROVE FALSE
  <2>1. clean' # FALSE
    OBVIOUS
  <2>2. CASE clean = FALSE
    BY <1>5, <2>1, <2>2 DEF Next, StartWrite, WriteBlock, WriteMeta,
                      WriteCutShort, WriteEnds, InsertLands, InsertLost,
                      MetaUnread, readVars
  <2>3. CASE clean = TRUE
    <3>1. ~ writing /\ inflight = {}
      BY <2>3 DEF CleanInv
    <3> QED BY <1>5, <2>1, <3>1 DEF Next, StartWrite, WriteBlock, WriteMeta,
                      WriteCutShort, WriteEnds, InsertLands, InsertLost,
                      MetaUnread
  <2> QED BY <2>2, <2>3 DEF TypeOK
<1> QED BY <1>1, <1>2, <1>3, <1>4, <1>5

\* A read that ends: what it makes of the blocks it has.
LEMMA FinishedRead ==
  ASSUME TypeOK, CallsInv, ReadInv, FinishRead, rmeta.tailsSe # {},
         NEW v, v = rmeta.ver
  PROVE  /\ v \in 1 .. ver /\ rmeta = MetaOf(v) /\ se[v] # {}
         /\ rmeta' = rmeta /\ clean' = clean /\ result' = Decode
         /\ \A i \in BlocksOf(v) : /\ i + 1 \in 1 .. Len(got)
                                   /\ IsBlock(got[i + 1], i)
         /\ UNCHANGED <<ver, content, keys, se>>
<1>1. /\ reading /\ Len(got) = rmeta.n
      /\ UNCHANGED <<rmeta, clean, ver, content, keys, se>>
      /\ result' = Decode
  BY DEF FinishRead, writeVars
<1>2. rmeta # NoMeta /\ IsMeta(rmeta)
  BY <1>1 DEF ReadInv
<1>3. v \in 1 .. ver /\ rmeta = MetaOf(v) /\ se[v] # {} /\ rmeta.n = Len(content[v])
  BY <1>2, ReaderMeta
<1>4. ASSUME NEW i \in BlocksOf(v)
      PROVE  i + 1 \in 1 .. Len(got) /\ IsBlock(got[i + 1], i)
  <2>0. Len(content[v]) \in Nat
    BY <1>3, CallTypes
  <2>n. PICK n \in Nat : n = Len(content[v]) /\ n = Len(got)
    BY <1>1, <1>3, <2>0
  <2>1. i + 1 \in 1 .. Len(got) /\ (i + 1) - 1 = i
    <3>1. i \in 0 .. n - 1
      BY <2>n DEF BlocksOf
    <3> QED BY <2>n, <3>1
  <2>2. IsBlock(got[i + 1], (i + 1) - 1)
    BY <1>1, <2>1 DEF ReadInv
  <2> QED BY <2>1, <2>2
<1> QED BY <1>1, <1>3, <1>4

\* The result of a clean read is that of the round trip.
LEMMA QuietNext ==
  /\ TypeOK /\ CallsInv /\ ReadInv /\ SettledInv /\ CleanInv
  /\ QuietReadReturnsContent /\ [Next]_vars
  => QuietReadReturnsContent'
<1> SUFFICES ASSUME TypeOK, CallsInv, ReadInv, SettledInv, CleanInv,
                    QuietReadReturnsContent, [Next]_vars, Ended', clean',
                    NEW v, v = rmeta'.ver
             PROVE  result' = Value(Plaintext(v)')
  BY DEF QuietReadReturnsContent, Plaintext, Value
<1>e. ~ reading' /\ rmeta'.tailsSe # {} /\ NoMeta.tailsSe = {}
  BY DEF Ended, NoMeta
<1>1. CASE FinishRead
  <2>1. v = rmeta.ver /\ rmeta.tailsSe # {} /\ clean
    BY <1>e, <1>1 DEF FinishRead
  <2>2. /\ v \in 1 .. ver /\ rmeta = MetaOf(v) /\ se[v] # {} /\ result' = Decode
        /\ \A i \in BlocksOf(v) : /\ i + 1 \in 1 .. Len(got)
                                  /\ IsBlock(got[i + 1], i)
    BY <1>1, <2>1, FinishedRead
  <2>3. v = ver
    <3>1. ~ writing /\ ~ broken /\ rmeta = meta
      BY <2>1 DEF CleanInv
    <3>2. ver > 0
      BY <2>2 DEF TypeOK
    <3> QED BY <2>1, <3>1, <3>2 DEF SettledInv
  <2>4. ASSUME NEW i \in BlocksOf(v) PROVE got[i + 1] = BlockOf(v, i)
    <3>1. got[i + 1].ver = v /\ v # 0
      BY <2>1, <2>2, <2>3 DEF CleanInv
    <3>2. got[i + 1] # Absent
      BY <3>1 DEF Absent
    <3> QED BY <2>2, <3>1, <3>2 DEF IsBlock
  <2>5. Decode = Value(Plaintext(v))
    BY <2>2, <2>4, DecodeRoundTrip
  <2> QED BY <2>2, <2>5, ValuesStay
<1>2. CASE UNCHANGED <<readVars, content>>
  <2>1. Ended /\ clean /\ v = rmeta.ver
    BY <1>2 DEF readVars, Ended, NoResult
  <2>2. result = Value(Plaintext(v))
    BY <2>1 DEF QuietReadReturnsContent, Plaintext, Value
  <2>3. Plaintext(v)' = Plaintext(v)
    BY <1>2 DEF Plaintext
  <2> QED BY <1>2, <2>2, <2>3 DEF readVars
<1>3. FinishRead \/ UNCHANGED <<readVars, content>>
  <2>1. ~ StartWrite
    BY DEF StartWrite
  <2>2. ~ StartRead
    BY <1>e DEF StartRead
  <2>3. ~ ReadBlock
    <3>1. ReadBlock => reading = TRUE /\ reading' = reading
      BY DEF ReadBlock, TypeOK
    <3> QED BY <1>e, <3>1
  <2>4. ~ MetaUnread
    BY <1>e DEF MetaUnread
  <2>5. WriteBlock \/ WriteMeta \/ WriteCutShort => UNCHANGED <<readVars, content>>
    BY DEF WriteBlock, WriteMeta, WriteCutShort, WriteEnds
  <2>6. InsertLands \/ InsertLost => UNCHANGED <<readVars, content>>
    BY DEF InsertLands, InsertLost, writeVars
  <2> QED BY <2>1, <2>2, <2>3, <2>4, <2>5, <2>6 DEF Next, writeVars, vars
<1> QED BY <1>1, <1>2, <1>3

\* A read that yields a value has read the blocks of one call.
LEMMA MixedNext ==
  TypeOK /\ CallsInv /\ ReadInv /\ NoMixedRead /\ [Next]_vars => NoMixedRead'
<1> SUFFICES ASSUME TypeOK, CallsInv, ReadInv, NoMixedRead, [Next]_vars,
                    Ended', FreshKeys', DistinctBlocks', result'.kind = "value",
                    NEW v, v = rmeta'.ver
             PROVE  result'.value = Plaintext(v)'
  BY DEF NoMixedRead, Plaintext
<1>e. ~ reading' /\ rmeta'.tailsSe # {} /\ NoMeta.tailsSe = {}
  BY DEF Ended, NoMeta
<1>f. FreshKeys /\ DistinctBlocks
  BY CallsStay DEF FreshKeys, DistinctBlocks
<1>1. CASE FinishRead
  <2>1. v = rmeta.ver /\ rmeta.tailsSe # {}
    BY <1>e, <1>1 DEF FinishRead
  <2>2. /\ v \in 1 .. ver /\ rmeta = MetaOf(v) /\ se[v] # {} /\ result' = Decode
        /\ \A i \in BlocksOf(v) : IsBlock(got[i + 1], i)
    BY <1>1, <2>1, FinishedRead
  <2>3. ~ DecodeUndefined
    BY <2>2 DEF Decode, Undefined
  <2>4. \A i \in BlocksOf(v) : got[i + 1] = BlockOf(v, i)
    BY <1>f, <2>2, <2>3, ValueMeansOneCall
  <2>5. Decode = Value(Plaintext(v))
    BY <2>2, <2>4, DecodeRoundTrip
  <2>6. result'.value = Plaintext(v)
    BY <2>2, <2>5 DEF Value
  <2> QED BY <2>2, <2>6, ValuesStay
<1>2. CASE UNCHANGED <<reading, rmeta, result>>
  <2>1. Ended /\ v = rmeta.ver /\ result.kind = "value"
    BY <1>2 DEF Ended, NoResult
  <2>2. result.value = Plaintext(v)
    BY <1>f, <2>1 DEF NoMixedRead, Plaintext
  <2>3. v \in 1 .. ver
    <3>1. rmeta # NoMeta
      BY <2>1 DEF Ended, NoMeta
    <3> QED BY <2>1, <3>1, ReaderMeta DEF ReadInv
  <2> QED BY <1>2, <2>2, <2>3, ValuesStay
<1>3. FinishRead \/ UNCHANGED <<reading, rmeta, result>>
  BY <1>e DEF Next, StartWrite, WriteBlock, WriteMeta, WriteCutShort, WriteEnds,
             InsertLands, InsertLost, StartRead, MetaUnread, ReadBlock, readVars, vars
<1> QED BY <1>1, <1>2, <1>3

-----------------------------------------------------------------------------
(* The theorems.                                                            *)

\* All of it holds of empty tables.
LEMMA InvInit == Init => IInv
<1> SUFFICES ASSUME Init PROVE IInv
  OBVIOUS
<1>1. TypeOK
  BY TypeInit
<1>2. ver = 0 /\ writing = FALSE /\ reading = FALSE /\ clean = FALSE
      /\ inflight = {} /\ got = <<>> /\ meta = NoMeta /\ rmeta = NoMeta
      /\ result = NoResult /\ blocks = [i \in Indexes |-> Absent]
  BY DEF Init
<1>3. CallsInv /\ TailsInv /\ SettledInv /\ CleanInv
  BY <1>2 DEF CallsInv, TailsInv, SettledInv, CleanInv
<1>4. BlocksInv
  BY <1>2 DEF BlocksInv, IsBlock
<1>5. ReadInv
  <2>1. got \in Seq(Range(got))
    BY <1>2, EmptySeq
  <2> QED BY <1>2, <2>1 DEF ReadInv, IsMeta
<1>6. QuietReadReturnsContent /\ NoMixedRead
  BY <1>2 DEF QuietReadReturnsContent, NoMixedRead, Ended
<1> QED BY <1>1, <1>3, <1>4, <1>5, <1>6 DEF IInv

\* Every block and every metadata row, stored, in flight or read, is that of
\* one call of write_file, whatever was cut short, lost or reordered; and while
\* nothing was, the blocks of the last call are all stored or on their way
\* (client.cpp 143-225).
THEOREM Inductive == Spec => []IInv
<1>1. Init => IInv
  BY InvInit
<1>2. IInv /\ [Next]_vars => IInv'
  BY TypeNext, CallsNext, BlocksNext, TailsNext, ReadNext, SettledNext, CleanNext,
     QuietNext, MixedNext DEF IInv
<1> QED BY <1>1, <1>2, PTL DEF Spec

\* The variables of both processes and of the tables have their types.
THEOREM TypeCorrect == Spec => []TypeOK
<1>1. IInv => TypeOK
  BY DEF IInv
<1> QED BY <1>1, Inductive, PTL

\* A read that meets no write, every earlier one having landed whole, returns
\* the content of the last write, whatever blocks were chosen, whatever keys
\* write_file drew (even the same twice) and however often blocks are equal
\* (client.cpp 143-225 against 349-465).
THEOREM QuietReadCorrect == Spec => []QuietReadReturnsContent
<1>1. IInv => QuietReadReturnsContent
  BY DEF IInv
<1> QED BY <1>1, Inductive, PTL

\* With fresh keys for every write and no block twice in a file, what read_file
\* takes for a file is the content that the metadata it has read is of, however
\* the blocks of several writes are mixed (client.cpp 349-448).
THEOREM NoMixedReadCorrect == Spec => []NoMixedRead
<1>1. IInv => NoMixedRead
  BY DEF IInv
<1> QED BY <1>1, Inductive, PTL

=============================================================================
