---------------------------- MODULE AontClientInv ----------------------------
(***************************************************************************)
(* The inductive invariant of AontClient: every block and every metadata    *)
(* row, stored, in flight or in the hands of the reader, is that of one     *)
(* call of write_file; and while no write was cut short and no INSERT lost, *)
(* all blocks of the last call are stored or on their way.                  *)
(***************************************************************************)
EXTENDS AontClient

\* The bytes of call v, and what its first n hashes add to the two tails.
BlocksOf(v) == 0 .. Len(content[v]) - 1
FkHashes(v, n) == XorAll([i \in 0 .. n - 1 |-> FkHash(v, i)])
SkHashes(v, n) == XorAll([i \in 0 .. n - 1 |-> SkHash(v, i)])
FkTail(v, n) == Xor(keys[v].fk, FkHashes(v, n))
SkTail(v, n) == Xor(keys[v].sk, SkHashes(v, n))

\* The metadata row of call v, as a function of what the call was given.
MetaOf(v) ==
  [ver |-> v, n |-> Len(content[v]),
   tailFk |-> IF se[v] = {} THEN {} ELSE AesCtr(GK, FkTail(v, Len(content[v]))),
   tailSk |-> IF se[v] = {} THEN {} ELSE AesCtr(GK, SkTail(v, Len(content[v]))),
   tailsSe |-> { AesCtr(keys[v].sk, IndexBytes(i)) : i \in se[v] }]

BlockOf(v, i) == [ver |-> v, data |-> StoredBlock(v, i)]
InsertOf(v, i) == [ver |-> v, idx |-> i, data |-> StoredBlock(v, i)]

IsBlock(b, i) ==
  b = Absent \/ \E v \in 1 .. ver : /\ b.ver = v
                                    /\ i \in BlocksOf(v)
                                    /\ b = BlockOf(v, i)

IsInsert(w) ==
  \E v \in 1 .. ver : \E i \in BlocksOf(v) : w.ver = v /\ w = InsertOf(v, i)

CallsInv == \A v \in 1 .. ver : se[v] \subseteq BlocksOf(v)

BlocksInv ==
  /\ \A i \in Indexes : IsBlock(blocks[i], i)
  /\ \A w \in inflight : IsInsert(w)

TailsInv ==
  writing => tailFk = FkTail(ver, next) /\ tailSk = SkTail(ver, next)

IsMeta(m) == m = NoMeta \/ \E v \in 1 .. ver : m.ver = v /\ m = MetaOf(v)

ReadInv ==
  /\ IsMeta(meta) /\ IsMeta(rmeta)
  /\ got \in Seq(Range(got))
  /\ ~ reading => got = <<>>
  /\ reading => /\ rmeta # NoMeta
                /\ Len(got) <= rmeta.n
                /\ \A k \in 1 .. Len(got) : IsBlock(got[k], k - 1)

\* Blocks the last call has issued.
Issued == IF writing THEN 0 .. next - 1 ELSE BlocksOf(ver)

SettledInv ==
  ~ broken /\ ver > 0 =>
    /\ ~ writing => meta.ver = ver
    /\ \A i \in Issued : blocks[i].ver = ver \/ InsertOf(ver, i) \in inflight

CleanInv ==
  clean => /\ ~ writing /\ inflight = {} /\ ~ broken
           /\ rmeta = meta /\ rmeta # NoMeta
           /\ \A k \in 1 .. Len(got) : got[k].ver = ver

IInv ==
  /\ TypeOK
  /\ CallsInv
  /\ BlocksInv
  /\ TailsInv
  /\ ReadInv
  /\ SettledInv
  /\ CleanInv
  /\ QuietReadReturnsContent
  /\ NoMixedRead

=============================================================================
