----------------------------- MODULE ReKeyFileInv -----------------------------
(***************************************************************************)
(* The inductive invariant of ReKeyFile: which write calls the row, the     *)
(* blocks and the copies of the workers come from.                          *)
(***************************************************************************)
EXTENDS ReKeyFile

\* The INSERTs under way are the client's, from its rewrites; the UPDATEs are
\* the workers', of blocks that some version lets them replace.
InflightInv ==
  /\ writing => Last >= 1
  /\ \A u \in inflight :
       IF u.data.bytes = "junk"
       THEN \E v \in 0 .. Last : u.idx \in ToReplace(v)
       ELSE u.data.ver >= 1 /\ u.data = WrittenBlock(u.data.ver, u.idx)

\* Block i is no longer as the first write left it, or is about to change, or the
\* change has failed.
Behind(i) == blocks[i] # WrittenBlock(0, i) \/ i \in lost \/ UnderWay(i)

\* How far workers have come, and what becomes of the blocks behind them.
ProgressInv ==
  /\ \A w \in Workers :
       /\ next[w] <= Turns(m[w])
       /\ pc[w] \in {"meta", "done"} => next[w] = Turns(m[w])
       /\ w \in status => pc[w] = "done"
       /\ \A i \in 0 .. next[w] - 1 : Behind(i)

\* Block i of the last write is stored, or re-keyed since, or on its way.
Arriving(i) ==
  \/ [idx |-> i, data |-> WrittenBlock(Last, i)] \in inflight
  \/ blocks[i].ver = Last /\ (ReKeyed(i) \/ blocks[i] = WrittenBlock(Last, i))

\* Without the accidents, a copy in use is the row, the row is that of the last
\* write that has ended, and all blocks of the last write arrive.
WholeInv ==
  /\ ~ exposed => \A w \in Workers : pc[w] = "blocks" => m[w] = meta
  /\ ~ exposed /\ ~ cutShort =>
       meta = WrittenMeta(IF writing THEN Last - 1 ELSE Last)
  /\ ~ cutShort /\ lost = {} => \A i \in Blocks :
       (writing => i < sent) => Arriving(i)

IInv ==
  /\ TypeOK
  /\ InflightInv
  /\ OthersUntouched
  /\ ProgressInv
  /\ WholeInv

=============================================================================
