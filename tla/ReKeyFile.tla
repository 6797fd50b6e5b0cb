------------------------------ MODULE ReKeyFile ------------------------------
(***************************************************************************)
(* The re-keying of one file: re_key of a worker                            *)
(* (server/App/TrustedLibrary/rekey.cpp), the enclave's ecall_re_key        *)
(* (server/Enclave/TrustedLibrary/rekey.cpp) and the Cassandra calls they   *)
(* make (server/App/TrustedLibrary/cass.cpp).  Several workers may work on  *)
(* the same file, and a client may write it again meanwhile                 *)
(* (client/client.cpp): nothing locks it.                                   *)
(*                                                                          *)
(* A stored block is known by the write_file call it comes from and by how  *)
(* its bytes came about: "single" under FK only, "old" under FK and then    *)
(* the old group key, "new" under FK and then the new one, "junk" for the   *)
(* contents of a buffer nobody has filled.                                  *)
(***************************************************************************)
EXTENDS Integers, FiniteSets, Sequences

CONSTANTS
  Workers,    \* workers that have the file in their batch
  NBlocks,    \* blocks of the file
  MaxWrites,  \* bound: write_file calls after the first one
  SeChoices,  \* what write_file may have super-encrypted; {} is AES mode
  Faults      \* subset of {"crash", "loss"}

ASSUME FileAssumption ==
  /\ NBlocks \in Nat \ {0}
  /\ MaxWrites \in Nat
  /\ SeChoices \subseteq SUBSET (0 .. NBlocks - 1)
  /\ Faults \subseteq {"crash", "loss"}

Blocks == 0 .. NBlocks - 1
Bytes == {"single", "old", "new", "junk"}

VARIABLES
  se,        \* se[v + 1]: the blocks that write_file call v super-encrypted
  writing,   \* the last call has not returned yet
  sent,      \* blocks it has written
  pc,        \* pc[w]: "batch", "blocks", "meta", "done" or "dead"
  m,         \* m[w]: the metadata that re_key has read
  next,      \* next[w]: loop counter of the enclave
  meta,      \* the row of table meta
  blocks,    \* blocks[i]: table blocks
  inflight,  \* INSERTs and UPDATEs of blocks not executed yet: [idx, data]
  lost,      \* history: blocks of which an INSERT or UPDATE has failed
  exposed,   \* history: a write_file ended between GetMeta and InsertMeta
  cutShort,  \* history: a write_file did not end
  status     \* workers that have created the status znode of the batch

clientVars == <<se, writing, sent>>
tables == <<meta, blocks, inflight, lost>>
workerVars == <<pc, m, next, status>>
histories == <<exposed, cutShort>>
vars == <<clientVars, tables, workerVars, histories>>

Last == Len(se) - 1
SeOf(v) == se[v + 1]

\* What write_file call v stores.
WrittenMeta(v) == [ver |-> v, blocks |-> NBlocks, se |-> Cardinality(SeOf(v))]

WrittenBlock(v, i) ==
  [ver |-> v, bytes |-> IF SeOf(v) = {} \/ i \in SeOf(v) THEN "old" ELSE "single"]

Init ==
  /\ \E chosen \in SeChoices : se = <<chosen>>
  /\ writing = FALSE /\ sent = 0
  /\ pc = [w \in Workers |-> "batch"]
  /\ m = [w \in Workers |-> WrittenMeta(0)]
  /\ next = [w \in Workers |-> 0]
  /\ meta = WrittenMeta(0)
  /\ blocks = [i \in Blocks |-> WrittenBlock(0, i)]
  /\ inflight = {} /\ lost = {}
  /\ exposed = FALSE /\ cutShort = FALSE
  /\ status = {}

-----------------------------------------------------------------------------
(* The client.                                                              *)

StartWrite ==
  /\ ~ writing
  /\ Last < MaxWrites
  /\ \E chosen \in SeChoices : se' = Append(se, chosen)
  /\ writing' = TRUE
  /\ sent' = 0
  /\ UNCHANGED <<tables, workerVars, histories>>

\* insert_block is not awaited.
WriteBlock ==
  /\ writing
  /\ sent < NBlocks
  /\ inflight' = inflight \cup {[idx |-> sent, data |-> WrittenBlock(Last, sent)]}
  /\ sent' = sent + 1
  /\ UNCHANGED <<se, writing, meta, blocks, lost, workerVars, histories>>

\* insert_meta is awaited.
WriteMeta ==
  /\ writing
  /\ sent = NBlocks
  /\ meta' = WrittenMeta(Last)
  /\ writing' = FALSE
  /\ exposed' = (exposed \/ \E w \in Workers : pc[w] = "blocks")
  /\ UNCHANGED <<se, sent, blocks, inflight, lost, workerVars, cutShort>>

\* The client dies, or its INSERT into table meta fails: nobody looks.
WriteCutShort ==
  /\ Faults # {}
  /\ writing
  /\ writing' = FALSE
  /\ cutShort' = TRUE
  /\ UNCHANGED <<se, sent, tables, workerVars, exposed>>

-----------------------------------------------------------------------------
(* A worker.                                                                *)

\* Worker w passes from one part of re_key to the next.
Go(w, from, to) ==
  /\ pc[w] = from
  /\ pc' = [pc EXCEPT ![w] = to]
  /\ UNCHANGED <<clientVars, histories>>

MetaReadEarlier(w) == m[w]
MetaOfRow(w) == meta

GetMeta(w) ==
  /\ Go(w, "batch", "blocks")
  /\ m' = [m EXCEPT ![w] = MetaOfRow(w)]
  /\ next' = [next EXCEPT ![w] = 0]
  /\ UNCHANGED <<tables, status>>

\* full_re_key goes through all blocks.  Otherwise the enclave decrypts the
\* indexes of the super-encrypted blocks but keeps the counter of that loop.
IndexFirst(w) == 0
IndexOf(w) == next[w]
TurnsPastEnd(mm) == mm.blocks + 1
TurnsOneMore(mm) == IF mm.se = 0 THEN mm.blocks ELSE mm.se + 1
Turns(mm) == IF mm.se = 0 THEN mm.blocks ELSE mm.se

\* EVP_EncryptUpdate and EVP_DecryptUpdate are commented out: the output
\* buffer keeps what malloc returned.
SgxAes(bytes) == "junk"

\* Cassandra::get_block does not copy the data it selects.
GetBlock(i) == "junk"

\* One turn of the enclave's loop: ocall_get_block is awaited, the UPDATE of
\* ocall_put_block is not.
ReKeyBlock(w) ==
  /\ pc[w] = "blocks"
  /\ next[w] < Turns(m[w])
  /\ LET dec == SgxAes(GetBlock(IndexOf(w)))
     IN  inflight' = inflight \cup
           {[idx |-> IndexOf(w), data |-> [ver |-> 0, bytes |-> SgxAes(dec)]]}
  /\ next' = [next EXCEPT ![w] = @ + 1]
  /\ UNCHANGED <<clientVars, pc, m, meta, blocks, lost, histories, status>>

\* insert_meta is awaited, but its error is not looked at.  It writes what
\* get_meta returned: the enclave changes none of it ("TODO : hash in, hash out
\* of FK").
InsertMeta(w) ==
  /\ Go(w, "blocks", "meta")
  /\ next[w] >= Turns(m[w])
  /\ \/ meta' = m[w]
     \/ "loss" \in Faults /\ meta' = meta
  /\ UNCHANGED <<m, next, blocks, inflight, lost, status>>

\* re_key_batch returns and process_task creates the status znode.
ReportStatus(w) ==
  /\ Go(w, "meta", "done")
  /\ status' = status \cup {w}
  /\ UNCHANGED <<m, next, tables>>

-----------------------------------------------------------------------------
(* Cassandra.                                                               *)

\* Of two INSERTs by the client the later one stays, also when an UPDATE has
\* replaced it meanwhile: the UPDATE is the later of these two.
Stored(u) ==
  IF u.data.bytes = "junk" THEN [blocks[u.idx] EXCEPT !.bytes = "junk"]
  ELSE IF blocks[u.idx].ver > u.data.ver THEN blocks[u.idx]
  ELSE u.data

\* INSERTs and UPDATEs land in any order.
UpdateLands ==
  \E u \in inflight :
    /\ inflight' = inflight \ {u}
    /\ blocks' = [blocks EXCEPT ![u.idx] = Stored(u)]
    /\ UNCHANGED <<clientVars, workerVars, meta, lost, histories>>

\* Nobody looks at the result either.
UpdateLost ==
  /\ "loss" \in Faults
  /\ \E u \in inflight :
       inflight' = inflight \ {u} /\ lost' = lost \cup {u.idx}
  /\ UNCHANGED <<clientVars, workerVars, meta, blocks, histories>>

\* The worker dies, for instance in the abort() after a failed ecall.
Crash(w) ==
  /\ "crash" \in Faults
  /\ pc[w] \in {"batch", "blocks", "meta"}
  /\ pc' = [pc EXCEPT ![w] = "dead"]
  /\ UNCHANGED <<clientVars, m, next, status, tables, histories>>

WorkerStep(w) ==
  GetMeta(w) \/ ReKeyBlock(w) \/ InsertMeta(w) \/ ReportStatus(w) \/ Crash(w)

ClientStep == StartWrite \/ WriteBlock \/ WriteMeta \/ WriteCutShort

Next ==
  ClientStep \/ (\E w \in Workers : WorkerStep(w)) \/ UpdateLands \/ UpdateLost

Spec == Init /\ [][Next]_vars

\* A worker in the middle of a file goes on; the store answers in the end.
Fairness ==
  /\ \A w \in Workers : WF_vars(GetMeta(w) \/ ReKeyBlock(w) \/ InsertMeta(w)
                                  \/ ReportStatus(w))
  /\ WF_vars(UpdateLands)

FairSpec == Spec /\ Fairness
-----------------------------------------------------------------------------
Block == [ver : 0 .. Last, bytes : Bytes]
Metas == { WrittenMeta(v) : v \in 0 .. Last }

TypeOK ==
  /\ se \in Seq(SeChoices) /\ Len(se) \in 1 .. MaxWrites + 1
  /\ sent \in 0 .. NBlocks
  /\ writing \in BOOLEAN /\ exposed \in BOOLEAN /\ cutShort \in BOOLEAN
  /\ meta \in Metas
  /\ m \in [Workers -> Metas]
  /\ pc \in [Workers -> {"batch", "blocks", "meta", "done", "dead"}]
  /\ next \in [Workers -> 0 .. NBlocks]
  /\ blocks \in [Blocks -> Block]
  /\ inflight \subseteq [idx : Blocks, data : Block]
  /\ lost \subseteq Blocks
  /\ status \subseteq Workers

\* The blocks that are to be replaced when call v has written the file: all of
\* it in AES mode, otherwise as many as v has super-encrypted, the first ones.
ToReplace(v) == { i \in Blocks : SeOf(v) = {} \/ i < Cardinality(SeOf(v)) }

ReKeyed(i) == blocks[i].bytes \in {"new", "junk"}

\* No worker writes any other block, although each of them takes its bounds
\* from metadata that the others write back and a client replaces (Enclave
\* rekey.cpp 328-419).
OthersUntouched ==
  \A i \in Blocks :
    ReKeyed(i) => \E v \in 0 .. Last : i \in ToReplace(v)

\* Nothing is on its way to the tables.
Settled == ~ writing /\ inflight = {} /\ \A w \in Workers : pc[w] # "blocks"

\* Re-keying never tears a file apart, row against blocks, nor undoes a write,
\* unless a write_file ended between the read of the metadata and its
\* write-back, was itself cut short, or lost an INSERT (App rekey.cpp 72-96).
TornOnlyIfExposed ==
  Settled /\ ~ exposed /\ ~ cutShort /\ lost = {} =>
    /\ meta = WrittenMeta(Last)
    /\ \A i \in Blocks : ReKeyed(i) \/ blocks[i] = WrittenBlock(Last, i)

\* A batch that is reported done has its blocks written in the end, although
\* at that moment the writes may still be under way: only a failed UPDATE keeps
\* a block as it was, not the crash of another worker on the file nor a write
\* of the metadata that comes late (App cass.cpp 186-197).
ReportedIsWrittenEventually ==
  \A w \in Workers, i \in Blocks :
    (w \in status /\ m[w].ver = 0 /\ i \in ToReplace(0)) ~>
      (blocks[i] # WrittenBlock(0, i) \/ i \in lost)

UnderWay(i) == \E u \in inflight : u.idx = i /\ u.data.bytes = "junk"

\* What holds at the moment of the report: each block in the worker's range has
\* been replaced, or its UPDATE is under way, or has failed (App rekey.cpp
\* 92-96, zkworker.cpp 236-241).
ReportedReplaced ==
  \A w \in status : \A i \in ToReplace(m[w].ver) :
    blocks[i] # WrittenBlock(0, i) \/ i \in lost \/ UnderWay(i)

\* zkworker.cpp 240: "create status znode, so the admin knows that the task is
\* done": no write of the task is under way then.
StatusMeansStored == status # {} => inflight = {}

\* Enclave rekey.cpp 374 and 401: the blocks the enclave re-keys are the
\* super-encrypted ones.
ReKeysSuperEncrypted ==
  \A i \in Blocks : SeOf(0) # {} /\ ReKeyed(i) => i \in SeOf(0)

=============================================================================
