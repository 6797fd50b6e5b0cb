--------------------------- MODULE ReKeyFile_proofs ---------------------------
(***************************************************************************)
(* Proofs about ReKeyFile, for every number of workers, blocks and rewrites  *)
(* by the client, whatever it super-encrypts, and under all faults.          *)
(***************************************************************************)
EXTENDS ReKeyFileInv, FiniteSetTheorems, SequenceTheorems, TLAPS

-----------------------------------------------------------------------------
(* Versions of the file.                                                     *)

\* There are at most as many super-encrypted blocks as blocks.
LEMMA SuperEncrypted ==
  ASSUME NEW S \in SeChoices
  PROVE  /\ S \subseteq Blocks
         /\ Cardinality(S) \in 0 .. NBlocks
         /\ Cardinality(S) = 0 <=> S = {}
<1>1. S \subseteq Blocks
  BY FileAssumption DEF Blocks
<1>2. IsFiniteSet(Blocks) /\ Cardinality(Blocks) = NBlocks
  BY FileAssumption, FS_Interval DEF Blocks
<1>3. IsFiniteSet(S) /\ Cardinality(S) <= NBlocks
  BY <1>1, <1>2, FS_Subset
<1> QED BY <1>1, <1>3, FS_CardinalityType, FS_EmptySet

\* The range of the enclave's loop is what ToReplace says.
LEMMA VersionFacts ==
  ASSUME se \in Seq(SeChoices), NEW v \in 0 .. Last
  PROVE  /\ SeOf(v) \in SeChoices
         /\ WrittenMeta(v).ver = v
         /\ Turns(WrittenMeta(v)) \in 0 .. NBlocks
         /\ \A i \in Blocks : i < Turns(WrittenMeta(v)) <=> i \in ToReplace(v)
         /\ \A i : /\ WrittenBlock(v, i) \in Block
                   /\ WrittenBlock(v, i).ver = v
                   /\ WrittenBlock(v, i).bytes \in {"old", "single"}
<1>1. Len(se) \in Nat /\ v + 1 \in 1 .. Len(se)
  BY DEF Last
<1>2. SeOf(v) \in SeChoices
  BY <1>1 DEF SeOf
<1>3. /\ Cardinality(SeOf(v)) \in 0 .. NBlocks
      /\ Cardinality(SeOf(v)) = 0 <=> SeOf(v) = {}
  BY <1>2, SuperEncrypted
<1>4. /\ Turns(WrittenMeta(v)) \in 0 .. NBlocks
      /\ \A i \in Blocks : i < Turns(WrittenMeta(v)) <=> i \in ToReplace(v)
  BY <1>3, FileAssumption DEF Turns, WrittenMeta, ToReplace, Blocks
<1>5. WrittenMeta(v).ver = v
  BY DEF WrittenMeta
<1>6. \A i : /\ WrittenBlock(v, i) \in Block
             /\ WrittenBlock(v, i).ver = v
             /\ WrittenBlock(v, i).bytes \in {"old", "single"}
  BY DEF WrittenBlock, Block, Bytes
<1> QED BY <1>2, <1>4, <1>5, <1>6

\* A new write leaves the earlier versions as they were.
LEMMA NewVersion ==
  ASSUME TypeOK, StartWrite
  PROVE  /\ se' \in Seq(SeChoices) /\ Len(se') = Len(se) + 1
         /\ Last' = Last + 1 /\ Last \in Nat /\ Last' \in 1 .. MaxWrites
         /\ \A v \in 0 .. Last : /\ v \in 0 .. Last'
                                 /\ SeOf(v)' = SeOf(v)
                                 /\ WrittenMeta(v)' = WrittenMeta(v)
                                 /\ ToReplace(v)' = ToReplace(v)
                                 /\ \A i : WrittenBlock(v, i)' = WrittenBlock(v, i)
<1>1. PICK chosen \in SeChoices : se' = Append(se, chosen)
  BY DEF StartWrite
<1>2. /\ se' \in Seq(SeChoices) /\ Len(se') = Len(se) + 1
      /\ \A k \in 1 .. Len(se) : se'[k] = se[k]
  BY <1>1 DEF TypeOK
<1>3. Last' = Last + 1 /\ Last \in Nat /\ Last' \in 1 .. MaxWrites
  BY <1>2, FileAssumption DEF StartWrite, Last, TypeOK
<1>4. \A v \in 0 .. Last : v \in 0 .. Last' /\ SeOf(v)' = SeOf(v)
  BY <1>2, <1>3 DEF SeOf, Last, TypeOK
<1> QED BY <1>2, <1>3, <1>4 DEF WrittenMeta, WrittenBlock, ToReplace

\* As long as the client starts no write, the versions are the same.
LEMMA SameVersions ==
  ASSUME se' = se
  PROVE  /\ Last' = Last /\ Block' = Block /\ Metas' = Metas
         /\ \A v : /\ WrittenMeta(v)' = WrittenMeta(v)
                   /\ ToReplace(v)' = ToReplace(v)
                   /\ \A i : WrittenBlock(v, i)' = WrittenBlock(v, i)
BY DEF Last, Block, Metas, SeOf, WrittenMeta, ToReplace, WrittenBlock

\* What the enclave sends for block i.
Update(i) == [idx |-> i, data |-> [ver |-> 0, bytes |-> "junk"]]

\* A turn of the enclave's loop stays inside the file and issues one UPDATE.
LEMMA ReKeyBlockEffect ==
  ASSUME TypeOK, NEW w \in Workers, ReKeyBlock(w)
  PROVE  /\ next[w] \in Blocks /\ next[w] < Turns(m[w])
         /\ inflight' = inflight \cup {Update(next[w])}
         /\ next' = [next EXCEPT ![w] = @ + 1]
         /\ \E v \in 0 .. Last : m[w] = WrittenMeta(v) /\ next[w] \in ToReplace(v)
<1>1. PICK v \in 0 .. Last : m[w] = WrittenMeta(v)
  BY DEF TypeOK, Metas
<1>2. next[w] \in Blocks /\ next[w] < Turns(m[w])
  BY <1>1, VersionFacts, FileAssumption DEF ReKeyBlock, TypeOK, Blocks
<1>3. next[w] \in ToReplace(v)
  BY <1>1, <1>2, VersionFacts DEF TypeOK
<1>4. /\ inflight' = inflight \cup {Update(next[w])}
      /\ next' = [next EXCEPT ![w] = @ + 1]
  BY DEF ReKeyBlock, IndexOf, SgxAes, GetBlock, Update
<1> QED BY <1>1, <1>2, <1>3, <1>4

\* What is stored is a block, of the later of the two versions.
LEMMA StoredFacts ==
  ASSUME TypeOK, NEW u \in inflight
  PROVE  /\ u.idx \in Blocks /\ u.data \in Block /\ Stored(u) \in Block
         /\ u.data.bytes = "junk" =>
              Stored(u) = [ver |-> blocks[u.idx].ver, bytes |-> "junk"]
         /\ u.data.bytes # "junk" =>
              \/ Stored(u) = blocks[u.idx] /\ blocks[u.idx].ver > u.data.ver
              \/ Stored(u) = u.data /\ blocks[u.idx].ver <= u.data.ver
<1>1. u.idx \in Blocks /\ u.data \in Block /\ blocks[u.idx] \in Block
  BY DEF TypeOK
<1>2. CASE u.data.bytes = "junk"
  <2>1. Stored(u) = [ver |-> blocks[u.idx].ver, bytes |-> "junk"]
    BY <1>1, <1>2 DEF Stored, Block
  <2> QED BY <1>1, <1>2, <2>1 DEF Block, Bytes
<1>3. CASE u.data.bytes # "junk"
  BY <1>1, <1>3 DEF Stored, Block
<1> QED BY <1>1, <1>2, <1>3

-----------------------------------------------------------------------------
(* Type correctness.                                                         *)

\* The file is as the first write left it.
LEMMA TypeInit == Init => TypeOK
<1> SUFFICES ASSUME Init PROVE TypeOK
  OBVIOUS
<1>1. PICK chosen \in SeChoices : se = <<chosen>>
  BY DEF Init
<1>2. se \in Seq(SeChoices) /\ Len(se) = 1 /\ Last = 0
  BY <1>1 DEF Last
<1>3. WrittenMeta(0) \in Metas /\ \A i \in Blocks : WrittenBlock(0, i) \in Block
  BY <1>2, VersionFacts DEF Metas
<1>4. blocks \in [Blocks -> Block] /\ meta \in Metas /\ m \in [Workers -> Metas]
  BY <1>3 DEF Init
<1>5. Len(se) \in 1 .. MaxWrites + 1 /\ 0 \in 0 .. NBlocks
  BY <1>2, FileAssumption
<1>6. /\ writing = FALSE /\ exposed = FALSE /\ cutShort = FALSE /\ sent = 0
      /\ pc = [w \in Workers |-> "batch"] /\ next = [w \in Workers |-> 0]
      /\ inflight = {} /\ lost = {} /\ status = {}
  BY DEF Init
<1> QED BY <1>2, <1>4, <1>5, <1>6 DEF TypeOK

\* Each step keeps the types; that of next needs what Turns can be.
LEMMA TypeNext == TypeOK /\ [Next]_vars => TypeOK'
<1> SUFFICES ASSUME TypeOK, [Next]_vars PROVE TypeOK'
  OBVIOUS
<1> USE FileAssumption
<1>0. Last \in Nat /\ Last \in 0 .. MaxWrites
  BY DEF TypeOK, Last
<1>1. CASE StartWrite
  <2>1. Metas \subseteq Metas' /\ Block \subseteq Block'
    BY <1>1, <1>0, NewVersion DEF Metas, Block
  <2>2. /\ se' \in Seq(SeChoices) /\ Len(se') \in 1 .. MaxWrites + 1
        /\ sent' = 0 /\ writing' = TRUE
        /\ UNCHANGED <<tables, workerVars, histories>>
    BY <1>1, NewVersion DEF StartWrite, TypeOK, Last
  <2>3. /\ meta' \in Metas' /\ m' \in [Workers -> Metas']
        /\ blocks' \in [Blocks -> Block']
    BY <2>1, <2>2 DEF TypeOK, tables, workerVars
  <2>4. inflight' \subseteq [idx : Blocks, data : Block']
    BY <2>1, <2>2 DEF TypeOK, tables
  <2> QED BY <2>2, <2>3, <2>4 DEF TypeOK, tables, workerVars, histories
<1>2. CASE WriteBlock
  <2>1. sent \in Blocks /\ sent' \in 0 .. NBlocks /\ se' = se
    BY <1>2 DEF WriteBlock, TypeOK, Blocks
  <2>2. [idx |-> sent, data |-> WrittenBlock(Last, sent)]
          \in [idx : Blocks, data : Block]
    BY <1>0, <2>1, VersionFacts DEF TypeOK
  <2> QED BY <1>2, <2>1, <2>2, SameVersions
          DEF WriteBlock, TypeOK, workerVars, histories
<1>3. CASE WriteMeta
  <2>1. WrittenMeta(Last) \in Metas
    BY <1>0 DEF Metas
  <2> QED BY <1>3, <2>1, SameVersions DEF WriteMeta, TypeOK, workerVars
<1>4. CASE WriteCutShort
  BY <1>4, SameVersions DEF WriteCutShort, TypeOK, tables, workerVars
<1>5. ASSUME NEW w \in Workers, GetMeta(w) PROVE TypeOK'
  BY <1>5, SameVersions DEF GetMeta, MetaOfRow, Go, TypeOK, clientVars, tables,
                            histories
<1>6. ASSUME NEW w \in Workers, ReKeyBlock(w) PROVE TypeOK'
  <2>1. next[w] \in Blocks /\ Update(next[w]) \in [idx : Blocks, data : Block]
    BY <1>0, <1>6, ReKeyBlockEffect DEF Update, Block, Bytes
  <2>2. next' \in [Workers -> 0 .. NBlocks]
    BY <1>6, <2>1, ReKeyBlockEffect DEF TypeOK, Blocks
  <2>3. inflight' \subseteq [idx : Blocks, data : Block]
    BY <1>6, <2>1, ReKeyBlockEffect DEF TypeOK
  <2>4. UNCHANGED <<clientVars, pc, m, meta, blocks, lost, histories, status>>
    BY <1>6 DEF ReKeyBlock
  <2> QED BY <2>2, <2>3, <2>4, SameVersions DEF TypeOK, clientVars, histories
<1>7. ASSUME NEW w \in Workers, InsertMeta(w) PROVE TypeOK'
  BY <1>7, SameVersions DEF InsertMeta, Go, TypeOK, clientVars, histories
<1>8. ASSUME NEW w \in Workers, ReportStatus(w) PROVE TypeOK'
  BY <1>8, SameVersions DEF ReportStatus, Go, TypeOK, clientVars, tables, histories
<1>9. ASSUME NEW w \in Workers, Crash(w) PROVE TypeOK'
  BY <1>9, SameVersions DEF Crash, TypeOK, clientVars, tables, histories
<1>10. CASE UpdateLands
  <2>1. PICK u \in inflight : /\ inflight' = inflight \ {u}
                              /\ blocks' = [blocks EXCEPT ![u.idx] = Stored(u)]
    BY <1>10 DEF UpdateLands
  <2>2. blocks' \in [Blocks -> Block]
    BY <2>1, StoredFacts DEF TypeOK
  <2> QED BY <1>10, <2>1, <2>2, SameVersions
          DEF UpdateLands, TypeOK, clientVars, workerVars, histories
<1>11. CASE UpdateLost
  BY <1>11, SameVersions DEF UpdateLost, TypeOK, clientVars, workerVars, histories
<1>12. CASE UNCHANGED vars
  BY <1>12, SameVersions DEF vars, TypeOK, clientVars, tables, workerVars, histories
<1> QED
  BY <1>1, <1>2, <1>3, <1>4, <1>5, <1>6, <1>7, <1>8, <1>9, <1>10, <1>11, <1>12
  DEF Next, ClientStep, WorkerStep

-----------------------------------------------------------------------------
(* What is under way, and where it may go.                                   *)

\* Nothing is on its way to begin with.
LEMMA InflightInit == Init => InflightInv
BY DEF Init, InflightInv

\* Clients issue blocks of their rewrites, workers junk inside some range.
LEMMA InflightNext == TypeOK /\ InflightInv /\ [Next]_vars => InflightInv'
<1> SUFFICES ASSUME TypeOK, InflightInv, [Next]_vars PROVE InflightInv'
  OBVIOUS
<1>0. Last \in Nat
  BY DEF TypeOK, Last
<1>1. CASE StartWrite
  <2>1. Last' = Last + 1 /\ inflight' = inflight
    BY <1>1, NewVersion DEF StartWrite, tables
  <2>2. ASSUME NEW u \in inflight, u.data.bytes = "junk"
        PROVE  \E v \in 0 .. Last' : u.idx \in ToReplace(v)'
    <3>1. PICK v \in 0 .. Last : u.idx \in ToReplace(v)
      BY <2>2 DEF InflightInv
    <3> QED BY <1>1, <3>1, NewVersion
  <2>3. ASSUME NEW u \in inflight, u.data.bytes # "junk"
        PROVE  u.data.ver >= 1 /\ u.data = WrittenBlock(u.data.ver, u.idx)'
    <3>1. /\ u.data.ver >= 1 /\ u.data = WrittenBlock(u.data.ver, u.idx)
          /\ u.data.ver \in 0 .. Last
      BY <2>3 DEF InflightInv, TypeOK, Block
    <3> QED BY <1>1, <3>1, NewVersion
  <2> QED BY <1>0, <2>1, <2>2, <2>3 DEF InflightInv
<1> SUFFICES ASSUME ~ StartWrite PROVE InflightInv'
  BY <1>1
<1>s. se' = se /\ (writing' => writing)
  BY DEF Next, ClientStep, WriteBlock, WriteMeta, WriteCutShort, WorkerStep,
         GetMeta, ReKeyBlock, InsertMeta, ReportStatus, Crash, Go, UpdateLands,
         UpdateLost, vars, clientVars
<1> SUFFICES ASSUME NEW u \in inflight', u \notin inflight
             PROVE  IF u.data.bytes = "junk"
                    THEN \E v \in 0 .. Last : u.idx \in ToReplace(v)
                    ELSE /\ u.data.ver >= 1
                         /\ u.data = WrittenBlock(u.data.ver, u.idx)
  BY <1>s, SameVersions DEF InflightInv
<1>2. CASE WriteBlock
  <2>1. u = [idx |-> sent, data |-> WrittenBlock(Last, sent)] /\ writing
    BY <1>2 DEF WriteBlock
  <2>2. u.idx = sent /\ u.data = WrittenBlock(Last, sent) /\ Last >= 1
    BY <2>1 DEF InflightInv
  <2>3. u.data.ver = Last /\ u.data.bytes \in {"old", "single"}
    BY <1>0, <2>2, VersionFacts DEF TypeOK
  <2> QED BY <2>2, <2>3
<1>3. ASSUME NEW w \in Workers, ReKeyBlock(w)
      PROVE  u.data.bytes = "junk" /\ \E v \in 0 .. Last : u.idx \in ToReplace(v)
  <2>1. u = Update(next[w])
    BY <1>3, ReKeyBlockEffect
  <2> QED BY <1>3, <2>1, ReKeyBlockEffect DEF Update
<1>4. WriteBlock \/ \E w \in Workers : ReKeyBlock(w)
  BY DEF Next, ClientStep, StartWrite, WriteMeta, WriteCutShort, WorkerStep,
         GetMeta, InsertMeta, ReportStatus, Crash, Go, UpdateLands, UpdateLost,
         vars, tables
<1> QED BY <1>2, <1>3, <1>4

\* A block is junk only after an UPDATE of it.
LEMMA UntouchedNext ==
  TypeOK /\ InflightInv /\ OthersUntouched /\ [Next]_vars => OthersUntouched'
<1> SUFFICES ASSUME TypeOK, InflightInv, OthersUntouched, [Next]_vars,
                    NEW i \in Blocks, ReKeyed(i)'
             PROVE  \E v \in 0 .. Last' : i \in ToReplace(v)'
  BY DEF OthersUntouched
<1>1. \E v \in 0 .. Last : i \in ToReplace(v)
  <2>1. CASE UpdateLands
    <3>1. PICK u \in inflight : blocks' = [blocks EXCEPT ![u.idx] = Stored(u)]
      BY <2>1 DEF UpdateLands
    <3>2. CASE u.idx = i
      <4>1. blocks'[i] = Stored(u)
        BY <3>1, <3>2 DEF TypeOK
      <4>2. CASE u.data.bytes = "junk"
        BY <3>2, <4>2 DEF InflightInv
      <4>3. CASE u.data.bytes # "junk"
        <5>1. u.data.bytes \in {"old", "single"}
          <6>1. /\ u.data = WrittenBlock(u.data.ver, u.idx)
                /\ u.data.ver \in 0 .. Last
            BY <4>3 DEF InflightInv, TypeOK, Block
          <6> QED BY <6>1, VersionFacts DEF TypeOK
        <5>2. ReKeyed(i)
          BY <3>2, <4>1, <4>3, <5>1, StoredFacts DEF ReKeyed
        <5> QED BY <5>2 DEF OthersUntouched
      <4> QED BY <4>2, <4>3
    <3>3. CASE u.idx # i
      BY <3>1, <3>3 DEF OthersUntouched, ReKeyed, TypeOK
    <3> QED BY <3>2, <3>3
  <2>2. CASE ~ UpdateLands
    <3>1. blocks' = blocks
      BY <2>2 DEF Next, ClientStep, StartWrite, WriteBlock, WriteMeta,
         WriteCutShort, WorkerStep, GetMeta, ReKeyBlock, InsertMeta, ReportStatus,
         Crash, Go, UpdateLost, vars, tables
    <3> QED BY <3>1 DEF OthersUntouched, ReKeyed
  <2> QED BY <2>1, <2>2
<1>2. CASE StartWrite
  BY <1>1, <1>2, NewVersion
<1>3. CASE ~ StartWrite
  <2>1. se' = se
    BY <1>3 DEF Next, ClientStep, WriteBlock, WriteMeta, WriteCutShort, WorkerStep,
       GetMeta, ReKeyBlock, InsertMeta, ReportStatus, Crash, Go, UpdateLands,
       UpdateLost, vars, clientVars
  <2> QED BY <1>1, <2>1, SameVersions
<1> QED BY <1>2, <1>3

-----------------------------------------------------------------------------
(* The progress of workers.                                                  *)

\* A block that a worker is through with never looks as at first again, or is
\* lost.
LEMMA BehindStays ==
  ASSUME TypeOK, InflightInv, [Next]_vars, NEW i \in Blocks, Behind(i)
  PROVE  Behind(i)'
<1>0. 0 \in 0 .. Last
  BY DEF TypeOK, Last
<1>1. WrittenBlock(0, i)' = WrittenBlock(0, i)
  <2>1. CASE StartWrite
    BY <1>0, <2>1, NewVersion
  <2>2. CASE ~ StartWrite
    <3>1. se' = se
      BY <2>2 DEF Next, ClientStep, WriteBlock, WriteMeta, WriteCutShort,
         WorkerStep, GetMeta, ReKeyBlock, InsertMeta, ReportStatus, Crash, Go,
         UpdateLands, UpdateLost, vars, clientVars
    <3> QED BY <3>1, SameVersions
  <2> QED BY <2>1, <2>2
<1>2. CASE UpdateLands
  <2>1. PICK u \in inflight : /\ inflight' = inflight \ {u}
                              /\ blocks' = [blocks EXCEPT ![u.idx] = Stored(u)]
                              /\ lost' = lost
    BY <1>2 DEF UpdateLands
  <2>2. u.idx # i => blocks'[i] = blocks[i]
    BY <2>1 DEF TypeOK
  <2>3. u.idx = i /\ u.data.bytes = "junk" => blocks'[i] # WrittenBlock(0, i)
    <3>1. u.idx = i /\ u.data.bytes = "junk" => blocks'[i].bytes = "junk"
      BY <2>1, StoredFacts DEF TypeOK
    <3> QED BY <3>1, <1>0, VersionFacts, SMTT(30) DEF TypeOK
  <2>4. u.idx = i /\ u.data.bytes # "junk" =>
          blocks'[i] = blocks[i] \/ blocks'[i] # WrittenBlock(0, i)
    <3> SUFFICES ASSUME u.idx = i, u.data.bytes # "junk"
                 PROVE  blocks'[i] = blocks[i] \/ blocks'[i] # WrittenBlock(0, i)
      OBVIOUS
    <3>1. u.data.ver >= 1
      BY DEF InflightInv
    <3>2. blocks'[i] = blocks[i] \/ blocks'[i] = u.data
      BY <2>1, StoredFacts DEF TypeOK
    <3>3. WrittenBlock(0, i).ver = 0
      BY <1>0, VersionFacts DEF TypeOK
    <3> QED BY <3>1, <3>2, <3>3
  <2>5. UnderWay(i) => UnderWay(i)' \/ (u.idx = i /\ u.data.bytes = "junk")
    BY <2>1 DEF UnderWay
  <2> QED BY <1>1, <2>1, <2>2, <2>3, <2>4, <2>5 DEF Behind
<1>3. CASE UpdateLost
  BY <1>1, <1>3 DEF UpdateLost, Behind, UnderWay, workerVars
<1>4. CASE ~ UpdateLands /\ ~ UpdateLost
  <2>1. blocks' = blocks /\ lost' = lost /\ inflight \subseteq inflight'
    BY <1>4 DEF Next, ClientStep, StartWrite, WriteBlock, WriteMeta, WriteCutShort,
       WorkerStep, GetMeta, ReKeyBlock, InsertMeta, ReportStatus, Crash, Go, vars,
       tables
  <2> QED BY <1>1, <2>1 DEF Behind, UnderWay
<1> QED BY <1>2, <1>3, <1>4

\* No worker has come anywhere yet.
LEMMA ProgressInit == Init => ProgressInv
<1> SUFFICES ASSUME Init PROVE ProgressInv
  OBVIOUS
<1>1. Last = 0 /\ se \in Seq(SeChoices)
  BY TypeInit DEF Init, Last, TypeOK
<1>2. Turns(WrittenMeta(0)) \in 0 .. NBlocks
  BY <1>1, VersionFacts
<1> QED BY <1>2, FileAssumption DEF Init, ProgressInv

\* All blocks below a worker's counter are behind it.
LEMMA ProgressNext ==
  TypeOK /\ InflightInv /\ ProgressInv /\ [Next]_vars => ProgressInv'
<1> SUFFICES ASSUME TypeOK, InflightInv, ProgressInv, [Next]_vars
             PROVE  ProgressInv'
  OBVIOUS
<1>t. \A w \in Workers : /\ Turns(m[w]) \in 0 .. NBlocks /\ next[w] \in 0 .. NBlocks
                         /\ \A i \in 0 .. next[w] - 1 : i \in Blocks
  <2>1. \A mm \in Metas : Turns(mm) \in 0 .. NBlocks
    BY VersionFacts DEF TypeOK, Metas
  <2> QED BY <2>1, FileAssumption DEF TypeOK, Blocks
<1>b. \A w \in Workers : \A i \in 0 .. next[w] - 1 : Behind(i)'
  BY <1>t, BehindStays DEF ProgressInv
<1>1. ASSUME NEW w \in Workers, GetMeta(w) PROVE ProgressInv'
  <2>1. /\ pc[w] = "batch" /\ pc' = [pc EXCEPT ![w] = "blocks"]
        /\ m' = [m EXCEPT ![w] = meta] /\ next' = [next EXCEPT ![w] = 0]
        /\ status' = status
    BY <1>1 DEF GetMeta, Go, MetaOfRow
  <2>2. Turns(meta) \in 0 .. NBlocks
    BY VersionFacts DEF TypeOK, Metas
  <2> QED BY <2>1, <2>2, <1>b, <1>t, FileAssumption DEF ProgressInv, TypeOK
<1>2. ASSUME NEW w \in Workers, ReKeyBlock(w) PROVE ProgressInv'
  <2>1. PICK i \in Blocks : i = next[w]
    BY <1>2, ReKeyBlockEffect
  <2>2. /\ pc[w] = "blocks" /\ i < Turns(m[w])
        /\ next' = [next EXCEPT ![w] = i + 1]
        /\ UNCHANGED <<pc, m, status>>
    BY <1>2, <2>1, ReKeyBlockEffect DEF ReKeyBlock
  <2>3. Behind(i)'
    <3>1. Update(i) \in inflight'
      BY <1>2, <2>1, ReKeyBlockEffect
    <3>2. Update(i).idx = i /\ Update(i).data.bytes = "junk"
      BY DEF Update
    <3> QED BY <3>1, <3>2 DEF Behind, UnderWay
  <2>4. i + 1 <= Turns(m[w]) /\ i \in Nat
    BY <2>2, <1>t DEF Blocks
  <2>5. \A j \in 0 .. (i + 1) - 1 : Behind(j)'
    <3> SUFFICES ASSUME NEW j \in 0 .. (i + 1) - 1, j # i PROVE Behind(j)'
      BY <2>3
    <3>1. j \in 0 .. next[w] - 1
      BY <2>1, <2>4
    <3> QED BY <3>1, <1>b
  <2> QED BY <2>1, <2>2, <2>4, <2>5, <1>b, <1>t DEF ProgressInv, TypeOK
<1>3. ASSUME NEW w \in Workers, InsertMeta(w) PROVE ProgressInv'
  <2>1. /\ pc[w] = "blocks" /\ pc' = [pc EXCEPT ![w] = "meta"]
        /\ next[w] >= Turns(m[w])
        /\ UNCHANGED <<m, next, status>>
    BY <1>3 DEF InsertMeta, Go
  <2>2. next[w] = Turns(m[w])
    BY <2>1, <1>t DEF ProgressInv
  <2> QED BY <2>1, <2>2, <1>b DEF ProgressInv, TypeOK
<1>4. ASSUME NEW w \in Workers, ReportStatus(w) PROVE ProgressInv'
  BY <1>4, <1>b DEF ReportStatus, Go, ProgressInv, TypeOK
<1>5. ASSUME NEW w \in Workers, Crash(w) PROVE ProgressInv'
  BY <1>5, <1>b DEF Crash, ProgressInv, TypeOK
<1>6. CASE ClientStep \/ UpdateLands \/ UpdateLost \/ UNCHANGED vars
  <2>1. UNCHANGED workerVars
    BY <1>6 DEF ClientStep, StartWrite, WriteBlock, WriteMeta, WriteCutShort,
       UpdateLands, UpdateLost, vars
  <2> QED BY <2>1, <1>b DEF ProgressInv, workerVars
<1> QED BY <1>1, <1>2, <1>3, <1>4, <1>5, <1>6 DEF Next, WorkerStep

-----------------------------------------------------------------------------
(* Row and blocks of the last write.                                         *)

\* Row and blocks are of the first write.
LEMMA WholeInit == Init => WholeInv
<1> SUFFICES ASSUME Init PROVE WholeInv
  OBVIOUS
<1>1. Last = 0 /\ se \in Seq(SeChoices)
  BY TypeInit DEF Init, Last, TypeOK
<1>2. \A i : WrittenBlock(0, i).ver = 0
  BY <1>1, VersionFacts
<1> QED BY <1>1, <1>2 DEF Init, WholeInv, Arriving

\* Without accidents the last write stays what it is, wherever its blocks are.
LEMMA ArrivingStays ==
  ASSUME TypeOK, InflightInv, [Next]_vars, ~ StartWrite, NEW i \in Blocks,
         Arriving(i), lost' = {}
  PROVE  Arriving(i)'
<1>0. Last \in Nat /\ Last \in 0 .. Last
  BY DEF TypeOK, Last
<1>1. se' = se
  BY DEF Next, ClientStep, WriteBlock, WriteMeta, WriteCutShort, WorkerStep, GetMeta,
     ReKeyBlock, InsertMeta, ReportStatus, Crash, Go, UpdateLands, UpdateLost, vars,
     clientVars
<1>2. Last' = Last /\ WrittenBlock(Last, i)' = WrittenBlock(Last, i)
  BY <1>1 DEF Last, WrittenBlock, SeOf
<1> DEFINE wb == WrittenBlock(Last, i)
<1>3. wb.ver = Last /\ wb.bytes \in {"old", "single"}
  BY <1>0, VersionFacts DEF TypeOK
<1>4. CASE UpdateLands
  <2>1. PICK u \in inflight : /\ inflight' = inflight \ {u}
                              /\ blocks' = [blocks EXCEPT ![u.idx] = Stored(u)]
    BY <1>4 DEF UpdateLands
  <2>2. CASE u.idx # i
    <3>1. blocks'[i] = blocks[i]
      BY <2>1, <2>2 DEF TypeOK
    <3>2. u # [idx |-> i, data |-> wb]
      BY <2>2
    <3> QED BY <1>2, <2>1, <3>1, <3>2 DEF Arriving, ReKeyed
  <2>3. CASE u.idx = i /\ u.data.bytes = "junk"
    <3>1. blocks'[i] = [ver |-> blocks[i].ver, bytes |-> "junk"]
      BY <2>1, <2>3, StoredFacts DEF TypeOK
    <3>2. u # [idx |-> i, data |-> wb]
      BY <1>3, <2>3
    <3> QED BY <1>2, <2>1, <3>1, <3>2 DEF Arriving, ReKeyed
  <2>4. CASE u.idx = i /\ u.data.bytes # "junk"
    <3>1. /\ u.data = WrittenBlock(u.data.ver, i) /\ u.data.ver \in 0 .. Last
          /\ blocks[i].ver \in 0 .. Last
      BY <2>4 DEF InflightInv, TypeOK, Block
    <3>2. \/ blocks'[i] = blocks[i] /\ blocks[i].ver > u.data.ver
          \/ blocks'[i] = u.data /\ blocks[i].ver <= u.data.ver
      BY <2>1, <2>4, StoredFacts DEF TypeOK
    <3>3. CASE u.data.ver = Last
      <4>1. u.data = wb /\ blocks'[i] = wb
        BY <3>1, <3>2, <3>3
      <4> QED BY <1>2, <1>3, <4>1 DEF Arriving
    <3>4. CASE u.data.ver # Last
      <4>1. u # [idx |-> i, data |-> wb]
        BY <1>3, <3>4
      <4>2. blocks[i].ver = Last => blocks'[i] = blocks[i]
        BY <3>1, <3>2, <3>4
      <4> QED BY <1>2, <2>1, <4>1, <4>2 DEF Arriving, ReKeyed
    <3> QED BY <3>3, <3>4
  <2> QED BY <2>2, <2>3, <2>4
<1>5. CASE UpdateLost
  BY <1>5 DEF UpdateLost
<1>6. CASE ~ UpdateLands /\ ~ UpdateLost
  <2>1. blocks' = blocks /\ inflight \subseteq inflight'
    BY <1>6 DEF Next, ClientStep, StartWrite, WriteBlock, WriteMeta, WriteCutShort,
       WorkerStep, GetMeta, ReKeyBlock, InsertMeta, ReportStatus, Crash, Go, vars,
       tables
  <2> QED BY <1>2, <2>1 DEF Arriving, ReKeyed
<1> QED BY <1>4, <1>5, <1>6

\* Row, copies and blocks stay together while no accident happens.
LEMMA WholeNext ==
  TypeOK /\ InflightInv /\ WholeInv /\ [Next]_vars => WholeInv'
<1> SUFFICES ASSUME TypeOK, InflightInv, WholeInv, [Next]_vars PROVE WholeInv'
  OBVIOUS
<1>0. Last \in Nat /\ Last \in 0 .. Last
  BY DEF TypeOK, Last
<1>1. CASE StartWrite
  <2>1. /\ ~ writing /\ writing' = TRUE /\ sent' = 0
        /\ UNCHANGED <<meta, pc, m, exposed, cutShort>>
    BY <1>1 DEF StartWrite, tables, workerVars, histories
  <2>2. Last' = Last + 1 /\ SeOf(Last) = se'[Last + 1]
    <3>1. \A v \in 0 .. Last : SeOf(v) = se'[v + 1]
      BY <1>1, NewVersion DEF SeOf
    <3> QED BY <1>0, <1>1, <3>1, NewVersion
  <2>3. ~ exposed' /\ ~ cutShort' =>
          meta' = WrittenMeta(IF writing THEN Last - 1 ELSE Last)'
    <3>1. ~ exposed /\ ~ cutShort => meta = WrittenMeta(Last)
      BY <2>1 DEF WholeInv
    <3>2. Last' - 1 = Last
      BY <1>0, <2>2
    <3> QED BY <2>1, <2>2, <3>1, <3>2 DEF WrittenMeta, SeOf
  <2>4. \A i \in Blocks : ~ (i < sent')
    BY <2>1 DEF Blocks
  <2> QED BY <2>1, <2>3, <2>4 DEF WholeInv
<1> SUFFICES ASSUME ~ StartWrite PROVE WholeInv'
  BY <1>1
<1>s. se' = se /\ lost \subseteq lost'
  BY DEF Next, ClientStep, WriteBlock, WriteMeta, WriteCutShort, WorkerStep, GetMeta,
     ReKeyBlock, InsertMeta, ReportStatus, Crash, Go, UpdateLands, UpdateLost, vars,
     clientVars, tables
<1>l. /\ Last' = Last /\ \A v : WrittenMeta(v)' = WrittenMeta(v)
  BY <1>s, SameVersions
<1>a. \A i \in Blocks : Arriving(i) /\ lost' = {} => Arriving(i)'
  BY ArrivingStays
<1>2. CASE WriteBlock
  <2>1. /\ writing /\ writing' = writing /\ sent' = sent + 1 /\ sent \in Nat
        /\ inflight' = inflight \cup {[idx |-> sent, data |-> WrittenBlock(Last, sent)]}
        /\ UNCHANGED <<meta, pc, m, exposed, cutShort>>
    BY <1>2, FileAssumption DEF WriteBlock, TypeOK, workerVars, histories
  <2>2. ASSUME NEW i \in Blocks, i = sent PROVE Arriving(i)'
    <3>1. [idx |-> i, data |-> WrittenBlock(Last, i)] \in inflight'
      BY <2>1, <2>2
    <3>2. WrittenBlock(Last, i)' = WrittenBlock(Last, i)
      BY <1>s DEF WrittenBlock, SeOf, Last
    <3> QED BY <3>1, <3>2 DEF Arriving
  <2>3. ~ cutShort' /\ lost' = {} => \A i \in Blocks : i < sent' => Arriving(i)'
    BY <2>1, <2>2, <1>a, <1>s DEF WholeInv, Blocks
  <2> QED BY <2>1, <2>3, <1>l DEF WholeInv
<1>3. CASE WriteMeta
  <2>1. /\ writing /\ writing' = FALSE /\ sent = NBlocks
        /\ meta' = WrittenMeta(Last)
        /\ exposed' = (exposed \/ \E w \in Workers : pc[w] = "blocks")
        /\ UNCHANGED <<pc, m, cutShort>>
    BY <1>3 DEF WriteMeta, workerVars
  <2>2. ~ exposed' => \A w \in Workers : pc'[w] # "blocks"
    BY <2>1
  <2>3. ~ cutShort' /\ lost' = {} => \A i \in Blocks : Arriving(i)'
    BY <2>1, <1>a, <1>s, FileAssumption DEF WholeInv, Blocks
  <2> QED BY <2>1, <2>2, <2>3, <1>l DEF WholeInv
<1>4. CASE WriteCutShort
  BY <1>4 DEF WriteCutShort, WholeInv, tables, workerVars
<1>5. ASSUME NEW w \in Workers, GetMeta(w) \/ InsertMeta(w) PROVE WholeInv'
  <2>1. UNCHANGED <<writing, sent, exposed, cutShort>>
    BY <1>5 DEF GetMeta, InsertMeta, Go, clientVars, histories
  <2>2. ~ exposed => meta' = meta
    BY <1>5 DEF GetMeta, InsertMeta, Go, tables, WholeInv
  <2>3. ~ exposed => \A v \in Workers : pc'[v] = "blocks" => m'[v] = meta
    BY <1>5 DEF GetMeta, InsertMeta, MetaOfRow, Go, WholeInv, TypeOK
  <2> QED BY <2>1, <2>2, <2>3, <1>a, <1>l, <1>s DEF WholeInv
<1>6. ASSUME NEW w \in Workers, ReKeyBlock(w) \/ ReportStatus(w) \/ Crash(w)
      PROVE  WholeInv'
  <2>1. /\ UNCHANGED <<writing, sent, exposed, cutShort, meta, m>>
        /\ \A v \in Workers : pc'[v] = "blocks" => pc[v] = "blocks"
    BY <1>6 DEF ReKeyBlock, ReportStatus, Crash, Go, clientVars, histories, tables,
                TypeOK
  <2> QED BY <2>1, <1>a, <1>l, <1>s DEF WholeInv
<1>7. CASE UpdateLands \/ UpdateLost \/ UNCHANGED vars
  <2>1. UNCHANGED <<writing, sent, exposed, cutShort, meta, m, pc>>
    BY <1>7 DEF UpdateLands, UpdateLost, vars, clientVars, histories, tables,
                workerVars
  <2> QED BY <2>1, <1>a, <1>l, <1>s DEF WholeInv
<1> QED BY <1>2, <1>3, <1>4, <1>5, <1>6, <1>7 DEF Next, ClientStep, WorkerStep

-----------------------------------------------------------------------------
(* The theorems.                                                             *)

\* Every variable keeps its type; a row and a worker's copy of it are always
\* something that write_file has stored.
THEOREM TypeCorrect == Spec => []TypeOK
BY TypeInit, TypeNext, PTL DEF Spec

\* Nothing is re-keyed yet.
LEMMA UntouchedInit == Init => OthersUntouched
<1> SUFFICES ASSUME Init, NEW i \in Blocks, ReKeyed(i) PROVE FALSE
  BY DEF OthersUntouched
<1>1. Last = 0 /\ se \in Seq(SeChoices)
  BY TypeInit DEF Init, Last, TypeOK
<1>2. blocks[i].bytes \in {"old", "single"}
  BY <1>1, VersionFacts DEF Init
<1> QED BY <1>2 DEF ReKeyed

\* The inductive invariant: which write calls the row, the blocks, the copies of
\* the workers and the writes under way come from.
THEOREM Inductive == Spec => []IInv
<1>1. Init => IInv
  BY TypeInit, InflightInit, UntouchedInit, ProgressInit, WholeInit DEF IInv
<1>2. IInv /\ [Next]_vars => IInv'
  BY TypeNext, InflightNext, UntouchedNext, ProgressNext, WholeNext DEF IInv
<1> QED BY <1>1, <1>2, PTL DEF Spec

\* Workers replace no block outside the range some version of the file gives
\* the enclave.
THEOREM Untouched == Spec => []OthersUntouched
<1>1. IInv => OthersUntouched
  BY DEF IInv
<1> QED BY <1>1, Inductive, PTL

\* A file is only torn, or a write undone, after one of the named accidents.
THEOREM TornCorrect == Spec => []TornOnlyIfExposed
<1>1. IInv => TornOnlyIfExposed
  BY DEF IInv, WholeInv, Arriving, TornOnlyIfExposed, Settled
<1> QED BY <1>1, Inductive, PTL

\* Behind a status znode, every block of the worker's range has been replaced,
\* has its UPDATE under way, or has lost it.
THEOREM ReportCorrect == Spec => []ReportedReplaced
<1>1. IInv => ReportedReplaced
  <2> SUFFICES ASSUME IInv, NEW w \in status, NEW i \in ToReplace(m[w].ver)
               PROVE  Behind(i)
    BY DEF ReportedReplaced, Behind
  <2>1. PICK v \in 0 .. Last : m[w] = WrittenMeta(v)
    BY DEF IInv, TypeOK, Metas
  <2>2. m[w].ver = v
    BY <2>1, VersionFacts DEF IInv, TypeOK
  <2>3. i \in Blocks /\ i < Turns(m[w])
    BY <2>1, <2>2, VersionFacts DEF IInv, TypeOK, ToReplace
  <2>4. w \in Workers /\ next[w] = Turns(m[w]) /\ next[w] \in 0 .. NBlocks
    BY DEF IInv, ProgressInv, TypeOK
  <2>5. i \in 0 .. next[w] - 1
    BY <2>3, <2>4, FileAssumption DEF Blocks
  <2> QED BY <2>4, <2>5 DEF IInv, ProgressInv
<1> QED BY <1>1, Inductive, PTL

=============================================================================
