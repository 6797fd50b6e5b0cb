# TLA+ models of aont-sgx

aont-sgx stores files in Cassandra under an all-or-nothing transform whose few
"super-encrypted" blocks carry a second layer under a group key.  When the group
key changes, a ZooKeeper-coordinated set of workers, each with an SGX enclave,
re-keys the stored files.  This directory models the client library, the
metadata they share, the distributed re-key job, several such jobs in a row and
the re-key of one file, checks them with TLC and proves their safety with TLAPS.

## Inventory

| Component | Source | State | Operations |
|---|---|---|---|
| Re-key admin | `zookeeper/admin.cpp` | `status_done`, the loop, `shutdownThisThing` | `create_batches`, `create_znode`, `watch_tasks_status`, `tasks_watch_completion`, the session watcher |
| Re-key worker | `server/App/TrustedLibrary/zkworker.cpp` | `on_going_tasks`, the children list in hand | wake-up, `watch_znode`, `tasks_completion`, `process_task`, `re_key_batch`, `delete_assignment` |
| Partition table | `zookeeper/cass.{h,cpp}`, `get_partition` of the server's `cass.cpp` | table `part` | `get_all_files`, `ClearPartitions`, `SavePartition`, `Bye`, `get_partition` |
| Re-key of one file | `server/App/TrustedLibrary/rekey.cpp`, `cass.cpp`; `server/Enclave/TrustedLibrary/rekey.cpp` | tables `meta` and `blocks` | `re_key`, `ecall_re_key`, `get_meta`, `insert_meta`, `get_block`, `update_block` |
| Client library | `client/client.cpp`, `cass.cpp`, `storage.cpp` | tables `meta` and `blocks` | `write_file`, `read_file`, the AES variants |
| Client crypto | `client/crypto.cpp` | none | AES-CTR, SHA-256, XOR, key generator |
| Metadata streams | `client/serialization.cpp` | none | `pack32`, `unpack32`, serialise and deserialise |
| ZooKeeper, Master | external | `/tasks`, `/workers`, `/assign/*`, `/status` | create, delete, getChildren; task assignment |
| Round script | `zookeeper/test.sh` | the round, the machines it uses | `reset_zk`, `reset_workers`, `machine_workers`, `start_admin` |

`PROJECT.json` also names what is not modelled at all: the command line of the
client, the mock worker (which lacks a brace and does not compile), the sample
start-up code, the enclave glue, the unused REST and Redis clients, the file
store service and stub, build files and plots.

How they interact:

- The admin cuts table `meta` into batches, writes them to table `part` with
  INSERTs that nobody awaits, and queues one create of `/tasks/task-i` per
  batch.  Before that it empties `part` with a TRUNCATE whose error it ignores.
  `Bye` frees the Cassandra session, which waits for the INSERTs.  The ZooKeeper
  requests leave the process only afterwards, because the client is
  single-threaded and `zookeeper_process` is first called in the loop below.
- The Master moves a task into the mailbox `/assign/worker-w` of some child of
  `/workers`.
- A worker polls its mailbox.  Inside the callback that delivers the children
  list it re-keys each new task's batch, file by file, and queues the create of
  `/status/task-i`.
- The admin polls `/status` until it has collected as many names as there are
  batches, then prints the time and leaves.
- Clients write and read the tables `meta` and `blocks`; the workers update the
  same rows.
- `test.sh` runs one job after another: it kills the Master, clears the znodes,
  starts a Master, restarts the workers of the machines the round uses, and runs
  the admin until it exits.  Machines it does not use keep their worker.

What is hard: asynchronous calls whose results nobody reads (block INSERTs and
UPDATEs, partition INSERTs, znode creates); children lists of different ages;
calls of Cassandra whose failure looks like success (the TRUNCATE, and SELECTs
that leave an empty list); re-keying inside a callback while answers pile up;
persistent znodes that outlive the worker that made them; lost requests that are
never repeated; rows, znodes and processes of an earlier round; arrays sized by
one count and filled by another; nothing that locks a file.  The hazards are
listed one by one in `PROJECT.json`, at their lines.

What makes the parts correct:

- job: a task becomes visible only with its complete partition; a status znode
  means a re-keyed batch; the admin's exit means a re-keyed store; no file is
  re-keyed twice, or, when rows of an earlier round are left, more often than
  the table has it; nothing happens after the exit; without faults the exit
  comes;
- rounds: a status stands for a batch re-keyed in its own round, a round that
  ends by itself is complete and leaves idle workers, and no worker is given a
  batch that it skips because of an earlier round;
- file: the right blocks, and only those, are re-keyed and written before the
  batch is reported, and row and blocks stay together;
- client: a read of a settled file returns what was written; a mixture of two
  versions never passes for a file;
- metadata: what a reader decrypts is what the writer chose, however often
  workers have written the row back; no array is left; the choice ends.

## Modules

| Module | What it is |
|---|---|
| `ReKeyCluster` | admin, workers, ZooKeeper sessions, znodes, partition table, Master |
| `ReKeyJob` | the abstract job: each file once, then the report |
| `XorCrypto` | byte strings as sets of XORed terms |
| `AontClient` | `write_file` and `read_file` over Cassandra |
| `ReKeyFile` | several workers re-keying one file that a client writes again |
| `ReKeyJobs` | the abstract sequence of jobs |
| `ReKeyRounds` | several jobs in a row, with what one leaves to the next |
| `Metadata` | the row of table `meta` and the metadata stream, with widths, signs and array sizes |
| `ReKeyClusterInv`, `AontClientInv`, `ReKeyFileInv`, `ReKeyRoundsInv`, `MetadataInv` | the inductive invariants |
| `ReKeyCluster_proofs`, `ReKeyClusterFaults_proofs`, `ReKeyRounds_proofs`, `ReKeyFile_proofs`, `XorCrypto_proofs`, `AontClient_proofs`, `Metadata_proofs` | the theorems and their lemmas |
| `MCReKeyCluster`, `MCAontClient`, `MCReKeyFile`, `MCReKeyRounds` | symmetry, sample files, block choices and rounds for TLC |

### ReKeyCluster

`queue[p]` and `resp[p]` are the two directions of process p's ZooKeeper
session: requests not served, answers not delivered.  `ServeWrite` and
`ServeList` are the server's FIFO; `ConnectionLoss` drops both directions, as
the client library does when it reconnects.  The admin's `CreateBatches`,
`SavePartition` and `Bye` are the parts of `create_batches` between its calls of
Cassandra, of which the first two may fail unnoticed: `get_all_files` then finds
no file (`found`), and `ClearPartitions` leaves the rows of the previous round.
`WatchTasksStatus`, `StatusCompletion` and `Finish` are a turn of the loop, the
completion and the turn that breaks.  `RowLands` and `RowLost` execute the
INSERTs nobody awaits.

`process_task` runs inside a callback, so its steps (`SkipTask`, `ReadPartition`
or `QueryFails`, `ReKeyFile` for each file, `FinishTask`) are separate actions
that exclude the worker's own polling (`Idle`) but nothing else: the server, the
other workers and the admin go on meanwhile. `FinishTask` includes the call of
`delete_assignment`, whose relative path the client library refuses (`Adelete`),
so that it queues nothing.

Abstractions.  A task, a batch and its znodes share the number i.  A file is its
row number in `meta`.  The order in which a worker goes through a children list
or a partition is left open.  A create of an existing znode changes nothing, as
in ZooKeeper.  The first INSERT of a row and a later one of the same row are one
row.  One round of the job is modelled (`ReKeyRounds` has several), starting
from the state `test.sh` makes: empty znodes, but rows in `part` left by the
previous round (`PrevFiles`).  A worker that dies stays dead; `test.sh` starts a
new process with a new random `WORKER_ID`, which is another member of `Workers`
that is still `"off"`.

### AontClient and XorCrypto

A byte string is the set of the terms it is the XOR of.  XOR is then symmetric
difference, AES-CTR the XOR with one key-stream term, a hash a fresh term, and
the XOR of many strings (`XorAll`) the terms that an odd number of them have.
The cancellations on which the two tails rest are computed and not assumed.
`keys` are arbitrary for every write because `gen_random_bytestream` returns
whatever `malloc` gave.  Block INSERTs stay in `inflight` until `InsertLands`;
of two to a row the later timestamp wins.

`write_file` and `read_file` are two processes, so that a reader meets a write
at any point of it.  Every call draws its own keys and its own
`super_encrypted_blocks_index`.  `WriteCutShort` ends a write without its
metadata: the process dies, or `insert_meta` fails, whose error code is read and
not used.

Reading a block that is not there leaves a pointer uninitialised, and wrong
super-encrypted indexes point outside the reader's cache.  Both outcomes are the
one value `Undefined`, about which nothing is claimed.  A SELECT that fails is
to the reader like a row that is not there, of a block (`BlockUnread`) as of the
metadata (`MetaUnread`); a read that was spared this and met no write is
`clean`, and `QuietReadReturnsContent` is about those.  In AES mode the reader's
string stays empty (`DecodeAes`), although `main.cpp` 73-81 expects the content;
the properties are about the other mode.  A write with more super-encrypted
blocks than blocks never returns and is in `Metadata`.

### ReKeyFile

A block is known by the `write_file` call it comes from and by how its bytes
came about: `"single"`, `"old"`, `"new"` or `"junk"`.  The enclave's buffers are
what `malloc` returned because the cipher calls are commented out, and
`get_block` copies nothing into its output; the model calls both `"junk"`.  The
counter of the enclave's loop is used as the block index, as in the code.
`insert_meta` is awaited, but whether it fails is not looked at; `insert_block`
and `update_block` are not even awaited; `lost` remembers which of these two
failed.

`StartWrite`, `WriteBlock`, `WriteMeta` and `WriteCutShort` are a client that
writes the file again.  A worker's `GetMeta` and `InsertMeta` are the two ends
of `re_key`; a client that ends its write between them has its row replaced by
the one the worker had read (`exposed`).  Of two INSERTs of the client the later
timestamp wins (`Stored`), also when an UPDATE has replaced the first meanwhile:
an UPDATE leaves in place which write the block is of.  The UPDATE of a worker
is taken as later or earlier than either, since the clocks of different machines
decide.

### ReKeyRounds

`script` is where `test.sh` is; `ClearOrder` is the order of its `rmr` commands.
A request is served when it is issued, and a batch is one step to begin and one
to finish: `ReKeyCluster` has what lies between.  Kept are the things that
outlive a round: processes with their `on_going_tasks`, the `WORKER_ID` they
chose, persistent znodes, and parents that do not exist between the `rmr` and
the Master's bootstrap, which makes them one by one; a create without its parent
fails and nobody looks.  So a worker may announce itself although its mailbox
was refused. `AdminReturns` is the same for an admin that has finished and for
one whose session has expired.  One worker per machine is modelled; the script
starts two. As it stands in the repository its loops run one round, with the
further values of `w` and `super` commented out; the outer loop goes back from
five machines to one, and running the script again does the same, which is what
the constant `Uses` stands for.

The history variable `quiet` says that no worker had anything left to do when
the script began to clear.  `FinishedLeavesQuiet` makes it inductive from round
to round: only an expired admin, an interrupted script, or two workers with the
same id break the chain.  Until then the rounds implement `ReKeyJobs`, in which
a job starts after the report of the one before, with idle workers, and a batch
is in one worker's hands at most (`ImplementsJobs`); it abstracts from znodes,
mailboxes and memories.  Without `quiet`, TLC violates `StatusOfThisRound`: a
worker of the old round finishes its batch between the bootstrap of the new
Master and the `pkill` that reaches it.  `LastRoundFinishes` has one exception
besides faults, the `LateWorker`: it announces itself after the `rmr`, is
killed, and the Master gives batches to its persistent znode.

### Metadata

`write_file`'s choice of blocks and its call of `insert_meta`, workers that read
the row and write it back, a reader, and the stream format that
`serialization.cpp` keeps for a storage service.  Memory is counted in words of
32 bytes, and an index word carries its bytes, so that the two integer codecs
are computed (`Weight` is what each of the four bytes counts):
`byte_array_to_long` sums ints, so the first byte has a sign, whereas `unpack32`
is unsigned.  `Base` scales a byte.  `all_se` has `blocks_count` words and is
filled with `se_blocks_count`, and only these are in the row, since no reader
comes to the others; `tails_se` has 32 entries; leaving one of them sets
`overflowed`, after which nothing is claimed. `insert_meta` binds 32 of the 256
bytes of `tail_sgx`, although the ecall takes 256; nothing uses what comes of
it.  An empty file traps in `rand() % 0` (`pc = "dead"`).

## Runs

`Cluster*` use two workers, the smallest number that can interfere.  Workers are
interchangeable: the runs without liveness use that symmetry where it pays
(`ReKeyJob` does not mention workers).  So are the keys of the client runs.  The
runs with liveness use none.

| Run | Configuration | Shows |
|---|---|---|
| `ClusterSafety` | 5 files in 2 batches (one in none), stale rows of 3 files; crashes, expiry, loss | `TypeOK`, `PartitionBeforeTask`, `StatusMeansDone`, `AdminFinishedSound`, `NoDoubleReKey`, the `IInv` of the proofs, and `ImplementsJob`: the cluster implements `ReKeyJob` |
| `ClusterAllFaults` | 4 files in 2 batches, stale rows of 3; all seven faults, one listing at a time | `ReKeyedOncePerBatch`, `RegisteredWorkersListen`, `QuietAfterFinish` survive what breaks `StatusMeansDone`, and so does `FaultsInv` |
| `ClusterLive` | 4 files, stale rows of 3; the TRUNCATE may fail; fairness | `CompleteInv`: a failed TRUNCATE makes work and leaves nothing out; `AdminFinishes` |
| `ClusterQueryFails` | failed queries | violated: `StatusMeansDone` |
| `ClusterRemainder` | 5 files in 2 batches | violated: `EveryFileReKeyed` |
| `ClientFaults` | two writes of files of one and two blocks, one with a repeated block, and a reader at any time; AES mode, 1 or 2 super-encrypted; crashes, loss, failed SELECTs | `IInv`, `TypeOK`, `NoMixedRead`, `QuietReadReturnsContent` |
| `ClientReadAfterWrite` | one write, no fault | violated: `SameContentReturned` |
| `FileReKey` | 2 blocks, 2 workers on the same file, one more write by a client; crashes, loss, fairness | `IInv`, `TypeOK`, `OthersUntouched`, `TornOnlyIfExposed`, `ReportedReplaced`, `ReportedIsWrittenEventually` |
| `FileStatusEarly`, `FileWrongBlocks` | 4 blocks, no fault | violated: `StatusMeansStored`, `ReKeysSuperEncrypted` |
| `Rounds` | rounds of 2, 1 and 2 machines, 2 batches; one of five faults | `IInv`, `ImplementsJobs`, `TypeOK`, `StatusOfThisRound`, `FinishedRoundComplete`, `FinishedLeavesQuiet`, `NotSkipped`, `OneWorkerPerBatch`, `LastRoundFinishes` |
| `Metadata` | up to 7 blocks and 4 super-encrypted, two write-backs, bytes of one bit | `IInv`, `TypeOK`, `ReaderFindsBlocks`, `BoundsKept`, `StreamRoundTrip`, `WriteBackChangesNothing`, `SearchEnds` |

The violated runs are disagreements of the code with its own comments and
checks; `PROJECT.json`, "findings", quotes both sides.  Others are visible in
the models without a run:

- what `re_key` "re-keys" is the contents of an unfilled buffer, because the
  cipher calls are commented out (Enclave `rekey.cpp` 269-318), and the "new
  metadata" it saves (App `rekey.cpp` 93) is the row it has read;
- `delete_assignment` passes a name instead of a path, which the client library
  refuses, so that the assignment stays although `zkworker.cpp` 245 deletes it
  "so that master does not re-assign the task" (`Adelete`);
- a TRUNCATE that fails goes unnoticed although `admin.cpp` 294 says "clear
  batches in DB": rows of the previous round then put files into a second batch
  (`ClearPartitions`; with the fault `"truncate"`, `NoDoubleReKey` does not
  hold);
- when the SELECT of the file names fails, every batch is empty and the job
  reports success (`get_all_files`);
- in AES mode `read_file` leaves the caller's string empty (`DecodeAes`).

`NoMixedRead` has two conditions, and TLC finds it violated without either.  The
keys of two writes must differ, and no file may hold a block twice: equal blocks
have equal ciphertexts, their hashes cancel in the tails, and a reader that gets
an older version of both goes unwarned and returns garbage.
`QuietReadReturnsContent` has no such condition.

Bounds.  `MaxPending` bounds what a session may have outstanding when one more
listing is issued (the code has no limit): a process lists its mailbox or
`/status` while fewer requests and answers than that are under way.  Two let a
list that was answered before a task has finished and one that is answered after
it be under way together, which is what `on_going_tasks` is for.  With one, as
in `ClusterAllFaults`, so that all faults together stay within reach, a finished
task still comes back in the next list; the properties of that run are proved
for every number.  Two batches of two files give a second batch to re-assign or
confuse and a file left inside a batch when a worker dies; five files and three
files leave one over.  A file of two blocks has an inner and a super-encrypted
block, or two of a kind; two writes are the least that can be mixed.  Four
blocks with the last one or two super-encrypted keep the blocks the enclave
takes apart from those it should take; with a client, two blocks and a second
version do the same.  Three rounds on two, one and two machines give a machine
that sits a round out with its memory intact and is then restarted, and at most
one fault in a behaviour keeps the cause of each outcome apart.  In `Metadata` a
byte of two values makes 7 the largest int and 3 the size of `tails_se`, so that
each bound is reached and exceeded.  The rows of the previous round straddle the
boundaries of the new batches: with 4 files now and 3 before, the file that was
all of batch 1 is in batch 0, and is in both when the TRUNCATE fails.  The code
passes 100 batches; the theorems hold for every number.  Deadlock is not checked
where faults can stop the job for good (a crashed worker keeps its tasks, a lost
create is not repeated) and in the other models, which end when the calls or
rounds are over. `ClusterLive`, whose only fault stops nothing, checks it, and
so do the client runs, whose reader can always read again.

Fairness.  `FairSpec` of the cluster assumes that every process goes on running
its loop, and that Cassandra, the ZooKeeper server and the Master eventually do
what they are asked: weak fairness on each of those actions, none on faults. The
loops of the code have no exit other than the modelled ones, and the Master is a
running process.  No order among the tasks, and no strong fairness, is needed.
`FairSpec` of `ReKeyFile` assumes the same of a worker that is in the middle of
a file and of the store.  `Spec` of `ReKeyRounds` assumes it of the script, the
Master, the admin and each worker; `Spec` of `Metadata` that `write_file` goes
on and that `rand()` hits a free block in the end, if there is one.

## Proofs

All safety properties of the passing runs are proved, for every value of the
constants that the assumptions beside their declarations allow: no more than
that they are numbers, sets and sequences of the right kind, that there is at
least one batch, machine, block and listing, that the admin is no worker, and
that a byte has an even number of values.  A run checks each inductive invariant
on its instance, the theorem `Inductive` (or `FaultsInductive`,
`CompleteInductive`) holds for all.

| Module | Theorem | States |
|---|---|---|
| `ReKeyCluster_proofs` | `TypeCorrect` | `TypeOK`, with all faults |
| | `Inductive` | `IInv` \* |
| | `Refinement` | `ImplementsJob` \* |
| `ReKeyClusterFaults_proofs` | `FaultsInductive` | `FaultsInv` |
| | `ListenersCorrect` | `RegisteredWorkersListen` |
| | `ReKeyedOnceEach` | `ReKeyedOncePerBatch` |
| | `QuietCorrect` | `QuietAfterFinish` |
| | `ReKeyedOnce` | `NoDoubleReKey`, if the TRUNCATE succeeds |
| | `PartitionsCorrect` | `PartitionBeforeTask`, if the TRUNCATE, the SELECT of the file names and the INSERTs succeed |
| | `CompleteInductive` | `CompleteInv` \*\* |
| | `StatusCorrect` | `StatusMeansDone` \*\* |
| | `ReportCorrect` | `AdminFinishedSound` \*\* |
| `ReKeyRounds_proofs` | `Inductive`, `TypeCorrect` | `IInv`, `TypeOK` |
| | `StatusCorrect` | `StatusOfThisRound` |
| | `FinishedComplete` | `FinishedRoundComplete` |
| | `FinishedQuiet` | `FinishedLeavesQuiet` |
| | `BatchesNotSkipped` | `NotSkipped` |
| | `BatchHasOneWorker` | `OneWorkerPerBatch` |
| | `Refinement` | `ImplementsJobs` |
| `ReKeyFile_proofs` | `Inductive`, `TypeCorrect` | `IInv`, `TypeOK` |
| | `Untouched` | `OthersUntouched` |
| | `TornCorrect` | `TornOnlyIfExposed` |
| | `ReportCorrect` | `ReportedReplaced` |
| `AontClient_proofs` | `Inductive`, `TypeCorrect` | `IInv`, `TypeOK` |
| | `QuietReadCorrect` | `QuietReadReturnsContent` |
| | `NoMixedReadCorrect` | `NoMixedRead` |
| `Metadata_proofs` | `Inductive`, `TypeCorrect` | `IInv`, `TypeOK` |
| | `ReaderCorrect` | `ReaderFindsBlocks` |
| | `BoundsCorrect` | `BoundsKept` |
| | `StreamCorrect` | `StreamRoundTrip` |
| | `WriteBackCorrect` | `WriteBackChangesNothing` |

\* under `StoreReliable`: Cassandra loses no row and fails no partition query,
no SELECT of the file names and no TRUNCATE.  \*\* under `RowsReliable`: the
same, but the TRUNCATE may fail.  In both, crashes, expired sessions and lost
ZooKeeper requests are allowed.  Neither can be dropped: `ClusterQueryFails` is
the counterexample to the second, and a file that is re-keyed twice, the outcome
of a failed TRUNCATE, is no step of the abstract job.  The other theorems hold
under all faults of their module, or say which must not happen.

Each proof has one lemma per part of the invariant, with one step per action
that can disturb it.

### The job

None of the properties is inductive alone.  That a status znode means a done
batch depends on the request in the worker's queue, that on the worker having
had the whole batch in hand, that on the partition table being complete when the
task became visible, and that no file counts twice depends on a task never being
in two places.  `IInv` says each of these:

1. `RowsInv`: while `create_batches` runs, `part` and the INSERTs in flight are
   together exactly the rows of the batches so far; from then on `part` is
   exactly the batches;
2. `ProtocolInv`: which requests each process queues, and that a worker's lists
   and memory only hold tasks of its own mailbox;
3. `PlacesInv`: nothing is visible before `Bye` has returned; a task is in the
   admin's queue, in `/tasks` or in one mailbox, never in two;
4. `CountsInv`: files of an unassigned batch, or of one its live worker has not
   taken up, are untouched; of the batch a worker has in hand the files in
   `left` are untouched and the others done once;
5. `ReportInv`: every status request, znode, answer and collected name stands
   for a done batch.

`Refinement` maps `count` to `rekeyed` and `reported` to the admin's exit: only
`ReKeyFile` and `Finish` are steps of the job, and `IInv` supplies their guards.

### The job when Cassandra fails

When the TRUNCATE fails, rows of the previous round, cut at other boundaries,
are left among those of the new one.  A batch may then have files of another,
and `RowsInv` and `CountsInv` are lost.  `CompleteInv` keeps the other half: no
row of a batch is missing (`RowsThere`), and of the batch a worker has in hand
what is not in `left` is re-keyed, once or more often (`WorkedInv`).  So a
failed TRUNCATE costs work but leaves nothing out: `StatusMeansDone` and
`AdminFinishedSound` are proved from `CompleteInv`.

When rows get lost, or a query or the SELECT of the file names fails, a report
may stand for a batch that nobody has re-keyed, so that `ReportInv` is lost too.
`FaultsInv` keeps what no fault can break.  A reported task is `Settled`, that
is, its worker is through with it, whatever it got done, and will not take it up
again; `QuietAfterFinish` follows.  How often a file is re-keyed is bounded by
the number of batches whose turn with it is over (`Passed`): a worker takes up a
task once, and each file it has been given with it once (`PassedInv`).  Those
are among the batches that have the file in the table, hence
`ReKeyedOncePerBatch`, which needs no assumption on the faults.  If the TRUNCATE
has succeeded, the table has only rows of this round (`RowsWithin`), each file
in one batch at most, and `NoDoubleReKey` follows.  `RegisteredWorkersListen` is
a matter of order within a queue: the create of the mailbox stands before the
announcement, or has been served (`MailboxFirst`).

### The rounds

The difficulty is what a worker of an earlier round still holds.  `ScriptInv`
bounds the ids, so that a restarted worker has one that nobody had; `PlacesInv`
and `RoundInv` say what is true of the znodes once the `rmr` of their parent has
passed; `IdleInv` that a worker which was idle at the reset is given nothing
while the script clears; and `MailboxInv` ties a worker's memory to its mailbox:
what a registered worker remembers are batches of this round. Everything that
depends on workers having been idle (`quiet`) or on different ids says so, and
`FinishedQuiet` closes the circle: a round that the admin has finished leaves
the next one `quiet`.  `JobsInv` is that circle as an invariant: as long as the
sequence is `Sound`, the script only resets before the first round or after an
admin that has finished, hence every round is `quiet`.

`Refinement` maps `hand` to `cur`, `done` to `rekeyed`, `reported` to the
admin's end and `sound` to `Sound`.  Steps of the jobs are `KillMasterAndAdmin`
(`Start`), `BeginBatch`, `FinishBatch`, the steps that take a batch out of a
worker's hands (`WorkerGone`, `MachineWorkers`) and `AdminFinishes`; a step
after which the sequence is not sound is the step at which the jobs are broken
off. `IInv` supplies the guards: a batch that is taken was not in another
worker's hands nor done, and at the report all are done and all workers idle.

### The file

Each block, row and copy is of some write (`TypeOK`), and what is on its way is
the client's, of a rewrite, or a worker's, inside some range (`InflightInv`).  A
worker has replaced every block below its counter, or the UPDATE is on its way,
or was lost (`ProgressInv`); `ReportedReplaced` is that at the moment of the
report.  Without the accidents the copies in use are the row, and the row and
all blocks are of the last write, there or arriving (`WholeInv`).

The first attempt at `WholeInv` failed on a real mistake of the model: an UPDATE
that replaced a block took with it which INSERT it had replaced, so that an
INSERT of an earlier write could land afterwards and win over the later one. The
timestamps of the client's two INSERTs forbid that, and `Stored` now keeps them.

### The client

`XorCrypto_proofs` has the algebra: XOR is a group operation in which everything
is its own inverse, counter mode undoes itself, `XorAll` grows by one term at a
time, and the hashes of distinct strings do not cancel.  `XorAll` is defined by
parity and not by a fold, so that this needs no induction.

`IInv` says that every block and row, stored, in flight or read, is that of one
call (`BlocksInv`, `ReadInv`), that the tails are those of the blocks so far
(`TailsInv`), and that unless a call was cut short or an INSERT lost, the blocks
of the last call are stored or arriving (`SettledInv`).  A clean read therefore
has the blocks of one call, and `DecodeRoundTrip` computes what `read_file`
makes of them: SK from its tail, the indexes from SK, the inner blocks, FK and
the content.  It uses nothing about keys or contents, so that the theorem covers
repeated keys and repeated blocks.

`NoMixedRead` goes the other way (`ValueMeansOneCall`).  If the reader finds as
many super-encrypted indexes as the row has, one of them shows that it has
computed the SK of the row; then the hashes of what it has read are those of the
call; no block of another call is among them, for under fresh keys a stored
block is under a different key stream; so all blocks of the call have been read.
Fresh keys and distinct blocks are used exactly there.

### The metadata

`BytesRoundTrip`: four bytes, of any even number of values, give back every
number up to the largest int, by the codec that sums ints as well as by the
unsigned one.  The solver has no facts about division by a product; `Digits`
reduces it to three divisions by `Base`.  The row stays what write_file gave
because whatever a worker reads is cut to `se_blocks_count` tails and written
back with the same number (`WriteBack`), and the stream gives back what went in
because each part begins where the one before ends (`StreamStays`).

### What stays with TLC

`AdminFinishes`, `LastRoundFinishes`, `SearchEnds` and
`ReportedIsWrittenEventually` are liveness under fairness, which the prover does
not do (nor ENABLED).  `ReportedReplaced` is the safety half of the last one and
is proved.  The properties of the violated runs are false.  No module uses a
RECURSIVE operator.

## Not modelled, and the plan

Modelled first was what matters most, the job; then the client, on whose format
the re-key depends; then the re-key of one file, with the client that writes it
meanwhile; then the rounds and the metadata.  Proved are the safety properties
of all of them.  What remains:

1. Between the modules: job and rounds have their abstract specifications, but
   that a round of `ReKeyRounds` is an abstraction of `ReKeyCluster`, and the
   client of `ReKeyFile` one of `AontClient`, is argued in the text above and
   not stated as a refinement.
2. Abstract specifications of the client (a register that reads return the
   content of, once settled) and of the metadata (the row as a constant), of
   which the present theorems are the main steps.
3. Bounds on what the faults do: which files are left when a known number of
   rows is lost.

`fstore/cloud.py` is left out: the client does not call it any more, and that
`post_block` and `get_block` use different keys is visible without a model.  The
mock worker is an older copy of the modelled one that does not compile.  The
loaders of `client/main.cpp` are `write_file` in a loop; the line of `test.sh`
that starts them is commented out.

Not planned: a call that fails for its caller and is executed all the same,
later or in part (a TRUNCATE or a metadata INSERT that times out; the calls
nobody awaits may come late, and do); a metadata row that `re_key` cannot read;
uninitialised memory beyond the outcomes named above, the SGX runtime, logging
and timing output, RSA (its result is not used), and the components
`PROJECT.json` lists as not modelled.
