--------------------------- MODULE ReKeyClusterInv ---------------------------
(***************************************************************************)
(* The inductive invariants of ReKeyCluster.  All of them hold whatever     *)
(* processes crash or expire and whatever requests get lost; they differ    *)
(* in what Cassandra may fail to do.  IInv, when it does all it is asked    *)
(* to, follows a batch from the partition table through the znodes and the  *)
(* worker back to the admin.  CompleteInv is what remains when the TRUNCATE *)
(* of that table may fail: batches may have too many files, never too few.  *)
(* FaultsInv holds under every fault: a batch may come to a worker short    *)
(* of files, empty, or with files of a former batch.                        *)
(***************************************************************************)
EXTENDS ReKeyCluster

Elements(s) == { s[i] : i \in 1 .. Len(s) }

UniqueCreates(s) ==
  \A i, j \in 1 .. Len(s) : s[i] = s[j] /\ s[i].op = "createTask" => i = j

\* Cassandra executes what it is asked to execute.
StoreFaults == {"insert", "query", "files", "truncate"}
StoreReliable == Faults \cap StoreFaults = {}

\* create_batches is over: requests of the admin may have left the process.
Started == adminPc \notin {"start", "create"}

\* The partition table while it is filled, and from then on.
RowsInv ==
  /\ adminPc = "start" => inflight = {} /\ saved = 0
  /\ adminPc # "start" => found = NFiles
  /\ adminPc = "create" =>
       part \cup inflight = { r \in Tasks \X Files :
                                r[1] < saved /\ r[2] \in Batch(r[1]) }
  /\ Started => part = RowsOf(NFiles) /\ inflight = {}

\* Which requests a process queues, and what the worker has of its mailbox.
ProtocolInv ==
  /\ \A r \in Elements(queue[Admin]) : r.op \in {"createTask", "list"}
  /\ \A w \in Workers :
       /\ \A r \in Elements(queue[w]) : r.op \notin {"createTask", "deleteAssign"}
       /\ \A c \in Elements(resp[w]) : c \subseteq assign[w]
       /\ todo[w] \subseteq assign[w]
       /\ ongoing[w] \subseteq assign[w]
       /\ cur[w] # NoTask => cur[w] \in ongoing[w]

\* A task is nowhere before create_batches is over, and then in one place.
PlacesInv ==
  /\ ~ Started => tasks = {} /\ \A w \in Workers : assign[w] = {}
  /\ \A r \in Elements(queue[Admin]) :
       r.op = "createTask" =>
         /\ r.task < saved
         /\ r.task \notin tasks
         /\ \A w \in Workers : r.task \notin assign[w]
  /\ UniqueCreates(queue[Admin])
  /\ \A t \in tasks : t < saved /\ \A w \in Workers : t \notin assign[w]
  /\ \A v, w \in Workers : v # w => assign[v] \cap assign[w] = {}
  /\ \A w \in Workers : \A t \in assign[w] : t < saved

\* The files of a batch are untouched until a worker takes it up, and then
\* are re-keyed one by one.
CountsInv ==
  /\ \A t \in Tasks : (\A w \in Workers : t \notin assign[w]) =>
       \A f \in Batch(t) : rekeyed[f] = 0
  /\ \A w \in Workers :
       live[w] # "dead" => \A t \in assign[w] \ ongoing[w] :
                             \A f \in Batch(t) : rekeyed[f] = 0
  /\ \A w \in Workers :
       cur[w] # NoTask =>
         /\ live[w] # "dead"
         /\ left[w] \subseteq Batch(cur[w])
         /\ \A f \in left[w] : rekeyed[f] = 0
         /\ \A f \in Batch(cur[w]) \ left[w] : rekeyed[f] = 1
  /\ NoDoubleReKey

\* What is reported is done.
ReportInv ==
  /\ \A w \in Workers : \A r \in Elements(queue[w]) :
       r.op = "createStatus" => Done(r.task)
  /\ StatusMeansDone
  /\ \A c \in Elements(resp[Admin]) : c \subseteq status
  /\ statusDone \subseteq status
  /\ adminPc = "finished" => statusDone = Tasks

IInv ==
  /\ TypeOK
  /\ RowsInv
  /\ ProtocolInv
  /\ PlacesInv
  /\ CountsInv
  /\ ReportInv

-----------------------------------------------------------------------------
(* What a failed TRUNCATE leaves standing.                                  *)

\* Cassandra gives what it is asked for and stores what it is given.
RowsReliable == Faults \cap {"insert", "query", "files"} = {}

\* No row of the batches is missing, whatever else the table holds.
RowsThere ==
  /\ adminPc = "start" => saved = 0
  /\ adminPc # "start" => found = NFiles
  /\ adminPc = "create" =>
       { r \in Tasks \X Files : r[1] < saved /\ r[2] \in Batch(r[1]) }
         \subseteq part \cup inflight
  /\ Started => RowsOf(NFiles) \subseteq part

\* What a worker has got behind it of its batch is re-keyed.
WorkedInv ==
  \A w \in Workers :
    cur[w] # NoTask => \A f \in Batch(cur[w]) \ left[w] : rekeyed[f] > 0

CompleteInv ==
  /\ TypeOK
  /\ RowsThere
  /\ ProtocolInv
  /\ PlacesInv
  /\ WorkedInv
  /\ ReportInv

-----------------------------------------------------------------------------
(* What no fault can break.                                                 *)

\* A worker asks for its mailbox before it announces itself, and the server
\* keeps the order.
MailboxFirst(s, exists) ==
  \A i \in 1 .. Len(s) : s[i].op = "createWorker" =>
    exists \/ \E j \in 1 .. i - 1 : s[j].op = "createAssign"

ListenInv ==
  /\ RegisteredWorkersListen
  /\ \A w \in Workers : MailboxFirst(queue[w], w \in assignDir)

\* A worker has taken the task up, or never will.
Taken(t) ==
  \E w \in Workers : t \in assign[w] /\ (live[w] # "dead" => t \in ongoing[w])

\* The batches in which the turn of file f has come, or will not come any more.
Passed(f) ==
  { t \in Holding(f) : /\ Taken(t)
                       /\ \A w \in Workers : cur[w] = t => f \notin left[w] }

\* A worker takes up a batch once, and then each file it has got of it.
PassedInv ==
  /\ \A w \in Workers :
       cur[w] # NoTask => live[w] # "dead" /\ left[w] \subseteq Partition(cur[w])
  /\ \A f \in Files : rekeyed[f] <= Cardinality(Passed(f))

\* The worker that has the task is through with it and takes it up no more.
Settled(t) ==
  \E w \in Workers : /\ t \in assign[w]
                     /\ cur[w] # t
                     /\ live[w] # "dead" => t \in ongoing[w]

\* What is reported is settled, if not done.
SettledInv ==
  /\ \A w \in Workers : \A r \in Elements(queue[w]) :
       r.op = "createStatus" => Settled(r.task)
  /\ \A t \in status : Settled(t)
  /\ \A c \in Elements(resp[Admin]) : c \subseteq status
  /\ statusDone \subseteq status
  /\ adminPc = "finished" => statusDone = Tasks

FaultsInv ==
  /\ TypeOK
  /\ ProtocolInv
  /\ PlacesInv
  /\ ListenInv
  /\ PassedInv
  /\ SettledInv

=============================================================================
