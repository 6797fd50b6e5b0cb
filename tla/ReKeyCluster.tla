---------------------------- MODULE ReKeyCluster ----------------------------
(***************************************************************************)
(* The distributed re-key job of aont-sgx: the admin                       *)
(* (zookeeper/admin.cpp), the workers                                      *)
(* (server/App/TrustedLibrary/zkworker.cpp), the znodes they share, the    *)
(* partition table in Cassandra, and the external Master of the            *)
(* "zookeeper-book" project that zookeeper/test.sh starts.                 *)
(*                                                                         *)
(* Admin and workers use the single-threaded ZooKeeper client.  A call     *)
(* only queues a request; a session's requests are served in FIFO order    *)
(* and the answers are delivered in that order, later, inside              *)
(* zookeeper_process.  A worker re-keys a whole batch inside such a        *)
(* callback, so its loop stands still meanwhile while answers pile up.     *)
(***************************************************************************)
EXTENDS Integers, Sequences, FiniteSets

CONSTANTS
  Workers,     \* worker processes (one random WORKER_ID each)
  Admin,       \* the admin process
  NFiles,      \* rows of table meta when the admin starts
  PrevFiles,   \* rows it had at the previous round (stale partition rows)
  BatchCount,  \* batches the admin makes; the code passes 100
  MaxPending,  \* bound: a process issues one more listing while fewer requests
               \* and answers of its session than this are outstanding
  Faults       \* which of FaultKinds may happen

FaultKinds == {"crash", "expire", "loss", "query", "insert", "files", "truncate"}

ASSUME ConstantsAssumption ==
  /\ Admin \notin Workers
  /\ NFiles \in Nat
  /\ PrevFiles \in 0 .. NFiles
  /\ BatchCount \in Nat \ {0}
  /\ MaxPending \in Nat \ {0}
  /\ Faults \subseteq FaultKinds

Procs == Workers \cup {Admin}
Files == 0 .. NFiles - 1
Tasks == 0 .. BatchCount - 1
NoTask == -1

Request ==
  [op : {"createTask", "createStatus", "deleteAssign"}, task : Tasks]
    \cup [op : {"createAssign", "createWorker", "list"}, task : {NoTask}]

VARIABLES
  adminPc,     \* "start", "create", "watch", "finished" or "expired"
  found,       \* how many files create_batches has got from table meta
  saved,       \* batches that create_batches has gone through
  inflight,    \* partition rows whose INSERT is still in flight
  statusDone,  \* status_done, the set of finished tasks the admin knows
  part,        \* Cassandra table part: <<partition, file>> rows
  tasks,       \* children of /tasks
  assignDir,   \* workers w for which /assign/worker-w exists
  registered,  \* children of /workers
  assign,      \* assign[w]: children of /assign/worker-w
  status,      \* children of /status
  queue,       \* queue[p]: requests of p's session, not served yet
  resp,        \* resp[p]: children lists served, not delivered to p yet
  live,        \* live[w]: "off", "up" or "dead"
  ongoing,     \* ongoing[w]: on_going_tasks
  todo,        \* todo[w]: rest of the children list tasks_completion is in
  cur,         \* cur[w]: the task whose batch is being re-keyed, or NoTask
  left,        \* left[w]: files of that batch not re-keyed yet
  rekeyed      \* history: how often each file was re-keyed

adminVars  == <<adminPc, found, saved, statusDone>>
cassVars   == <<inflight, part>>
znodes     == <<tasks, assignDir, registered, assign, status>>
sessions   == <<queue, resp>>
workerVars == <<live, ongoing, todo, cur, left>>
vars == <<adminVars, cassVars, znodes, sessions, workerVars, rekeyed>>

-----------------------------------------------------------------------------
(* create_batches cuts the n files of table meta into BatchCount batches   *)
(* of n \div BatchCount files, a C integer division.                       *)

BatchSize(n) == n \div BatchCount

BatchFilesOverlapping(n, i) ==
  { f \in 0 .. n - 1 : /\ i * BatchSize(n) <= f
                       /\ f <= i * BatchSize(n) + BatchSize(n) }

BatchFiles(n, i) ==
  { f \in 0 .. n - 1 : /\ i * BatchSize(n) <= f
                       /\ f < i * BatchSize(n) + BatchSize(n) }

Batch(i) == BatchFiles(NFiles, i)

RowsOf(n) == { r \in Tasks \X (0 .. n - 1) : r[2] \in BatchFiles(n, r[1]) }

\* The files a worker gets for partition t.
Partition(t) == { f \in Files : <<t, f>> \in part }

Req(op, t) == [op |-> op, task |-> t]

Idle(w) == live[w] = "up" /\ todo[w] = {} /\ cur[w] = NoTask

\* A session's requests leave the process only once it is connected, which
\* takes several zookeeper_process calls: for the admin, all of them come
\* after create_batches.
Connected(p) == IF p = Admin THEN adminPc = "watch" ELSE live[p] = "up"

Pending(p) == Len(queue[p]) + Len(resp[p])

Init ==
  /\ adminPc = "start" /\ found = 0 /\ saved = 0 /\ statusDone = {}
  /\ inflight = {}
  /\ part = RowsOf(PrevFiles)
  /\ tasks = {} /\ assignDir = {} /\ registered = {} /\ status = {}
  /\ assign = [w \in Workers |-> {}]
  /\ queue = [p \in Procs |-> <<>>]
  /\ resp = [p \in Procs |-> <<>>]
  /\ live = [w \in Workers |-> "off"]
  /\ ongoing = [w \in Workers |-> {}]
  /\ todo = [w \in Workers |-> {}]
  /\ cur = [w \in Workers |-> NoTask]
  /\ left = [w \in Workers |-> {}]
  /\ rekeyed = [f \in Files |-> 0]

-----------------------------------------------------------------------------
(* The admin.                                                              *)

\* A failed SELECT of the file names leaves an empty list, and nobody is told.
get_all_files ==
  \/ found' = NFiles
  \/ "files" \in Faults /\ found' = 0

\* The TRUNCATE of table part is awaited, but the error code it leaves is not
\* looked at: when it fails, the rows of the previous round stay.
ClearPartitionsKept == UNCHANGED part
ClearPartitions ==
  \/ part' = {}
  \/ "truncate" \in Faults /\ UNCHANGED part

CreateBatches ==
  /\ adminPc = "start"
  /\ adminPc' = "create"
  /\ get_all_files
  /\ ClearPartitions
  /\ UNCHANGED <<saved, statusDone, inflight, znodes, sessions, workerVars,
                 rekeyed>>

\* One turn of the loop over the batches: SavePartition issues the INSERTs
\* without awaiting them, create_znode queues the creation of the task.
MoreBatchesOffByOne == saved <= BatchCount
MoreBatches == saved < BatchCount

SavePartition ==
  /\ adminPc = "create"
  /\ MoreBatches
  /\ saved' = saved + 1
  /\ inflight' = inflight \cup { <<saved, f>> : f \in BatchFiles(found, saved) }
  /\ queue' = [queue EXCEPT ![Admin] = Append(@, Req("createTask", saved))]
  /\ UNCHANGED <<adminPc, found, statusDone, part, znodes, resp, workerVars,
                 rekeyed>>

\* Cassandra::Bye frees the session: it returns once no request is in flight.
InsertsIgnored == TRUE
InsertsAwaited == inflight = {}

Bye ==
  /\ adminPc = "create"
  /\ saved = BatchCount
  /\ InsertsAwaited
  /\ adminPc' = "watch"
  /\ UNCHANGED <<found, saved, statusDone, cassVars, znodes, sessions, workerVars,
                 rekeyed>>

\* The test that ends the admin's loop: status_done.size() == total_tasks.
NeverAllDone == Cardinality(statusDone) > BatchCount
AllButOneDone == Cardinality(statusDone) >= BatchCount - 1
AllTasksDone == Cardinality(statusDone) = BatchCount

\* One turn of main's loop that goes on: list /status, test, process.
WatchTasksStatus ==
  /\ adminPc = "watch"
  /\ ~ AllTasksDone
  /\ Pending(Admin) < MaxPending
  /\ queue' = [queue EXCEPT ![Admin] = Append(@, Req("list", NoTask))]
  /\ UNCHANGED <<adminVars, cassVars, znodes, resp, workerVars, rekeyed>>

\* The turn that breaks out of the loop; zookeeper_close drops the session.
Finish ==
  /\ adminPc = "watch"
  /\ AllTasksDone
  /\ adminPc' = "finished"
  /\ queue' = [queue EXCEPT ![Admin] = <<>>]
  /\ resp' = [resp EXCEPT ![Admin] = <<>>]
  /\ UNCHANGED <<found, saved, statusDone, cassVars, znodes, workerVars, rekeyed>>

StatusCompletion ==
  /\ adminPc = "watch"
  /\ resp[Admin] # <<>>
  /\ statusDone' = statusDone \cup Head(resp[Admin])
  /\ resp' = [resp EXCEPT ![Admin] = Tail(@)]
  /\ UNCHANGED <<adminPc, found, saved, cassVars, znodes, queue, workerVars,
                 rekeyed>>

\* The session-event watcher shuts the admin down when its session expires.
AdminExpired ==
  /\ "expire" \in Faults
  /\ adminPc = "watch"
  /\ adminPc' = "expired"
  /\ queue' = [queue EXCEPT ![Admin] = <<>>]
  /\ resp' = [resp EXCEPT ![Admin] = <<>>]
  /\ UNCHANGED <<found, saved, statusDone, cassVars, znodes, workerVars, rekeyed>>

-----------------------------------------------------------------------------
(* Cassandra, ZooKeeper and the Master.                                    *)

RowLands ==
  \E r \in inflight :
    /\ inflight' = inflight \ {r}
    /\ part' = part \cup {r}
    /\ UNCHANGED <<adminVars, znodes, sessions, workerVars, rekeyed>>

\* The result of the INSERT is never looked at: a row that fails is lost.
RowLost ==
  /\ "insert" \in Faults
  /\ \E r \in inflight : inflight' = inflight \ {r}
  /\ UNCHANGED <<adminVars, part, znodes, sessions, workerVars, rekeyed>>

Target(r, op) == IF r.op = op THEN {r.task} ELSE {}

\* The server executes a create or a delete.  Znodes are persistent, an
\* existing one stays as it is, and no completion looks at the outcome.
ServeWrite(p) ==
  /\ Connected(p)
  /\ queue[p] # <<>>
  /\ Head(queue[p]).op # "list"
  /\ LET r == Head(queue[p]) IN
       /\ tasks' = tasks \cup Target(r, "createTask")
       /\ status' = status \cup Target(r, "createStatus")
       /\ assignDir' = assignDir \cup
            {w \in Workers : w = p /\ r.op = "createAssign"}
       /\ registered' = registered \cup
            {w \in Workers : w = p /\ r.op = "createWorker"}
       /\ assign' = [w \in Workers |->
                       IF w = p THEN assign[w] \ Target(r, "deleteAssign")
                                ELSE assign[w]]
  /\ queue' = [queue EXCEPT ![p] = Tail(@)]
  /\ UNCHANGED <<adminVars, cassVars, resp, workerVars, rekeyed>>

\* The server answers a getChildren: /status for the admin, the worker's own
\* /assign/worker-w for a worker.
Children(p) == IF p = Admin THEN status ELSE assign[p]

ServeList(p) ==
  /\ Connected(p)
  /\ queue[p] # <<>>
  /\ Head(queue[p]).op = "list"
  /\ resp' = [resp EXCEPT ![p] = Append(@, Children(p))]
  /\ queue' = [queue EXCEPT ![p] = Tail(@)]
  /\ UNCHANGED <<adminVars, cassVars, znodes, workerVars, rekeyed>>

\* The Master moves a task from /tasks to some child of /workers.
MasterAssign(t, w) ==
  /\ t \in tasks
  /\ w \in registered
  /\ w \in assignDir
  /\ tasks' = tasks \ {t}
  /\ assign' = [assign EXCEPT ![w] = @ \cup {t}]
  /\ UNCHANGED <<adminVars, cassVars, assignDir, registered, status, sessions,
                 workerVars, rekeyed>>

\* A connection that breaks takes the unserved requests and the undelivered
\* answers with it; the client library reconnects to the same session.
ConnectionLoss(p) ==
  /\ "loss" \in Faults
  /\ IF p = Admin THEN adminPc = "watch" ELSE Idle(p)
  /\ Pending(p) > 0
  /\ queue' = [queue EXCEPT ![p] = <<>>]
  /\ resp' = [resp EXCEPT ![p] = <<>>]
  /\ UNCHANGED <<adminVars, cassVars, znodes, workerVars, rekeyed>>

-----------------------------------------------------------------------------
(* A worker.                                                               *)

\* WORKER_WAKE_UP: the worker's mailbox /assign/worker-w is created before
\* the worker is announced under /workers.
AnnouncedFirst == <<Req("createWorker", NoTask), Req("createAssign", NoTask)>>
WakeUpRequests == <<Req("createAssign", NoTask), Req("createWorker", NoTask)>>

WakeUp(w) ==
  /\ live[w] = "off"
  /\ live' = [live EXCEPT ![w] = "up"]
  /\ queue' = [queue EXCEPT ![w] = WakeUpRequests]
  /\ UNCHANGED <<adminVars, cassVars, znodes, resp, ongoing, todo, cur, left,
                 rekeyed>>

\* Every turn of the loop issues one more getChildren, answered or not.
WatchZnode(w) ==
  /\ Idle(w)
  /\ Pending(w) < MaxPending
  /\ queue' = [queue EXCEPT ![w] = Append(@, Req("list", NoTask))]
  /\ UNCHANGED <<adminVars, cassVars, znodes, resp, workerVars, rekeyed>>

TasksCompletion(w) ==
  /\ Idle(w)
  /\ resp[w] # <<>>
  /\ todo' = [todo EXCEPT ![w] = Head(resp[w])]
  /\ resp' = [resp EXCEPT ![w] = Tail(@)]
  /\ UNCHANGED <<adminVars, cassVars, znodes, queue, live, ongoing, cur, left,
                 rekeyed>>

\* process_task's test of on_going_tasks.
OnGoingForgotten(w, t) == FALSE
OnGoing(w, t) == t \in ongoing[w]

Between(w) == live[w] = "up" /\ cur[w] = NoTask

SkipTask(w, t) ==
  /\ Between(w)
  /\ t \in todo[w]
  /\ OnGoing(w, t)
  /\ todo' = [todo EXCEPT ![w] = @ \ {t}]
  /\ UNCHANGED <<adminVars, cassVars, znodes, sessions, live, ongoing, cur,
                 left, rekeyed>>

\* process_task up to the point where re_key_batch has its list of files.
\* A failed SELECT is printed and leaves the list empty.
BeginTask(w, t, files) ==
  /\ Between(w)
  /\ t \in todo[w]
  /\ ~ OnGoing(w, t)
  /\ ongoing' = [ongoing EXCEPT ![w] = @ \cup {t}]
  /\ todo' = [todo EXCEPT ![w] = @ \ {t}]
  /\ cur' = [cur EXCEPT ![w] = t]
  /\ left' = [left EXCEPT ![w] = files]
  /\ UNCHANGED <<adminVars, cassVars, znodes, sessions, live, rekeyed>>

ReadPartition(w, t) == BeginTask(w, t, Partition(t))
QueryFails(w, t) == "query" \in Faults /\ BeginTask(w, t, {})

ReKeyFile(w, f) ==
  /\ live[w] = "up"
  /\ cur[w] # NoTask
  /\ f \in left[w]
  /\ left' = [left EXCEPT ![w] = @ \ {f}]
  /\ rekeyed' = [rekeyed EXCEPT ![f] = @ + 1]
  /\ UNCHANGED <<adminVars, cassVars, znodes, sessions, live, ongoing, todo,
                 cur>>

\* zoo_adelete(path): a path that does not start at the root is refused by
\* the client library, which queues nothing; the return value is not used.
Adelete(path) ==
  IF path.absolute THEN <<Req("deleteAssign", path.task)>> ELSE <<>>

\* The end of process_task.  task_name is the name of the child as the
\* children list gave it: the path given to delete_assignment is relative.
BatchStarted(w) == TRUE
BatchReKeyed(w) == left[w] = {}

FinishTask(w) ==
  /\ live[w] = "up"
  /\ cur[w] # NoTask
  /\ BatchReKeyed(w)
  /\ queue' = [queue EXCEPT ![w] =
                 Append(@, Req("createStatus", cur[w]))
                   \o Adelete([absolute |-> FALSE, task |-> cur[w]])]
  /\ cur' = [cur EXCEPT ![w] = NoTask]
  /\ UNCHANGED <<adminVars, cassVars, znodes, resp, live, ongoing, todo, left,
                 rekeyed>>

\* The process is gone, what it had not sent with it; its znodes stay.
Gone(w) ==
  /\ live' = [live EXCEPT ![w] = "dead"]
  /\ queue' = [queue EXCEPT ![w] = <<>>]
  /\ resp' = [resp EXCEPT ![w] = <<>>]
  /\ ongoing' = [ongoing EXCEPT ![w] = {}]
  /\ todo' = [todo EXCEPT ![w] = {}]
  /\ cur' = [cur EXCEPT ![w] = NoTask]
  /\ left' = [left EXCEPT ![w] = {}]
  /\ UNCHANGED <<adminVars, cassVars, znodes, rekeyed>>

\* A crash, a pkill, or the abort() of re_key when the ecall fails.
Crash(w) == "crash" \in Faults /\ live[w] = "up" /\ Gone(w)

\* The watcher sees the expiry when the loop gets to run, between batches.
WorkerExpired(w) == "expire" \in Faults /\ Idle(w) /\ Gone(w)

-----------------------------------------------------------------------------
AdminStep ==
  \/ CreateBatches \/ SavePartition \/ Bye
  \/ WatchTasksStatus \/ Finish \/ StatusCompletion \/ AdminExpired

ServerStep(p) == ServeWrite(p) \/ ServeList(p) \/ ConnectionLoss(p)

WorkerStep(w) ==
  \/ WakeUp(w) \/ WatchZnode(w) \/ TasksCompletion(w)
  \/ \E t \in Tasks : SkipTask(w, t) \/ ReadPartition(w, t) \/ QueryFails(w, t)
  \/ \E f \in Files : ReKeyFile(w, f)
  \/ FinishTask(w) \/ Crash(w) \/ WorkerExpired(w)

Next ==
  \/ AdminStep
  \/ RowLands \/ RowLost
  \/ \E p \in Procs : ServerStep(p)
  \/ \E t \in Tasks, w \in Workers : MasterAssign(t, w)
  \/ \E w \in Workers : WorkerStep(w)

Spec == Init /\ [][Next]_vars

\* Every process keeps running its loop, and Cassandra, the ZooKeeper server
\* and the Master eventually do what they are asked.  Nothing is assumed of
\* the faults.
Fairness ==
  /\ WF_vars(CreateBatches) /\ WF_vars(SavePartition) /\ WF_vars(Bye)
  /\ WF_vars(WatchTasksStatus) /\ WF_vars(Finish) /\ WF_vars(StatusCompletion)
  /\ WF_vars(RowLands)
  /\ \A p \in Procs : WF_vars(ServeWrite(p) \/ ServeList(p))
  /\ WF_vars(\E t \in Tasks, w \in Workers : MasterAssign(t, w))
  /\ \A w \in Workers :
       /\ WF_vars(WakeUp(w)) /\ WF_vars(WatchZnode(w))
       /\ WF_vars(TasksCompletion(w))
       /\ WF_vars(\E t \in Tasks : SkipTask(w, t) \/ ReadPartition(w, t))
       /\ WF_vars(\E f \in Files : ReKeyFile(w, f))
       /\ WF_vars(FinishTask(w))

FairSpec == Spec /\ Fairness

-----------------------------------------------------------------------------
(* Properties.                                                             *)

TypeOK ==
  /\ adminPc \in {"start", "create", "watch", "finished", "expired"}
  /\ found \in {0, NFiles}
  /\ saved \in 0 .. BatchCount
  /\ statusDone \subseteq Tasks
  /\ inflight \subseteq Tasks \X Files
  /\ part \subseteq Tasks \X Files
  /\ tasks \subseteq Tasks
  /\ assignDir \subseteq Workers
  /\ registered \subseteq Workers
  /\ assign \in [Workers -> SUBSET Tasks]
  /\ status \subseteq Tasks
  /\ queue \in [Procs -> Seq(Request)]
  /\ resp \in [Procs -> Seq(SUBSET Tasks)]
  /\ live \in [Workers -> {"off", "up", "dead"}]
  /\ ongoing \in [Workers -> SUBSET Tasks]
  /\ todo \in [Workers -> SUBSET Tasks]
  /\ cur \in [Workers -> Tasks \cup {NoTask}]
  /\ left \in [Workers -> SUBSET Files]
  /\ rekeyed \in [Files -> Nat]

Assigned == UNION { assign[w] : w \in Workers }

\* The files the job is about: those that fall into some batch.
Covered == UNION { Batch(t) : t \in Tasks }

Done(t) == \A f \in Batch(t) : rekeyed[f] > 0

\* Wherever a worker can come across a task, table part already holds the
\* whole batch and nothing but that batch: the INSERTs nobody awaits are over
\* and the rows of the previous round are gone, if the TRUNCATE has succeeded
\* (admin.cpp 292-325).
PartitionBeforeTask ==
  \A t \in tasks \cup Assigned : Partition(t) = Batch(t)

\* The Master never finds a worker whose mailbox does not exist yet, so it
\* never fails to assign a task (zkworker.cpp 384-385).
RegisteredWorkersListen == registered \subseteq assignDir

\* "create status znode, so the admin knows that the task is done": a status
\* znode stands for a batch whose files have all been re-keyed, whatever
\* crashed or got lost on the way (zkworker.cpp 236-243).
StatusMeansDone == \A t \in status : Done(t)

\* When the admin's loop ends by itself, every file of every batch has been
\* re-keyed (admin.cpp 476).
AdminFinishedSound ==
  adminPc = "finished" => \A f \in Covered : rekeyed[f] > 0

\* The batches in whose rows table part has file f.
Holding(f) == { t \in Tasks : <<t, f>> \in part }

\* No worker goes over a batch twice, nor do two workers over the same one,
\* although a finished task comes back in every later listing, for nothing
\* removes it (zkworker.cpp 227): a file is re-keyed at most once for every
\* batch table part has it in, whatever of that table is lost or left over.
ReKeyedOncePerBatch == \A f \in Files : rekeyed[f] <= Cardinality(Holding(f))

\* So no file is re-keyed twice in a round, unless the TRUNCATE has failed and
\* left rows with the batch boundaries of the previous round (cass.h 49-54).
NoDoubleReKey == \A f \in Files : rekeyed[f] <= 1

\* Once the admin has reported, no worker touches a file any more.
QuietAfterFinish == [][adminPc = "finished" => UNCHANGED rekeyed]_vars

\* With no fault, the admin's loop ends (admin.cpp 428-480).
AdminFinishes == <>(adminPc = "finished")

\* admin.cpp 297: "split the files in configured batches": when the admin has
\* finished, every file of table meta has been re-keyed.
EveryFileReKeyed ==
  adminPc = "finished" => \A f \in Files : rekeyed[f] > 0

-----------------------------------------------------------------------------
(* Refinement: to an observer of the files and of the admin's exit, the     *)
(* cluster is one re-key job.                                               *)

Job == INSTANCE ReKeyJob
         WITH JobFiles <- Covered, count <- rekeyed,
              reported <- adminPc = "finished"

\* Each step re-keys one file of the job that was not re-keyed yet, before
\* the report, or reports a complete job, or changes neither.
ImplementsJob == Job!Spec

=============================================================================
