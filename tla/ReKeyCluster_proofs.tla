------------------------- MODULE ReKeyCluster_proofs -------------------------
(***************************************************************************)
(* Proofs about ReKeyCluster, for every number of workers, files and        *)
(* batches and every set of faults the statement allows.                    *)
(***************************************************************************)
EXTENDS ReKeyClusterInv, FiniteSetTheorems, SequenceTheorems, TLAPS

-----------------------------------------------------------------------------
(* The data the actions work on.                                            *)

\* The batches consist of files, whichever number of files they were cut from.
LEMMA BatchesAreFiles ==
  /\ \A i \in Tasks : Batch(i) \subseteq Files
  /\ \A i \in Tasks : BatchFiles(0, i) \subseteq Files
  /\ RowsOf(PrevFiles) \subseteq Tasks \X Files
  /\ \A t \in Tasks : Partition(t) \subseteq Files
<1> USE ConstantsAssumption
<1>1. \A i \in Tasks : Batch(i) \subseteq Files /\ BatchFiles(0, i) \subseteq Files
  BY DEF Batch, BatchFiles, Files
<1>2. 0 .. PrevFiles - 1 \subseteq Files
  BY DEF Files
<1>3. RowsOf(PrevFiles) \subseteq Tasks \X Files
  BY <1>2 DEF RowsOf
<1>4. \A t \in Tasks : Partition(t) \subseteq Files
  BY DEF Partition
<1> QED BY <1>1, <1>3, <1>4

\* The requests the code queues are requests.
LEMMA RequestType ==
  /\ \A t \in Tasks : /\ Req("createTask", t) \in Request
                      /\ Req("createStatus", t) \in Request
                      /\ Req("deleteAssign", t) \in Request
  /\ Req("list", NoTask) \in Request
  /\ WakeUpRequests \in Seq(Request)
  /\ \A t : Adelete([absolute |-> FALSE, task |-> t]) = <<>>
BY DEF Request, Req, WakeUpRequests, Adelete

\* Appending to one queue, and taking its head away, leaves queues.
LEMMA QueueUpdate ==
  ASSUME NEW P, NEW S, NEW q \in [P -> Seq(S)], NEW p \in P
  PROVE  /\ [q EXCEPT ![p] = <<>>] \in [P -> Seq(S)]
         /\ \A r \in S : [q EXCEPT ![p] = Append(@, r)] \in [P -> Seq(S)]
         /\ q[p] # <<>> => /\ [q EXCEPT ![p] = Tail(@)] \in [P -> Seq(S)]
                           /\ Head(q[p]) \in S
<1>1. q[p] \in Seq(S)
  OBVIOUS
<1>2. <<>> \in Seq(S)
  BY EmptySeq
<1>3. \A r \in S : Append(q[p], r) \in Seq(S)
  BY <1>1
<1>4. q[p] # <<>> => Tail(q[p]) \in Seq(S) /\ Head(q[p]) \in S
  BY <1>1, HeadTailProperties
<1> QED BY <1>1, <1>2, <1>3, <1>4

-----------------------------------------------------------------------------
(* Type correctness.                                                        *)

\* Queues and lists are empty to begin with.
LEMMA TypeInit == Init => TypeOK
<1> SUFFICES ASSUME Init PROVE TypeOK
  OBVIOUS
<1>1. queue \in [Procs -> Seq(Request)] /\ resp \in [Procs -> Seq(SUBSET Tasks)]
  BY EmptySeq DEF Init
<1>2. rekeyed \in [Files -> Nat]
  BY DEF Init
<1>3. 0 \in 0 .. BatchCount
  BY ConstantsAssumption
<1> QED BY <1>1, <1>2, <1>3, BatchesAreFiles DEF Init, TypeOK

\* Every step of a process or of a server keeps the types.
LEMMA TypeNext == TypeOK /\ [Next]_vars => TypeOK'
<1> SUFFICES ASSUME TypeOK, [Next]_vars PROVE TypeOK'
  OBVIOUS
<1> USE ConstantsAssumption
<1> USE DEF TypeOK
<1>p. Admin \in Procs /\ (\A w \in Workers : w \in Procs /\ w # Admin)
  BY DEF Procs
<1>1. CASE CreateBatches
  BY <1>1
  DEF CreateBatches, get_all_files, ClearPartitions, znodes, sessions, workerVars
<1>2. CASE SavePartition
  <2>1. saved \in Tasks /\ saved + 1 \in 0 .. BatchCount
    BY <1>2 DEF SavePartition, MoreBatches, Tasks
  <2>2. queue' \in [Procs -> Seq(Request)]
    BY <1>2, <1>p, <2>1, QueueUpdate, RequestType DEF SavePartition
  <2>3. inflight' \subseteq Tasks \X Files
    <3>1. BatchFiles(found, saved) \subseteq Files
      BY <2>1, BatchesAreFiles DEF Batch
    <3> QED BY <1>2, <2>1, <3>1 DEF SavePartition
  <2> QED BY <1>2, <2>1, <2>2, <2>3 DEF SavePartition, znodes, workerVars
<1>3. CASE Bye
  BY <1>3 DEF Bye, cassVars, znodes, sessions, workerVars
<1>4. CASE WatchTasksStatus
  <2>1. queue' \in [Procs -> Seq(Request)]
    BY <1>4, <1>p, QueueUpdate, RequestType DEF WatchTasksStatus
  <2> QED BY <1>4, <2>1
        DEF WatchTasksStatus, adminVars, cassVars, znodes, workerVars
<1>5. CASE Finish
  <2>1. /\ queue' \in [Procs -> Seq(Request)]
        /\ resp' \in [Procs -> Seq(SUBSET Tasks)]
    BY <1>5, <1>p, QueueUpdate DEF Finish
  <2> QED BY <1>5, <2>1 DEF Finish, cassVars, znodes, workerVars
<1>6. CASE StatusCompletion
  <2>1. /\ resp' \in [Procs -> Seq(SUBSET Tasks)]
        /\ statusDone' \subseteq Tasks
    BY <1>6, <1>p, QueueUpdate DEF StatusCompletion
  <2> QED BY <1>6, <2>1 DEF StatusCompletion, cassVars, znodes, workerVars
<1>7. CASE AdminExpired
  <2>1. /\ queue' \in [Procs -> Seq(Request)]
        /\ resp' \in [Procs -> Seq(SUBSET Tasks)]
    BY <1>7, <1>p, QueueUpdate DEF AdminExpired
  <2> QED BY <1>7, <2>1 DEF AdminExpired, cassVars, znodes, workerVars
<1>8. CASE RowLands
  BY <1>8 DEF RowLands, adminVars, znodes, sessions, workerVars
<1>9. CASE RowLost
  BY <1>9 DEF RowLost, adminVars, znodes, sessions, workerVars
<1>10. ASSUME NEW p \in Procs, ServeWrite(p) PROVE TypeOK'
  <2> DEFINE r == Head(queue[p])
  <2>1. queue' \in [Procs -> Seq(Request)] /\ r \in Request
    BY <1>10, QueueUpdate DEF ServeWrite
  <2>2. /\ Target(r, "createTask") \subseteq Tasks
        /\ Target(r, "createStatus") \subseteq Tasks
    BY <2>1 DEF Target, Request
  <2> QED BY <1>10, <2>1, <2>2 DEF ServeWrite, adminVars, cassVars, workerVars
<1>11. ASSUME NEW p \in Procs, ServeList(p) PROVE TypeOK'
  <2>1. Children(p) \in SUBSET Tasks
    BY DEF Children, Procs
  <2>2. /\ queue' \in [Procs -> Seq(Request)]
        /\ resp' \in [Procs -> Seq(SUBSET Tasks)]
    BY <1>11, <2>1, QueueUpdate DEF ServeList
  <2> QED BY <1>11, <2>2 DEF ServeList, adminVars, cassVars, znodes, workerVars
<1>12. ASSUME NEW p \in Procs, ConnectionLoss(p) PROVE TypeOK'
  <2>1. /\ queue' \in [Procs -> Seq(Request)]
        /\ resp' \in [Procs -> Seq(SUBSET Tasks)]
    BY <1>12, QueueUpdate DEF ConnectionLoss
  <2> QED BY <1>12, <2>1
        DEF ConnectionLoss, adminVars, cassVars, znodes, workerVars
<1>13. ASSUME NEW t \in Tasks, NEW w \in Workers, MasterAssign(t, w)
       PROVE  TypeOK'
  BY <1>13 DEF MasterAssign, adminVars, cassVars, sessions, workerVars
<1>14. ASSUME NEW w \in Workers, WakeUp(w) PROVE TypeOK'
  <2>1. queue' \in [Procs -> Seq(Request)]
    BY <1>14, RequestType DEF WakeUp
  <2> QED BY <1>14, <2>1 DEF WakeUp, adminVars, cassVars, znodes
<1>15. ASSUME NEW w \in Workers, WatchZnode(w) PROVE TypeOK'
  <2>1. queue' \in [Procs -> Seq(Request)]
    BY <1>15, <1>p, QueueUpdate, RequestType DEF WatchZnode
  <2> QED BY <1>15, <2>1 DEF WatchZnode, adminVars, cassVars, znodes, workerVars
<1>16. ASSUME NEW w \in Workers, TasksCompletion(w) PROVE TypeOK'
  <2>1. resp' \in [Procs -> Seq(SUBSET Tasks)] /\ Head(resp[w]) \in SUBSET Tasks
    BY <1>16, <1>p, QueueUpdate DEF TasksCompletion
  <2> QED BY <1>16, <2>1 DEF TasksCompletion, adminVars, cassVars, znodes
<1>17. ASSUME NEW w \in Workers, NEW t \in Tasks, SkipTask(w, t) PROVE TypeOK'
  BY <1>17 DEF SkipTask, adminVars, cassVars, znodes, sessions
<1>18. ASSUME NEW w \in Workers, NEW t \in Tasks,
              ReadPartition(w, t) \/ QueryFails(w, t)
       PROVE  TypeOK'
  <2>1. PICK files \in SUBSET Files : BeginTask(w, t, files)
    BY <1>18, BatchesAreFiles DEF ReadPartition, QueryFails
  <2> QED BY <2>1 DEF BeginTask, adminVars, cassVars, znodes, sessions
<1>19. ASSUME NEW w \in Workers, NEW f \in Files, ReKeyFile(w, f) PROVE TypeOK'
  BY <1>19 DEF ReKeyFile, adminVars, cassVars, znodes, sessions
<1>20. ASSUME NEW w \in Workers, FinishTask(w) PROVE TypeOK'
  <2>1. cur[w] \in Tasks
    BY <1>20 DEF FinishTask
  <2>2. Append(queue[w], Req("createStatus", cur[w])) \in Seq(Request)
    BY <1>p, <2>1, RequestType
  <2>3. queue' = [queue EXCEPT ![w] =
                    Append(queue[w], Req("createStatus", cur[w]))]
    BY <1>20, <1>p, <2>2, RequestType, ConcatEmptySeq DEF FinishTask
  <2>4. queue' \in [Procs -> Seq(Request)]
    BY <1>p, <2>2, <2>3
  <2> QED BY <1>20, <2>4 DEF FinishTask, adminVars, cassVars, znodes
<1>21. ASSUME NEW w \in Workers, Gone(w) PROVE TypeOK'
  <2>1. /\ queue' \in [Procs -> Seq(Request)]
        /\ resp' \in [Procs -> Seq(SUBSET Tasks)]
    BY <1>21, <1>p, QueueUpdate DEF Gone
  <2> QED BY <1>21, <2>1 DEF Gone, adminVars, cassVars, znodes
<1>22. CASE UNCHANGED vars
  BY <1>22 DEF vars, adminVars, cassVars, znodes, sessions, workerVars
<1> QED
  BY <1>1, <1>2, <1>3, <1>4, <1>5, <1>6, <1>7, <1>8, <1>9, <1>10, <1>11, <1>12,
     <1>13, <1>14, <1>15, <1>16, <1>17, <1>18, <1>19, <1>20, <1>21, <1>22
  DEF Next, AdminStep, ServerStep, WorkerStep, Crash, WorkerExpired

\* Every variable keeps its type, under all faults.
THEOREM TypeCorrect == Spec => []TypeOK
BY TypeInit, TypeNext, PTL DEF Spec

-----------------------------------------------------------------------------
(* Queues as sets of requests.                                              *)

\* What is in a queue after an append, a tail or a reset.
LEMMA ElementsUpdate ==
  ASSUME NEW S, NEW s \in Seq(S)
  PROVE  /\ Elements(<<>>) = {}
         /\ \A r \in S : Elements(Append(s, r)) = Elements(s) \cup {r}
         /\ s # <<>> => /\ Elements(Tail(s)) \subseteq Elements(s)
                        /\ Head(s) \in Elements(s)
<1>1. Elements(<<>>) = {}
  BY DEF Elements
<1>2. ASSUME NEW r \in S PROVE Elements(Append(s, r)) = Elements(s) \cup {r}
  <2>1. /\ Len(Append(s, r)) = Len(s) + 1
        /\ \A i \in 1 .. Len(s) : Append(s, r)[i] = s[i]
        /\ Append(s, r)[Len(s) + 1] = r
        /\ Len(s) \in Nat
    BY <1>2
  <2>2. \A i \in 1 .. Len(s) + 1 : i \in 1 .. Len(s) \/ i = Len(s) + 1
    BY <2>1
  <2>3. Len(s) + 1 \in 1 .. Len(s) + 1 /\ 1 .. Len(s) \subseteq 1 .. Len(s) + 1
    BY <2>1
  <2> QED BY <2>1, <2>2, <2>3, Zenon DEF Elements
<1>3. ASSUME s # <<>>
      PROVE  Elements(Tail(s)) \subseteq Elements(s) /\ Head(s) \in Elements(s)
  <2>1. /\ Len(Tail(s)) = Len(s) - 1
        /\ \A i \in 1 .. Len(Tail(s)) : Tail(s)[i] = s[i + 1]
        /\ Len(s) \in Nat \ {0}
        /\ Head(s) = s[1]
    BY <1>3, HeadTailProperties, EmptySeq
  <2>2. \A i \in 1 .. Len(Tail(s)) : i + 1 \in 1 .. Len(s)
    BY <2>1
  <2>3. 1 \in 1 .. Len(s)
    BY <2>1
  <2> QED BY <2>1, <2>2, <2>3 DEF Elements
<1> QED BY <1>1, <1>2, <1>3

\* Of the requests of a worker that wakes up, none is about a task.
LEMMA WakeUpElements ==
  \A r \in Elements(WakeUpRequests) : r.op \in {"createAssign", "createWorker"}
BY DEF Elements, WakeUpRequests, Req

\* delete_assignment queues nothing.
LEMMA FinishQueue ==
  ASSUME TypeOK, NEW w \in Workers, FinishTask(w)
  PROVE  /\ cur[w] \in Tasks
         /\ Req("createStatus", cur[w]) \in Request
         /\ queue' = [queue EXCEPT ![w] =
                         Append(queue[w], Req("createStatus", cur[w]))]
<1>1. cur[w] \in Tasks
  BY DEF TypeOK, FinishTask
<1>2. w \in Procs /\ queue[w] \in Seq(Request)
  BY DEF TypeOK, Procs
<1>3. Append(queue[w], Req("createStatus", cur[w])) \in Seq(Request)
  BY <1>1, <1>2, RequestType
<1>4. Adelete([absolute |-> FALSE, task |-> cur[w]]) = <<>>
  BY RequestType
<1>5. Append(queue[w], Req("createStatus", cur[w])) \o <<>>
        = Append(queue[w], Req("createStatus", cur[w]))
  BY <1>3, ConcatEmptySeq
<1>6. queue' = [queue EXCEPT ![w] =
                  Append(queue[w], Req("createStatus", cur[w]))
                    \o Adelete([absolute |-> FALSE, task |-> cur[w]])]
  BY DEF FinishTask
<1>7. Req("createStatus", cur[w]) \in Request
  BY <1>1, RequestType
<1> QED BY <1>1, <1>4, <1>5, <1>6, <1>7

\* Where the requests in a queue and the lists on their way to a process come
\* from.
LEMMA QueueOrigin ==
  ASSUME TypeOK, [Next]_vars
  PROVE  /\ \A r \in Elements(queue'[Admin]) :
              \/ r \in Elements(queue[Admin])
              \/ r.op = "list"
              \/ SavePartition /\ r = Req("createTask", saved)
         /\ \A w \in Workers : \A r \in Elements(queue'[w]) :
              \/ r \in Elements(queue[w])
              \/ r.op \in {"createAssign", "createWorker", "list"}
              \/ FinishTask(w) /\ r = Req("createStatus", cur[w])
<1> DEFINE FromAdmin(r) == \/ r \in Elements(queue[Admin])
                           \/ r.op = "list"
                           \/ SavePartition /\ r = Req("createTask", saved)
           FromWorker(w, r) == \/ r \in Elements(queue[w])
                               \/ r.op \in {"createAssign", "createWorker", "list"}
                               \/ FinishTask(w) /\ r = Req("createStatus", cur[w])
           Goal == /\ \A r \in Elements(queue'[Admin]) : FromAdmin(r)
                   /\ \A w \in Workers : \A r \in Elements(queue'[w]) : FromWorker(w, r)
<1>p. /\ Admin \in Procs
      /\ \A w \in Workers : w \in Procs /\ w # Admin
      /\ \A p \in Procs : p = Admin \/ p \in Workers
      /\ \A p \in Procs : queue[p] \in Seq(Request)
      /\ queue \in [Procs -> Seq(Request)]
  BY ConstantsAssumption DEF Procs, TypeOK
<1>e. \A p \in Procs : /\ Elements(<<>>) = {}
                       /\ \A r \in Request : Elements(Append(queue[p], r))
                                               = Elements(queue[p]) \cup {r}
                       /\ queue[p] # <<>> =>
                            Elements(Tail(queue[p])) \subseteq Elements(queue[p])
  BY <1>p, ElementsUpdate
<1>l. Req("list", NoTask) \in Request /\ Req("list", NoTask).op = "list"
  BY RequestType DEF Req
<1>1. ASSUME NEW p \in Procs, NEW q, queue' = [queue EXCEPT ![p] = q],
             Elements(q) \subseteq Elements(queue[p])
      PROVE  Goal
  BY <1>1, <1>p
<1>2. ASSUME NEW p \in Procs,
             queue' = [queue EXCEPT ![p] = Append(@, Req("list", NoTask))]
      PROVE  Goal
  <2>1. \A r \in Elements(queue'[p]) : r \in Elements(queue[p]) \/ r.op = "list"
    BY <1>2, <1>p, <1>e, <1>l
  <2>2. \A x \in Procs : x # p => queue'[x] = queue[x]
    BY <1>2, <1>p
  <2> QED BY <2>1, <2>2, <1>p
<1>3. CASE SavePartition
  <2>1. Req("createTask", saved) \in Request
    BY <1>3, ConstantsAssumption, RequestType
    DEF SavePartition, MoreBatches, TypeOK, Tasks
  <2>2. /\ queue'[Admin] = Append(queue[Admin], Req("createTask", saved))
        /\ \A w \in Workers : queue'[w] = queue[w]
    BY <1>3, <1>p DEF SavePartition
  <2> QED BY <1>3, <2>1, <2>2, <1>p, <1>e
<1>4. ASSUME NEW w \in Workers, FinishTask(w) PROVE Goal
  <2>1. /\ queue'[w] = Append(queue[w], Req("createStatus", cur[w]))
        /\ \A x \in Procs : x # w => queue'[x] = queue[x]
        /\ Req("createStatus", cur[w]) \in Request
    BY <1>4, <1>p, FinishQueue
  <2>2. \A r \in Elements(queue'[w]) : FromWorker(w, r)
    BY <1>4, <2>1, <1>p, <1>e
  <2>3. \A x \in Procs : x # w => Elements(queue'[x]) = Elements(queue[x])
    BY <2>1
  <2> QED BY <2>2, <2>3, <1>p
<1>5. ASSUME NEW w \in Workers, WakeUp(w) PROVE Goal
  <2>1. queue'[w] = WakeUpRequests /\ \A x \in Procs : x # w => queue'[x] = queue[x]
    BY <1>5, <1>p DEF WakeUp
  <2> QED BY <2>1, <1>p, WakeUpElements
<1>6. ASSUME NEW p \in Procs,
             \/ queue' = [queue EXCEPT ![p] = <<>>]
             \/ queue[p] # <<>> /\ queue' = [queue EXCEPT ![p] = Tail(@)]
      PROVE  Goal
  <2>1. PICK q : queue' = [queue EXCEPT ![p] = q]
                 /\ Elements(q) \subseteq Elements(queue[p])
    BY <1>6, <1>e
  <2> QED BY <2>1, <1>1
<1>7. CASE UNCHANGED queue
  BY <1>7
<1>8. Goal
  <2>1. CASE AdminStep
    BY <2>1, <1>2, <1>3, <1>6, <1>7, <1>p
    DEF AdminStep, CreateBatches, Bye, WatchTasksStatus, Finish,
        StatusCompletion, AdminExpired, sessions
  <2>2. CASE RowLands \/ RowLost
    BY <2>2, <1>7 DEF RowLands, RowLost, sessions
  <2>3. ASSUME NEW p \in Procs, ServerStep(p) PROVE Goal
    BY <2>3, <1>6 DEF ServerStep, ServeWrite, ServeList, ConnectionLoss
  <2>4. ASSUME NEW t \in Tasks, NEW w \in Workers, MasterAssign(t, w) PROVE Goal
    BY <2>4, <1>7 DEF MasterAssign, sessions
  <2>5. ASSUME NEW w \in Workers, WorkerStep(w) PROVE Goal
    <3>1. CASE Gone(w)
      BY <3>1, <1>6, <1>p DEF Gone
    <3>2. CASE WatchZnode(w)
      BY <3>2, <1>2, <1>p DEF WatchZnode
    <3> QED BY <2>5, <3>1, <3>2, <1>4, <1>5, <1>7
          DEF WorkerStep, TasksCompletion, SkipTask, ReadPartition, QueryFails,
              BeginTask, ReKeyFile, Crash, WorkerExpired, sessions
  <2>6. CASE UNCHANGED vars
    BY <2>6, <1>7 DEF vars, sessions
  <2> QED BY <2>1, <2>2, <2>3, <2>4, <2>5, <2>6 DEF Next
<1> QED BY <1>8

\* An answer is one that was there or what the server lists now.
LEMMA RespOrigin ==
  ASSUME TypeOK, [Next]_vars, NEW p \in Procs
  PROVE  \A c \in Elements(resp'[p]) : c \in Elements(resp[p]) \/ c = Children(p)
<1> DEFINE Goal == \A c \in Elements(resp'[p]) :
                     c \in Elements(resp[p]) \/ c = Children(p)
<1>p. /\ Admin \in Procs
      /\ Workers \subseteq Procs
      /\ \A x \in Procs : resp[x] \in Seq(SUBSET Tasks)
      /\ resp \in [Procs -> Seq(SUBSET Tasks)]
  BY DEF Procs, TypeOK
<1>e. /\ Elements(<<>>) = {}
      /\ \A x \in Procs : resp[x] # <<>> =>
            Elements(Tail(resp[x])) \subseteq Elements(resp[x])
      /\ \A x \in Procs : \A c \in SUBSET Tasks :
            Elements(Append(resp[x], c)) = Elements(resp[x]) \cup {c}
  BY <1>p, ElementsUpdate
<1>1. ASSUME NEW x \in Procs, NEW q, resp' = [resp EXCEPT ![x] = q],
             Elements(q) \subseteq Elements(resp[x])
      PROVE  Goal
  BY <1>1, <1>p
<1>2. ASSUME NEW x \in Procs,
             \/ resp' = [resp EXCEPT ![x] = <<>>]
             \/ resp[x] # <<>> /\ resp' = [resp EXCEPT ![x] = Tail(@)]
      PROVE  Goal
  <2>1. PICK q : resp' = [resp EXCEPT ![x] = q]
                 /\ Elements(q) \subseteq Elements(resp[x])
    BY <1>2, <1>e
  <2> QED BY <2>1, <1>1
<1>3. ASSUME NEW x \in Procs, ServeList(x) PROVE Goal
  <2>1. Children(x) \in SUBSET Tasks
    BY DEF Children, TypeOK, Procs
  <2>2. resp' = [resp EXCEPT ![x] = Append(resp[x], Children(x))]
    BY <1>3 DEF ServeList
  <2>3. /\ Elements(resp'[x]) = Elements(resp[x]) \cup {Children(x)}
        /\ \A y \in Procs : y # x => resp'[y] = resp[y]
    BY <2>1, <2>2, <1>p, <1>e
  <2> QED BY <2>3
<1>4. CASE UNCHANGED resp
  BY <1>4
<1>5. CASE AdminStep
  BY <1>5, <1>2, <1>4, <1>p
  DEF AdminStep, CreateBatches, SavePartition, Bye, WatchTasksStatus, Finish,
      StatusCompletion, AdminExpired, sessions
<1>6. CASE RowLands \/ RowLost
  BY <1>6, <1>4 DEF RowLands, RowLost, sessions
<1>7. ASSUME NEW x \in Procs, ServerStep(x) PROVE Goal
  BY <1>7, <1>2, <1>3, <1>4 DEF ServerStep, ServeWrite, ConnectionLoss
<1>8. ASSUME NEW t \in Tasks, NEW w \in Workers, MasterAssign(t, w) PROVE Goal
  BY <1>8, <1>4 DEF MasterAssign, sessions
<1>9. ASSUME NEW w \in Workers, WorkerStep(w) PROVE Goal
  BY <1>9, <1>2, <1>4, <1>p
  DEF WorkerStep, WakeUp, WatchZnode, TasksCompletion, SkipTask, ReadPartition,
      QueryFails, BeginTask, ReKeyFile, FinishTask, Crash, WorkerExpired, Gone,
      sessions
<1>10. CASE UNCHANGED vars
  BY <1>10, <1>4 DEF vars, sessions
<1> QED BY <1>5, <1>6, <1>7, <1>8, <1>9, <1>10 DEF Next

\* No assignment disappears, and no status: nothing deletes a znode.
LEMMA ZnodesStay ==
  ASSUME TypeOK, ProtocolInv, [Next]_vars
  PROVE  /\ \A w \in Workers : assign[w] \subseteq assign'[w]
         /\ assign' = assign \/ \E t \in Tasks, w \in Workers : MasterAssign(t, w)
         /\ status \subseteq status'
<1> DEFINE Goal ==
      /\ \A w \in Workers : assign[w] \subseteq assign'[w]
      /\ assign' = assign \/ \E t \in Tasks, w \in Workers : MasterAssign(t, w)
      /\ status \subseteq status'
<1>1. ASSUME NEW p \in Procs, ServeWrite(p) PROVE Goal
  <2>1. Head(queue[p]) \in Elements(queue[p])
    BY <1>1, ElementsUpdate DEF ServeWrite, TypeOK
  <2>2. p \in Workers => Head(queue[p]).op # "deleteAssign"
    BY <2>1 DEF ProtocolInv
  <2>3. assign' = [w \in Workers |-> assign[w]]
    BY <1>1, <2>2 DEF ServeWrite, Target
  <2>4. assign' = assign
    BY <2>3 DEF TypeOK
  <2> QED BY <1>1, <2>4 DEF ServeWrite
<1>2. ASSUME NEW t \in Tasks, NEW w \in Workers, MasterAssign(t, w) PROVE Goal
  BY <1>2 DEF MasterAssign, TypeOK
<1>3. CASE UNCHANGED <<assign, status>>
  BY <1>3
<1>4. CASE AdminStep
  BY <1>4, <1>3
  DEF AdminStep, CreateBatches, SavePartition, Bye, WatchTasksStatus, Finish,
      StatusCompletion, AdminExpired, znodes
<1>5. CASE RowLands \/ RowLost
  BY <1>5, <1>3 DEF RowLands, RowLost, znodes
<1>6. ASSUME NEW p \in Procs, ServerStep(p) PROVE Goal
  BY <1>6, <1>1, <1>3 DEF ServerStep, ServeList, ConnectionLoss, znodes
<1>7. ASSUME NEW w \in Workers, WorkerStep(w) PROVE Goal
  BY <1>7, <1>3
  DEF WorkerStep, WakeUp, WatchZnode, TasksCompletion, SkipTask, ReadPartition,
      QueryFails, BeginTask, ReKeyFile, FinishTask, Crash, WorkerExpired, Gone,
      znodes
<1>8. CASE UNCHANGED vars
  BY <1>8, <1>3 DEF vars, znodes
<1> QED BY <1>2, <1>4, <1>5, <1>6, <1>7, <1>8 DEF Next

\* How a step can change what a worker has in its memory.
LEMMA WorkerMemory ==
  ASSUME TypeOK, [Next]_vars, NEW w \in Workers
  PROVE  \/ UNCHANGED <<live[w], todo[w], ongoing[w], cur[w], left[w]>>
         \/ live[w] = "off" /\ live'[w] = "up" /\
              UNCHANGED <<todo[w], ongoing[w], cur[w], left[w]>>
         \/ resp[w] # <<>> /\ todo'[w] = Head(resp[w]) /\
              UNCHANGED <<live[w], ongoing[w], cur[w], left[w]>>
         \/ todo'[w] \subseteq todo[w] /\
              UNCHANGED <<live[w], ongoing[w], cur[w], left[w]>>
         \/ \E t \in todo[w] :
              /\ ReadPartition(w, t) \/ QueryFails(w, t)
              /\ todo'[w] \subseteq todo[w]
              /\ ongoing'[w] = ongoing[w] \cup {t}
              /\ cur'[w] = t
              /\ UNCHANGED live[w]
         \/ \E f \in left[w] :
              /\ ReKeyFile(w, f)
              /\ UNCHANGED <<live[w], todo[w], ongoing[w], cur[w]>>
         \/ cur'[w] = NoTask /\ UNCHANGED <<live[w], todo[w], ongoing[w], left[w]>>
         \/ live'[w] = "dead" /\ todo'[w] = {} /\ ongoing'[w] = {}
              /\ cur'[w] = NoTask
<1>1. CASE UNCHANGED workerVars
  BY <1>1 DEF workerVars
<1>2. ASSUME NEW v \in Workers, WorkerStep(v), v # w
      PROVE  UNCHANGED <<live[w], todo[w], ongoing[w], cur[w], left[w]>>
  BY <1>2
  DEF WorkerStep, WakeUp, WatchZnode, TasksCompletion, SkipTask, ReadPartition,
      QueryFails, BeginTask, ReKeyFile, FinishTask, Crash, WorkerExpired, Gone,
      workerVars, TypeOK
<1>3. CASE WorkerStep(w)
  <2>1. CASE WakeUp(w)
    BY <2>1 DEF WakeUp, TypeOK
  <2>2. CASE WatchZnode(w)
    BY <2>2 DEF WatchZnode, workerVars
  <2>3. CASE TasksCompletion(w)
    BY <2>3 DEF TasksCompletion, TypeOK
  <2>4. ASSUME NEW t \in Tasks, SkipTask(w, t)
        PROVE  todo'[w] \subseteq todo[w] /\
               UNCHANGED <<live[w], ongoing[w], cur[w], left[w]>>
    BY <2>4 DEF SkipTask, TypeOK
  <2>5. ASSUME NEW t \in Tasks, ReadPartition(w, t) \/ QueryFails(w, t)
        PROVE  /\ t \in todo[w]
               /\ todo'[w] \subseteq todo[w]
               /\ ongoing'[w] = ongoing[w] \cup {t}
               /\ cur'[w] = t
               /\ UNCHANGED live[w]
    BY <2>5 DEF ReadPartition, QueryFails, BeginTask, TypeOK
  <2>6. ASSUME NEW f \in Files, ReKeyFile(w, f)
        PROVE  f \in left[w] /\ UNCHANGED <<live[w], todo[w], ongoing[w], cur[w]>>
    BY <2>6 DEF ReKeyFile
  <2>7. CASE FinishTask(w)
    BY <2>7 DEF FinishTask, TypeOK
  <2>8. CASE Crash(w) \/ WorkerExpired(w)
    BY <2>8 DEF Crash, WorkerExpired, Gone, TypeOK
  <2> QED BY <1>3, <2>1, <2>2, <2>3, <2>4, <2>5, <2>6, <2>7, <2>8
        DEF WorkerStep
<1>4. CASE AdminStep
  BY <1>4, <1>1
  DEF AdminStep, CreateBatches, SavePartition, Bye, WatchTasksStatus, Finish,
      StatusCompletion, AdminExpired
<1>5. CASE RowLands \/ RowLost
  BY <1>5, <1>1 DEF RowLands, RowLost
<1>6. ASSUME NEW p \in Procs, ServerStep(p) PROVE UNCHANGED workerVars
  BY <1>6 DEF ServerStep, ServeWrite, ServeList, ConnectionLoss
<1>7. ASSUME NEW t \in Tasks, NEW v \in Workers, MasterAssign(t, v)
      PROVE  UNCHANGED workerVars
  BY <1>7 DEF MasterAssign
<1>8. CASE UNCHANGED vars
  BY <1>8, <1>1 DEF vars
<1> QED BY <1>1, <1>2, <1>3, <1>4, <1>5, <1>6, <1>7, <1>8 DEF Next

-----------------------------------------------------------------------------
(* The parts of the inductive invariant.                                    *)

\* Workers keep to their mailboxes, and the admin to its tasks.
LEMMA ProtocolNext == TypeOK /\ ProtocolInv /\ [Next]_vars => ProtocolInv'
<1> SUFFICES ASSUME TypeOK, ProtocolInv, [Next]_vars PROVE ProtocolInv'
  OBVIOUS
<1>1. \A r \in Elements(queue'[Admin]) : r.op \in {"createTask", "list"}
  BY QueueOrigin DEF ProtocolInv, Req
<1>2. ASSUME NEW w \in Workers
      PROVE  /\ \A r \in Elements(queue'[w]) :
                   r.op \notin {"createTask", "deleteAssign"}
             /\ \A c \in Elements(resp'[w]) : c \subseteq assign'[w]
             /\ todo'[w] \subseteq assign'[w]
             /\ ongoing'[w] \subseteq assign'[w]
             /\ cur'[w] # NoTask => cur'[w] \in ongoing'[w]
  <2>1. w \in Procs /\ Children(w) = assign[w] /\ assign[w] \subseteq assign'[w]
    BY ConstantsAssumption, ZnodesStay DEF Procs, Children
  <2>2. \A r \in Elements(queue'[w]) : r.op \notin {"createTask", "deleteAssign"}
    BY QueueOrigin DEF ProtocolInv, Req
  <2>3. \A c \in Elements(resp'[w]) : c \subseteq assign'[w]
    BY <2>1, RespOrigin DEF ProtocolInv
  <2>4. resp[w] # <<>> => Head(resp[w]) \subseteq assign[w]
    BY <2>1, ElementsUpdate DEF ProtocolInv, TypeOK
  <2>5. /\ todo[w] \subseteq assign[w]
        /\ ongoing[w] \subseteq assign[w]
        /\ cur[w] # NoTask => cur[w] \in ongoing[w]
    BY DEF ProtocolInv
  <2>6. /\ todo'[w] \subseteq assign[w]
        /\ ongoing'[w] \subseteq assign[w]
        /\ cur'[w] # NoTask => cur'[w] \in ongoing'[w]
    BY <2>4, <2>5, WorkerMemory
  <2> QED BY <2>1, <2>2, <2>3, <2>6
<1> QED BY <1>1, <1>2 DEF ProtocolInv

\* Slices of equal size do not overlap.
LEMMA Slices ==
  ASSUME NEW B \in Nat, NEW x \in Nat, NEW y \in Nat, x < y
  PROVE  x * B + B <= y * B
<1>1. PICK d \in Nat : y = (x + 1) + d
  <2>1. y - (x + 1) \in Nat /\ y = (x + 1) + (y - (x + 1))
    OBVIOUS
  <2> QED BY <2>1
<1>2. ((x + 1) + d) * B = (x + 1) * B + d * B
  OBVIOUS
<1>3. (x + 1) * B = x * B + B
  OBVIOUS
<1>4. d * B \in Nat /\ x * B \in Nat /\ (x + 1) * B \in Nat
  OBVIOUS
<1>5. y * B = (x * B + B) + d * B
  BY <1>1, <1>2, <1>3
<1> HIDE <1>1, <1>2, <1>3
<1> QED BY <1>4, <1>5

\* The batches are disjoint: the integer division leaves files out, but puts
\* none into two batches.
LEMMA BatchesDisjoint ==
  ASSUME NEW i \in Tasks, NEW j \in Tasks, NEW f \in Batch(i), f \in Batch(j)
  PROVE  i = j
<1>1. BatchSize(NFiles) \in Nat
  BY ConstantsAssumption DEF BatchSize
<1>2. PICK B \in Nat : B = BatchSize(NFiles)
  BY <1>1
<1>3. i \in Nat /\ j \in Nat
  BY ConstantsAssumption DEF Tasks
<1>4. /\ i * B <= f /\ f < i * B + B
      /\ j * B <= f /\ f < j * B + B
      /\ f \in Int
  BY <1>2, ConstantsAssumption DEF Batch, BatchFiles
<1>5. i * B \in Int /\ j * B \in Int
  BY <1>2, <1>3
<1>6. ~ (i < j)
  <2> SUFFICES ASSUME i < j PROVE FALSE
    OBVIOUS
  <2>1. i * B + B <= j * B
    BY <1>2, <1>3, Slices
  <2> QED BY <2>1, <1>2, <1>4, <1>5
<1>7. ~ (j < i)
  <2> SUFFICES ASSUME j < i PROVE FALSE
    OBVIOUS
  <2>1. j * B + B <= i * B
    BY <1>2, <1>3, Slices
  <2> QED BY <2>1, <1>2, <1>4, <1>5
<1> QED BY <1>3, <1>6, <1>7

\* The rows are those of the batches so far, while none is lost.
LEMMA RowsNext ==
  ASSUME Faults \cap {"insert", "files", "truncate"} = {},
         TypeOK, RowsInv, [Next]_vars
  PROVE  RowsInv'
<1> USE ConstantsAssumption
<1>1. CASE CreateBatches
  <2>1. {r \in Tasks \X Files : r[1] < 0 /\ r[2] \in Batch(r[1])} = {}
    BY DEF Tasks
  <2>2. /\ adminPc' = "create" /\ part' = {} /\ inflight' = {} /\ saved' = 0
        /\ found' = NFiles
    BY <1>1 DEF CreateBatches, get_all_files, ClearPartitions, RowsInv
  <2> QED BY <2>1, <2>2 DEF RowsInv, Started
<1>2. CASE SavePartition
  <2>1. saved \in Tasks
    BY <1>2 DEF SavePartition, MoreBatches, Tasks, TypeOK
  <2>2. /\ adminPc = "create" /\ adminPc' = "create" /\ part' = part
        /\ inflight' = inflight \cup { <<saved, f>> : f \in Batch(saved) }
        /\ saved' = saved + 1 /\ found' = found /\ found = NFiles
    BY <1>2 DEF SavePartition, RowsInv, Batch
  <2>3. {r \in Tasks \X Files : r[1] < saved + 1 /\ r[2] \in Batch(r[1])}
          = {r \in Tasks \X Files : r[1] < saved /\ r[2] \in Batch(r[1])}
              \cup { <<saved, f>> : f \in Batch(saved) }
    <3>1. \A t \in Tasks : t < saved + 1 <=> t < saved \/ t = saved
      BY <2>1 DEF Tasks
    <3>2. { <<saved, f>> : f \in Batch(saved) }
            = {r \in Tasks \X Files : r[1] = saved /\ r[2] \in Batch(r[1])}
      BY <2>1, BatchesAreFiles
    <3> QED BY <3>1, <3>2
  <2> QED BY <2>2, <2>3 DEF RowsInv, Started
<1>3. CASE Bye
  <2>1. /\ adminPc = "create" /\ adminPc' = "watch" /\ saved = BatchCount
        /\ inflight = {} /\ inflight' = inflight /\ part' = part
        /\ found' = found /\ found = NFiles
    BY <1>3 DEF Bye, InsertsAwaited, cassVars, RowsInv
  <2>2. \A t \in Tasks : t < saved
    BY <2>1 DEF Tasks
  <2>3. part = {r \in Tasks \X Files : r[2] \in Batch(r[1])}
    BY <2>1, <2>2 DEF RowsInv
  <2> QED BY <2>1, <2>3 DEF RowsInv, RowsOf, Files, Batch, Started
<1>4. CASE RowLands
  <2>1. PICK r \in inflight : inflight' = inflight \ {r} /\ part' = part \cup {r}
    BY <1>4 DEF RowLands
  <2>2. /\ adminPc = "create" /\ adminPc' = adminPc /\ saved' = saved
        /\ found' = found /\ found = NFiles
    BY <1>4, <2>1 DEF RowLands, RowsInv, Started, TypeOK, adminVars
  <2>3. part' \cup inflight' = part \cup inflight
    BY <2>1
  <2> QED BY <2>2, <2>3 DEF RowsInv, Started
<1>5. CASE RowLost
  BY <1>5 DEF RowLost
<1>6. CASE UNCHANGED <<part, inflight, saved, adminPc, found>>
  BY <1>6 DEF RowsInv, Started
<1>7. CASE Finish \/ AdminExpired
  BY <1>7 DEF Finish, AdminExpired, cassVars, RowsInv, Started
<1>8. CASE WatchTasksStatus \/ StatusCompletion
  BY <1>8, <1>6 DEF WatchTasksStatus, StatusCompletion, adminVars, cassVars
<1>9. ASSUME NEW p \in Procs, ServerStep(p) PROVE RowsInv'
  BY <1>9, <1>6
  DEF ServerStep, ServeWrite, ServeList, ConnectionLoss, adminVars, cassVars
<1>10. ASSUME NEW t \in Tasks, NEW w \in Workers, MasterAssign(t, w)
       PROVE  RowsInv'
  BY <1>10, <1>6 DEF MasterAssign, adminVars, cassVars
<1>11. ASSUME NEW w \in Workers, WorkerStep(w) PROVE RowsInv'
  BY <1>11, <1>6
  DEF WorkerStep, WakeUp, WatchZnode, TasksCompletion, SkipTask, ReadPartition,
      QueryFails, BeginTask, ReKeyFile, FinishTask, Crash, WorkerExpired, Gone,
      adminVars, cassVars
<1>12. CASE UNCHANGED vars
  BY <1>12, <1>6 DEF vars, adminVars, cassVars
<1> QED
  BY <1>1, <1>2, <1>3, <1>4, <1>5, <1>7, <1>8, <1>9, <1>10, <1>11, <1>12
  DEF Next, AdminStep

\* Appending a request to, and serving one of, a queue whose task creations
\* are all different.
LEMMA UniqueUpdate ==
  ASSUME NEW S, NEW s \in Seq(S), UniqueCreates(s)
  PROVE  /\ UniqueCreates(<<>>)
         /\ \A r \in S : r \notin Elements(s) \/ r.op # "createTask"
                          => UniqueCreates(Append(s, r))
         /\ s # <<>> => /\ UniqueCreates(Tail(s))
                        /\ Head(s).op = "createTask" =>
                             Head(s) \notin Elements(Tail(s))
<1>1. UniqueCreates(<<>>)
  BY DEF UniqueCreates
<1>2. ASSUME NEW r \in S, r \notin Elements(s) \/ r.op # "createTask"
      PROVE  UniqueCreates(Append(s, r))
  <2>1. /\ Len(Append(s, r)) = Len(s) + 1
        /\ \A i \in 1 .. Len(s) : Append(s, r)[i] = s[i]
        /\ Append(s, r)[Len(s) + 1] = r
        /\ Len(s) \in Nat
    OBVIOUS
  <2>2. \A i \in 1 .. Len(s) + 1 : i \in 1 .. Len(s) \/ i = Len(s) + 1
    BY <2>1
  <2>3. \A i \in 1 .. Len(s) : s[i] = r => r.op # "createTask"
    BY <1>2 DEF Elements
  <2> QED BY <2>1, <2>2, <2>3 DEF UniqueCreates
<1>3. ASSUME s # <<>>
      PROVE  /\ UniqueCreates(Tail(s))
             /\ Head(s).op = "createTask" => Head(s) \notin Elements(Tail(s))
  <2>1. /\ Len(Tail(s)) = Len(s) - 1
        /\ \A i \in 1 .. Len(Tail(s)) : Tail(s)[i] = s[i + 1]
        /\ Len(s) \in Nat \ {0}
        /\ Head(s) = s[1]
    BY <1>3, HeadTailProperties, EmptySeq
  <2>2. \A i \in 1 .. Len(Tail(s)) : i \in Nat /\ i # 0 /\ i + 1 \in 1 .. Len(s)
    BY <2>1
  <2>3. 1 \in 1 .. Len(s)
    BY <2>1
  <2>4. UniqueCreates(Tail(s))
    BY <2>1, <2>2 DEF UniqueCreates
  <2>5. ASSUME NEW i \in 1 .. Len(Tail(s)), Head(s).op = "createTask",
               Head(s) = Tail(s)[i]
        PROVE  FALSE
    <3>1. s[1] = s[i + 1] /\ s[1].op = "createTask" /\ i + 1 # 1
      BY <2>1, <2>2, <2>5
    <3> QED BY <3>1, <2>2, <2>3 DEF UniqueCreates
  <2> QED BY <2>4, <2>5 DEF Elements
<1> QED BY <1>1, <1>2, <1>3

\* A creation of a task that is on its way names a task that is nowhere else.
LEMMA PlacesNext ==
  ASSUME TypeOK, ProtocolInv, PlacesInv, [Next]_vars
  PROVE  PlacesInv'
<1>p. /\ Admin \in Procs
      /\ \A w \in Workers : w \in Procs /\ w # Admin
      /\ \A p \in Procs : p = Admin \/ p \in Workers
      /\ queue \in [Procs -> Seq(Request)]
      /\ queue[Admin] \in Seq(Request)
      /\ saved \in Int
      /\ \A t \in Tasks : t \in Int
  BY ConstantsAssumption DEF Procs, TypeOK, Tasks
<1>u. /\ UniqueCreates(queue[Admin])
      /\ UniqueCreates(<<>>)
      /\ \A r \in Request : r.op # "createTask" =>
           UniqueCreates(Append(queue[Admin], r))
      /\ queue[Admin] # <<>> => UniqueCreates(Tail(queue[Admin]))
  BY <1>p, UniqueUpdate DEF PlacesInv
<1>1. ASSUME UNCHANGED <<tasks, assign, saved>>,
             Started => Started',
             UniqueCreates(queue'[Admin]),
             \A r \in Elements(queue'[Admin]) :
               r.op = "createTask" => r \in Elements(queue[Admin])
      PROVE  PlacesInv'
  BY <1>1 DEF PlacesInv
<1>2. CASE SavePartition
  <2> DEFINE new == Req("createTask", saved)
  <2>1. /\ saved \in Tasks /\ ~ Started
        /\ saved' = saved + 1
        /\ UNCHANGED <<tasks, assign, adminPc>>
        /\ queue'[Admin] = Append(queue[Admin], new)
    <3>1. saved \in Tasks
      BY <1>2, ConstantsAssumption DEF SavePartition, MoreBatches, TypeOK, Tasks
    <3>2. queue' = [queue EXCEPT ![Admin] = Append(@, new)]
      BY <1>2 DEF SavePartition
    <3> QED BY <1>2, <3>1, <3>2, <1>p DEF SavePartition, Started, znodes
  <2>2. new \in Request /\ new.op = "createTask" /\ new.task = saved
    BY <2>1, RequestType DEF Req
  <2>3. tasks = {} /\ \A w \in Workers : assign[w] = {}
    BY <2>1 DEF PlacesInv
  <2>4. \A r \in Elements(queue[Admin]) : r.op = "createTask" => r.task < saved
    BY DEF PlacesInv
  <2>5. new \notin Elements(queue[Admin])
    BY <2>2, <2>4, <1>p
  <2>6. UniqueCreates(queue'[Admin])
    BY <2>1, <2>2, <2>5, <1>p, <1>u, UniqueUpdate
  <2>7. Elements(queue'[Admin]) = Elements(queue[Admin]) \cup {new}
    BY <2>1, <2>2, <1>p, ElementsUpdate
  <2>8. \A r \in Elements(queue'[Admin]) : r.op = "createTask" =>
          r.task \in Int /\ r.task < saved + 1
    <3>1. \A r \in Elements(queue[Admin]) : r.op = "createTask" => r.task \in Tasks
      BY <1>p DEF Elements, Request
    <3> QED BY <3>1, <2>2, <2>4, <2>7, <1>p
  <2>9. ~ Started'
    BY <2>1 DEF Started
  <2> QED BY <2>1, <2>3, <2>6, <2>8, <2>9 DEF PlacesInv
<1>3. ASSUME NEW p \in Procs, ServeWrite(p) PROVE PlacesInv'
  <2> DEFINE r == Head(queue[p])
  <2>1. /\ queue[p] # <<>> /\ r \in Request /\ r \in Elements(queue[p])
        /\ queue' = [queue EXCEPT ![p] = Tail(@)]
        /\ tasks' = tasks \cup Target(r, "createTask")
        /\ UNCHANGED <<adminPc, saved>>
    BY <1>3, <1>p, HeadTailProperties, ElementsUpdate DEF ServeWrite, adminVars
  <2>2. UNCHANGED assign
    <3>1. p \in Workers => r.op # "deleteAssign"
      BY <2>1 DEF ProtocolInv
    <3>2. assign' = [w \in Workers |-> assign[w]]
      BY <1>3, <3>1 DEF ServeWrite, Target
    <3> QED BY <3>2 DEF TypeOK
  <2>3. CASE p \in Workers
    <3>1. tasks' = tasks
      BY <2>1, <2>3 DEF ProtocolInv, Target
    <3>2. queue'[Admin] = queue[Admin]
      BY <2>1, <2>3, <1>p
    <3> QED BY <3>1, <3>2, <2>1, <2>2, <1>u, <1>1 DEF Started
  <2>4. CASE p = Admin
    <3>1. r.op = "createTask"
      BY <1>3, <2>1, <2>4 DEF ProtocolInv, ServeWrite
    <3>2. tasks' = tasks \cup {r.task}
      BY <2>1, <3>1 DEF Target
    <3>3. /\ queue'[Admin] = Tail(queue[Admin])
          /\ UniqueCreates(queue'[Admin])
          /\ Elements(queue'[Admin]) \subseteq Elements(queue[Admin])
          /\ r \notin Elements(queue'[Admin])
      BY <2>1, <2>4, <3>1, <1>p, <1>u, UniqueUpdate, ElementsUpdate
    <3>4. Elements(queue'[Admin]) \subseteq Request
      BY <3>3, <1>p DEF Elements
    <3>5. \A x \in Request : x.op = "createTask" /\ x # r => x.task # r.task
      BY <2>1, <3>1 DEF Request
    <3>6. ASSUME NEW x \in Elements(queue'[Admin]), x.op = "createTask"
          PROVE  /\ x.task < saved /\ x.task \notin tasks'
                 /\ \A w \in Workers : x.task \notin assign[w]
      <4>1. /\ x.task < saved /\ x.task \notin tasks
            /\ \A w \in Workers : x.task \notin assign[w]
        BY <3>3, <3>6 DEF PlacesInv
      <4> QED BY <4>1, <3>2, <3>3, <3>4, <3>5, <3>6
    <3>7. Started'
      BY <1>3, <2>1, <2>4 DEF ServeWrite, Connected, Started
    <3>8. r.task < saved /\ \A w \in Workers : r.task \notin assign[w]
      BY <2>1, <2>4, <3>1 DEF PlacesInv
    <3> QED BY <2>1, <2>2, <3>2, <3>3, <3>6, <3>7, <3>8 DEF PlacesInv
  <2> QED BY <2>3, <2>4, <1>p
<1>4. ASSUME NEW t \in Tasks, NEW w \in Workers, MasterAssign(t, w)
      PROVE  PlacesInv'
  <2>1. /\ t \in tasks /\ tasks' = tasks \ {t}
        /\ assign' = [assign EXCEPT ![w] = @ \cup {t}]
        /\ UNCHANGED <<adminPc, saved, queue>>
    BY <1>4 DEF MasterAssign, adminVars, sessions
  <2>2. /\ \A v \in Workers : t \notin assign[v]
        /\ t < saved /\ Started
    BY <2>1 DEF PlacesInv
  <2>3. \A v \in Workers : assign'[v] = IF v = w THEN assign[w] \cup {t} ELSE assign[v]
    BY <2>1 DEF TypeOK
  <2>4. Started'
    BY <2>1, <2>2 DEF Started
  <2> QED BY <2>1, <2>2, <2>3, <2>4 DEF PlacesInv
<1>5. ASSUME NEW p \in Procs,
             \/ queue' = [queue EXCEPT ![p] = <<>>]
             \/ queue[p] # <<>> /\ queue' = [queue EXCEPT ![p] = Tail(@)]
             \/ queue' = [queue EXCEPT ![p] = Append(@, Req("list", NoTask))]
      PROVE  UniqueCreates(queue'[Admin])
  <2>1. Req("list", NoTask) \in Request /\ Req("list", NoTask).op # "createTask"
    BY RequestType DEF Req
  <2> QED BY <1>5, <1>p, <1>u, <2>1
<1>6. \A r \in Elements(queue'[Admin]) : r.op = "createTask" =>
        r \in Elements(queue[Admin]) \/ SavePartition
  BY QueueOrigin DEF Req
<1>7. CASE /\ ~ SavePartition
           /\ Started => Started'
           /\ UNCHANGED <<tasks, assign, saved>>
           /\ UniqueCreates(queue'[Admin])
  BY <1>1, <1>6, <1>7
<1>8. CASE CreateBatches \/ Bye
  BY <1>8, <1>7, <1>u
  DEF CreateBatches, Bye, SavePartition, Started, znodes, sessions
<1>9. CASE WatchTasksStatus \/ Finish \/ StatusCompletion \/ AdminExpired
  BY <1>9, <1>5, <1>7, <1>p, <1>u
  DEF WatchTasksStatus, Finish, StatusCompletion, AdminExpired, SavePartition,
      Started, adminVars, znodes
<1>10. CASE RowLands \/ RowLost
  <2>1. UNCHANGED <<adminPc, saved, tasks, assign, queue>>
    BY <1>10 DEF RowLands, RowLost, adminVars, znodes, sessions
  <2> QED BY <2>1, <1>u, <1>1 DEF Started
<1>11. ASSUME NEW p \in Procs, ServeList(p) \/ ConnectionLoss(p) PROVE PlacesInv'
  <2>1. UNCHANGED <<adminPc, saved, tasks, assign>>
    BY <1>11 DEF ServeList, ConnectionLoss, adminVars, znodes
  <2>2. UniqueCreates(queue'[Admin])
    BY <1>11, <1>5 DEF ServeList, ConnectionLoss
  <2>3. ~ SavePartition
    BY <2>1, <1>p DEF SavePartition
  <2> QED BY <2>1, <2>2, <2>3, <1>7 DEF Started
<1>12. ASSUME NEW w \in Workers, WorkerStep(w) PROVE PlacesInv'
  <2>1. UNCHANGED <<adminPc, saved, tasks, assign>>
    BY <1>12
    DEF WorkerStep, WakeUp, WatchZnode, TasksCompletion, SkipTask, ReadPartition,
        QueryFails, BeginTask, ReKeyFile, FinishTask, Crash, WorkerExpired, Gone,
        adminVars, znodes
  <2>2. queue'[Admin] = queue[Admin]
    <3>1. FinishTask(w) => queue'[Admin] = queue[Admin]
      BY <1>p, FinishQueue
    <3> QED BY <1>12, <1>p, <3>1
        DEF WorkerStep, WakeUp, WatchZnode, TasksCompletion, SkipTask,
            ReadPartition, QueryFails, BeginTask, ReKeyFile, Crash,
            WorkerExpired, Gone, sessions
  <2> QED BY <2>1, <2>2, <1>u, <1>1 DEF Started
<1>13. CASE UNCHANGED vars
  <2>1. UNCHANGED <<adminPc, saved, tasks, assign, queue>>
    BY <1>13 DEF vars, adminVars, znodes, sessions
  <2> QED BY <2>1, <1>u, <1>1 DEF Started
<1> QED
  BY <1>2, <1>3, <1>4, <1>8, <1>9, <1>10, <1>11, <1>12, <1>13
  DEF Next, AdminStep, ServerStep

\* Only ReKeyFile touches a file.
LEMMA ReKeyedOnlyByReKeyFile ==
  ASSUME [Next]_vars
  PROVE  \/ UNCHANGED rekeyed
         \/ \E w \in Workers, f \in Files : ReKeyFile(w, f)
<1>1. CASE AdminStep
  BY <1>1
  DEF AdminStep, CreateBatches, SavePartition, Bye, WatchTasksStatus, Finish,
      StatusCompletion, AdminExpired
<1>2. CASE RowLands \/ RowLost
  BY <1>2 DEF RowLands, RowLost
<1>3. ASSUME NEW p \in Procs, ServerStep(p) PROVE UNCHANGED rekeyed
  BY <1>3 DEF ServerStep, ServeWrite, ServeList, ConnectionLoss
<1>4. ASSUME NEW t \in Tasks, NEW w \in Workers, MasterAssign(t, w)
      PROVE  UNCHANGED rekeyed
  BY <1>4 DEF MasterAssign
<1>5. ASSUME NEW w \in Workers, WorkerStep(w)
      PROVE  UNCHANGED rekeyed \/ \E f \in Files : ReKeyFile(w, f)
  BY <1>5
  DEF WorkerStep, WakeUp, WatchZnode, TasksCompletion, SkipTask, ReadPartition,
      QueryFails, BeginTask, FinishTask, Crash, WorkerExpired, Gone
<1>6. CASE UNCHANGED vars
  BY <1>6 DEF vars
<1> QED BY <1>1, <1>2, <1>3, <1>4, <1>5, <1>6 DEF Next

\* A worker that re-keys a file is in the batch the file belongs to, and the
\* file is at its first re-key.
LEMMA CountsReKeyFile ==
  ASSUME TypeOK, ProtocolInv, PlacesInv, CountsInv,
         NEW w \in Workers, NEW f \in Files, ReKeyFile(w, f)
  PROVE  CountsInv'
<1>1. /\ live[w] = "up" /\ cur[w] \in Tasks /\ f \in left[w]
      /\ left' = [left EXCEPT ![w] = @ \ {f}]
      /\ rekeyed' = [rekeyed EXCEPT ![f] = @ + 1]
      /\ UNCHANGED <<assign, live, ongoing, cur>>
  BY DEF ReKeyFile, TypeOK, znodes
<1>2. f \in Batch(cur[w]) /\ rekeyed[f] = 0
  BY <1>1 DEF CountsInv, ReKeyFile
<1>3. /\ rekeyed'[f] = 1
      /\ \A g \in Files : g # f => rekeyed'[g] = rekeyed[g]
  BY <1>1, <1>2 DEF TypeOK
<1>4. ASSUME NEW t \in Tasks, t # cur[w]
      PROVE  \A g \in Batch(t) : g \in Files /\ rekeyed'[g] = rekeyed[g]
  BY <1>1, <1>2, <1>3, <1>4, BatchesDisjoint, BatchesAreFiles
<1>5. cur[w] \in ongoing[w] /\ cur[w] \in assign[w]
  BY <1>1 DEF ProtocolInv, ReKeyFile
<1>6. \A v \in Workers : v # w => cur[w] \notin assign[v]
  BY <1>5 DEF PlacesInv
<1>7. ASSUME NEW t \in Tasks, \A v \in Workers : t \notin assign'[v],
             NEW g \in Batch(t)
      PROVE  rekeyed'[g] = 0
  <2>1. t # cur[w] /\ rekeyed[g] = 0
    BY <1>1, <1>5, <1>7 DEF CountsInv
  <2> QED BY <2>1, <1>4
<1>8. ASSUME NEW v \in Workers, live'[v] # "dead",
             NEW t \in assign'[v] \ ongoing'[v], NEW g \in Batch(t)
      PROVE  rekeyed'[g] = 0
  <2>1. t \in Tasks /\ t # cur[w] /\ rekeyed[g] = 0
    BY <1>1, <1>5, <1>6, <1>8 DEF CountsInv, TypeOK
  <2> QED BY <2>1, <1>4
<1>9. ASSUME NEW v \in Workers, cur'[v] # NoTask
      PROVE  /\ live'[v] # "dead"
             /\ left'[v] \subseteq Batch(cur'[v])
             /\ \A g \in left'[v] : rekeyed'[g] = 0
             /\ \A g \in Batch(cur'[v]) \ left'[v] : rekeyed'[g] = 1
  <2>1. /\ cur'[v] = cur[v] /\ cur[v] # NoTask /\ cur[v] \in Tasks
        /\ live[v] # "dead"
        /\ left[v] \subseteq Batch(cur[v])
        /\ \A g \in left[v] : rekeyed[g] = 0
        /\ \A g \in Batch(cur[v]) \ left[v] : rekeyed[g] = 1
    BY <1>1, <1>9 DEF CountsInv, TypeOK
  <2>2. CASE v = w
    <3>1. left'[v] = left[v] \ {f}
      BY <1>1, <2>2 DEF TypeOK
    <3>2. \A g \in Batch(cur[v]) : g \in Files
      BY <2>1, BatchesAreFiles
    <3> QED BY <1>1, <1>3, <2>1, <3>1, <3>2
  <2>3. CASE v # w
    <3>1. left'[v] = left[v]
      BY <1>1, <2>3 DEF TypeOK
    <3>2. cur[v] # cur[w]
      BY <1>6, <2>1, <2>3 DEF ProtocolInv
    <3>3. \A g \in Batch(cur[v]) : rekeyed'[g] = rekeyed[g]
      BY <1>4, <2>1, <3>2
    <3> QED BY <1>1, <2>1, <3>1, <3>3
  <2> QED BY <2>2, <2>3
<1>10. NoDoubleReKey'
  BY <1>3 DEF NoDoubleReKey, CountsInv
<1> QED BY <1>7, <1>8, <1>9, <1>10 DEF CountsInv

\* Files of a batch are re-keyed one by one, by the worker that has it.
LEMMA CountsNext ==
  ASSUME StoreReliable, TypeOK, RowsInv, ProtocolInv, PlacesInv, CountsInv,
         [Next]_vars
  PROVE  CountsInv'
<1>1. CASE \E w \in Workers, f \in Files : ReKeyFile(w, f)
  BY <1>1, CountsReKeyFile
<1>2. CASE UNCHANGED rekeyed
  <2>1. ASSUME NEW w \in Workers, NEW f \in left[w]
        PROVE  ~ ReKeyFile(w, f)
    BY <1>2, <2>1 DEF ReKeyFile, TypeOK
  <2>2. ASSUME NEW t \in Tasks, \A w \in Workers : t \notin assign'[w],
               NEW f \in Batch(t)
        PROVE  rekeyed'[f] = 0
    <3>1. \A w \in Workers : t \notin assign[w]
      BY <2>2, ZnodesStay
    <3> QED BY <1>2, <2>2, <3>1 DEF CountsInv
  <2>3. ASSUME NEW w \in Workers, live'[w] # "dead",
               NEW t \in assign'[w] \ ongoing'[w], NEW f \in Batch(t)
        PROVE  rekeyed'[f] = 0
    <3>1. live[w] # "dead" /\ ongoing[w] \subseteq ongoing'[w]
      BY <2>1, <2>3, WorkerMemory
    <3>2. CASE t \in assign[w]
      BY <1>2, <2>3, <3>1, <3>2 DEF CountsInv
    <3>3. CASE t \notin assign[w]
      <4>1. PICK s \in Tasks, v \in Workers : MasterAssign(s, v)
        BY <2>3, <3>3, ZnodesStay
      <4>2. s = t /\ t \in tasks
        BY <2>3, <3>3, <4>1 DEF MasterAssign, TypeOK
      <4>3. \A u \in Workers : t \notin assign[u]
        BY <4>2 DEF PlacesInv
      <4> QED BY <1>2, <2>3, <4>2, <4>3 DEF CountsInv, TypeOK
    <3> QED BY <3>2, <3>3
  <2>4. ASSUME NEW w \in Workers, cur'[w] # NoTask
        PROVE  /\ live'[w] # "dead"
               /\ left'[w] \subseteq Batch(cur'[w])
               /\ \A f \in left'[w] : rekeyed'[f] = 0
               /\ \A f \in Batch(cur'[w]) \ left'[w] : rekeyed'[f] = 1
    <3>1. CASE /\ live'[w] = live[w] \/ live'[w] = "up"
               /\ UNCHANGED <<cur[w], left[w]>>
      BY <1>2, <2>4, <3>1 DEF CountsInv
    <3>2. ASSUME NEW t \in todo[w], ReadPartition(w, t) \/ QueryFails(w, t),
                 cur'[w] = t, live'[w] = live[w]
          PROVE  /\ live'[w] # "dead"
                 /\ left'[w] = Batch(t)
                 /\ \A f \in Batch(t) : rekeyed[f] = 0
      <4>1. ReadPartition(w, t)
        BY <3>2 DEF QueryFails, StoreReliable, StoreFaults
      <4>2. /\ live[w] = "up" /\ t \notin ongoing[w]
            /\ left'[w] = Partition(t)
        BY <4>1 DEF ReadPartition, BeginTask, Between, OnGoing, TypeOK
      <4>3. t \in assign[w] /\ t \in Tasks
        BY <3>2 DEF ProtocolInv, TypeOK
      <4>4. part = RowsOf(NFiles)
        BY <4>3 DEF PlacesInv, RowsInv
      <4>5. Partition(t) = Batch(t)
        <5>1. \A f \in Files : <<t, f>> \in part <=> f \in Batch(t)
          BY <4>3, <4>4 DEF RowsOf, Files, Batch
        <5> QED BY <4>3, <5>1, BatchesAreFiles DEF Partition
      <4>6. \A f \in Batch(t) : rekeyed[f] = 0
        BY <4>2, <4>3 DEF CountsInv
      <4> QED BY <3>2, <4>2, <4>5, <4>6
    <3>3. \/ /\ live'[w] = live[w] \/ live'[w] = "up"
             /\ UNCHANGED <<cur[w], left[w]>>
          \/ \E t \in todo[w] : /\ ReadPartition(w, t) \/ QueryFails(w, t)
                                /\ cur'[w] = t
                                /\ live'[w] = live[w]
      BY <2>1, <2>4, WorkerMemory
    <3> QED BY <1>2, <2>4, <3>1, <3>2, <3>3
  <2> QED BY <1>2, <2>2, <2>3, <2>4 DEF CountsInv, NoDoubleReKey
<1> QED BY <1>1, <1>2, ReKeyedOnlyByReKeyFile

\* A batch that is done stays done: counts only grow.
LEMMA DoneStays ==
  ASSUME TypeOK, [Next]_vars, NEW t \in Tasks, Done(t) PROVE Done(t)'
<1>1. ASSUME NEW f \in Files PROVE rekeyed'[f] >= rekeyed[f] /\ rekeyed[f] \in Nat
  <2>1. \/ UNCHANGED rekeyed
        \/ \E g \in Files : rekeyed' = [rekeyed EXCEPT ![g] = @ + 1]
    BY ReKeyedOnlyByReKeyFile DEF ReKeyFile
  <2>2. rekeyed[f] \in Nat /\ rekeyed \in [Files -> Nat]
    BY DEF TypeOK
  <2>3. ASSUME NEW g \in Files, rekeyed' = [rekeyed EXCEPT ![g] = @ + 1]
        PROVE  rekeyed'[f] = IF f = g THEN rekeyed[f] + 1 ELSE rekeyed[f]
    BY <2>2, <2>3
  <2> QED BY <2>1, <2>2, <2>3
<1>2. ASSUME NEW f \in Batch(t) PROVE rekeyed'[f] > 0
  <2>1. f \in Files /\ rekeyed[f] > 0
    BY <1>2, BatchesAreFiles DEF Done
  <2>2. rekeyed' \in [Files -> Nat]
    BY TypeNext DEF TypeOK
  <2> QED BY <1>1, <2>1, <2>2
<1> QED BY <1>2 DEF Done

\* The admin's count of finished tasks reaches the number of batches only
\* with all of them.
LEMMA AllTasks ==
  ASSUME statusDone \subseteq Tasks, AllTasksDone PROVE statusDone = Tasks
<1>1. IsFiniteSet(Tasks) /\ Cardinality(Tasks) = BatchCount
  BY ConstantsAssumption, FS_Interval DEF Tasks
<1> QED BY <1>1, FS_Subset DEF AllTasksDone

\* A report, from its request to the admin's set of names, is of a done batch.
LEMMA ReportNext ==
  ASSUME TypeOK, ProtocolInv, WorkedInv, ReportInv, [Next]_vars
  PROVE  ReportInv'
<1>p. /\ Admin \in Procs
      /\ \A w \in Workers : w \in Procs
      /\ \A p \in Procs : p = Admin \/ p \in Workers
      /\ Children(Admin) = status
      /\ \A p \in Procs : queue[p] \in Seq(Request) /\ resp[p] \in Seq(SUBSET Tasks)
  BY DEF Procs, TypeOK, Children
<1>1. ASSUME NEW w \in Workers, NEW r \in Elements(queue'[w]),
             r.op = "createStatus"
      PROVE  Done(r.task)'
  <2>1. CASE r \in Elements(queue[w])
    <3>1. r \in Request
      BY <1>p, <2>1 DEF Elements
    <3>2. r.task \in Tasks
      BY <1>1, <3>1 DEF Request
    <3> QED BY <1>1, <2>1, <3>2, DoneStays DEF ReportInv
  <2>2. CASE FinishTask(w) /\ r = Req("createStatus", cur[w])
    <3>1. cur[w] \in Tasks /\ cur[w] # NoTask /\ left[w] = {} /\ r.task = cur[w]
      BY <2>2 DEF FinishTask, BatchReKeyed, TypeOK, Req
    <3>2. \A f \in Batch(cur[w]) : rekeyed[f] > 0
      BY <3>1 DEF WorkedInv
    <3> QED BY <3>1, <3>2, DoneStays DEF Done
  <2> QED BY <1>1, <2>1, <2>2, QueueOrigin
<1>2. StatusMeansDone'
  <2>1. ASSUME NEW p \in Procs, ServeWrite(p), NEW t \in status'
        PROVE  Done(t)
    <3> DEFINE r == Head(queue[p])
    <3>1. t \in status \/ (r.op = "createStatus" /\ t = r.task)
      <4>1. status' = status \cup Target(r, "createStatus")
        BY <2>1 DEF ServeWrite
      <4>2. \A x, op : t \in Target(x, op) => x.op = op /\ t = x.task
        BY DEF Target
      <4> QED BY <2>1, <4>1, <4>2
    <3>2. r \in Elements(queue[p])
      BY <2>1, <1>p, ElementsUpdate DEF ServeWrite
    <3>3. p = Admin => r.op # "createStatus"
      BY <3>2 DEF ProtocolInv
    <3> QED BY <3>1, <3>2, <3>3, <1>p DEF ReportInv, StatusMeansDone
  <2>2. status' = status \/ \E p \in Procs : ServeWrite(p)
    <3>1. CASE AdminStep
      BY <3>1
      DEF AdminStep, CreateBatches, SavePartition, Bye, WatchTasksStatus,
          Finish, StatusCompletion, AdminExpired, znodes
    <3>2. CASE RowLands \/ RowLost
      BY <3>2 DEF RowLands, RowLost, znodes
    <3>3. ASSUME NEW p \in Procs, ServeList(p) \/ ConnectionLoss(p)
          PROVE  status' = status
      BY <3>3 DEF ServeList, ConnectionLoss, znodes
    <3>4. ASSUME NEW t \in Tasks, NEW w \in Workers, MasterAssign(t, w)
          PROVE  status' = status
      BY <3>4 DEF MasterAssign
    <3>5. ASSUME NEW w \in Workers, WorkerStep(w) PROVE status' = status
      BY <3>5
      DEF WorkerStep, WakeUp, WatchZnode, TasksCompletion, SkipTask,
          ReadPartition, QueryFails, BeginTask, ReKeyFile, FinishTask, Crash,
          WorkerExpired, Gone, znodes
    <3>6. CASE UNCHANGED vars
      BY <3>6 DEF vars, znodes
    <3> QED BY <3>1, <3>2, <3>3, <3>4, <3>5, <3>6 DEF Next, ServerStep
  <2>3. \A t \in status' : Done(t) /\ t \in Tasks
    BY <2>1, <2>2, TypeNext DEF ReportInv, StatusMeansDone, TypeOK
  <2> QED BY <2>3, DoneStays DEF StatusMeansDone
<1>3. \A c \in Elements(resp'[Admin]) : c \subseteq status'
  BY <1>p, RespOrigin, ZnodesStay DEF ReportInv
<1>4. /\ statusDone' \subseteq status'
      /\ adminPc' = "finished" => statusDone' = Tasks
  <2>1. CASE /\ UNCHANGED statusDone
             /\ adminPc' = "finished" => adminPc = "finished"
    BY <2>1, ZnodesStay DEF ReportInv
  <2>2. CASE StatusCompletion
    <3>1. Head(resp[Admin]) \in Elements(resp[Admin])
      BY <2>2, <1>p, ElementsUpdate DEF StatusCompletion
    <3>2. statusDone' = statusDone \cup Head(resp[Admin])
      BY <2>2 DEF StatusCompletion
    <3>3. adminPc' # "finished"
      BY <2>2 DEF StatusCompletion
    <3> QED BY <3>1, <3>2, <3>3, ZnodesStay DEF ReportInv
  <2>3. CASE Finish
    <3>1. statusDone = Tasks /\ statusDone' = statusDone
      BY <2>3, AllTasks DEF Finish, TypeOK
    <3> QED BY <3>1, ZnodesStay DEF ReportInv
  <2>4. CASE AdminStep
    BY <2>4, <2>1, <2>2, <2>3
    DEF AdminStep, CreateBatches, SavePartition, Bye, WatchTasksStatus,
        AdminExpired, adminVars
  <2>5. CASE RowLands \/ RowLost
    BY <2>5, <2>1 DEF RowLands, RowLost, adminVars
  <2>6. ASSUME NEW p \in Procs, ServerStep(p) PROVE UNCHANGED adminVars
    BY <2>6 DEF ServerStep, ServeWrite, ServeList, ConnectionLoss
  <2>7. ASSUME NEW t \in Tasks, NEW w \in Workers, MasterAssign(t, w)
        PROVE  UNCHANGED adminVars
    BY <2>7 DEF MasterAssign
  <2>8. ASSUME NEW w \in Workers, WorkerStep(w) PROVE UNCHANGED adminVars
    BY <2>8
    DEF WorkerStep, WakeUp, WatchZnode, TasksCompletion, SkipTask,
        ReadPartition, QueryFails, BeginTask, ReKeyFile, FinishTask, Crash,
        WorkerExpired, Gone
  <2>9. CASE UNCHANGED adminVars
    BY <2>9, <2>1 DEF adminVars
  <2> QED BY <2>4, <2>5, <2>6, <2>7, <2>8, <2>9 DEF Next, vars
<1> QED BY <1>1, <1>2, <1>3, <1>4 DEF ReportInv

-----------------------------------------------------------------------------
(* The inductive invariant and what follows from it.                        *)

\* All of it holds before the admin starts.
LEMMA IInvInit == Init => IInv
<1> SUFFICES ASSUME Init PROVE IInv
  OBVIOUS
<1>1. TypeOK
  BY TypeInit
<1>2. \A p \in Procs : Elements(queue[p]) = {} /\ Elements(resp[p]) = {}
  BY DEF Init, Elements
<1>3. Admin \in Procs /\ Workers \subseteq Procs
  BY DEF Procs
<1>4. RowsInv
  BY DEF Init, RowsInv, Started
<1>5. ProtocolInv
  BY <1>2, <1>3 DEF Init, ProtocolInv
<1>6. UniqueCreates(queue[Admin])
  BY <1>3 DEF Init, UniqueCreates
<1>7. PlacesInv
  BY <1>2, <1>3, <1>6 DEF Init, PlacesInv
<1>8. CountsInv
  BY BatchesAreFiles DEF Init, CountsInv, NoDoubleReKey
<1>9. ReportInv
  BY <1>2, <1>3 DEF Init, ReportInv, StatusMeansDone
<1> QED BY <1>1, <1>4, <1>5, <1>7, <1>8, <1>9 DEF IInv

\* Every part is preserved, with the help of the other parts.
LEMMA IInvNext == ASSUME StoreReliable, IInv, [Next]_vars PROVE IInv'
<1> USE DEF IInv
<1>1. TypeOK'
  BY TypeNext
<1>2. RowsInv'
  BY RowsNext DEF StoreReliable, StoreFaults
<1>3. ProtocolInv'
  BY ProtocolNext
<1>4. PlacesInv'
  BY PlacesNext
<1>5. CountsInv'
  BY CountsNext
<1>6. WorkedInv
  BY DEF CountsInv, WorkedInv
<1>7. ReportInv'
  BY <1>6, ReportNext
<1> QED BY <1>1, <1>2, <1>3, <1>4, <1>5, <1>7

\* The inductive invariant holds in every reachable state.
THEOREM Inductive == ASSUME StoreReliable PROVE Spec => []IInv
<1>1. IInv /\ [Next]_vars => IInv'
  BY IInvNext
<1> QED BY <1>1, IInvInit, PTL DEF Spec

\* An admin that has finished has collected every batch, and each is done.
LEMMA FinishedMeansCovered ==
  ASSUME ReportInv, adminPc = "finished" PROVE \A t \in Tasks : Done(t)
BY DEF ReportInv, StatusMeansDone

\* What a worker that re-keys a file does to the job.
LEMMA ReKeyFileInJob ==
  ASSUME IInv, NEW w \in Workers, NEW f \in Files, ReKeyFile(w, f)
  PROVE  /\ f \in Covered
         /\ rekeyed[f] = 0
         /\ adminPc # "finished" /\ adminPc' = adminPc
         /\ rekeyed' = [rekeyed EXCEPT ![f] = 1]
<1>1. cur[w] \in Tasks /\ f \in Batch(cur[w]) /\ rekeyed[f] = 0
  BY DEF IInv, CountsInv, TypeOK, ReKeyFile
<1>2. adminPc # "finished"
  BY <1>1, FinishedMeansCovered DEF Done, IInv
<1>3. adminPc' = adminPc /\ rekeyed' = [rekeyed EXCEPT ![f] = rekeyed[f] + 1]
  BY DEF ReKeyFile, adminVars
<1> QED BY <1>1, <1>2, <1>3 DEF Covered

\* The cluster implements the job: each of its steps re-keys one file of the
\* job for the first time, or reports a complete job, or changes neither.
THEOREM Refinement == ASSUME StoreReliable PROVE Spec => ImplementsJob
<1> USE DEF Job!Init, Job!Next, Job!ReKey, Job!Report
<1>1. Init => Job!Init
  BY DEF Init
<1>2. ASSUME IInv, IInv', [Next]_vars
      PROVE  [Job!Next]_<<rekeyed, adminPc = "finished">>
  <2>1. ASSUME NEW w \in Workers, NEW f \in Files, ReKeyFile(w, f)
        PROVE  \E g \in Covered : Job!ReKey(g)
    BY <2>1, <1>2, ReKeyFileInJob
  <2>2. CASE UNCHANGED <<rekeyed, adminPc>>
    BY <2>2
  <2>3. CASE Finish
    <3>1. /\ adminPc # "finished" /\ adminPc' = "finished"
          /\ UNCHANGED rekeyed
      BY <2>3 DEF Finish
    <3>2. \A f \in Covered : rekeyed[f] = 1
      <4>1. \A t \in Tasks : Done(t)'
        BY <1>2, <3>1 DEF IInv, ReportInv, StatusMeansDone
      <4>2. ASSUME NEW t \in Tasks, NEW f \in Batch(t) PROVE rekeyed[f] = 1
        <5>1. f \in Files /\ rekeyed'[f] > 0
          BY <4>1, <4>2, BatchesAreFiles DEF Done
        <5>2. rekeyed[f] \in Nat /\ rekeyed[f] <= 1
          BY <1>2, <5>1 DEF IInv, TypeOK, CountsInv, NoDoubleReKey
        <5> QED BY <3>1, <5>1, <5>2
      <4> QED BY <4>2 DEF Covered
    <3> QED BY <3>1, <3>2
  <2>4. CASE AdminStep /\ ~ Finish
    <3>1. adminPc # "finished" /\ adminPc' # "finished" /\ UNCHANGED rekeyed
      BY <2>4
      DEF AdminStep, CreateBatches, SavePartition, Bye, WatchTasksStatus,
          StatusCompletion, AdminExpired, adminVars
    <3> QED BY <3>1
  <2>5. CASE RowLands \/ RowLost
    BY <2>5, <2>2 DEF RowLands, RowLost, adminVars
  <2>6. ASSUME NEW p \in Procs, ServerStep(p)
        PROVE  UNCHANGED <<rekeyed, adminPc>>
    BY <2>6 DEF ServerStep, ServeWrite, ServeList, ConnectionLoss, adminVars
  <2>7. ASSUME NEW t \in Tasks, NEW w \in Workers, MasterAssign(t, w)
        PROVE  UNCHANGED <<rekeyed, adminPc>>
    BY <2>7 DEF MasterAssign, adminVars
  <2>8. ASSUME NEW w \in Workers, WorkerStep(w)
        PROVE  \/ UNCHANGED <<rekeyed, adminPc>>
               \/ \E f \in Files : ReKeyFile(w, f)
    BY <2>8
    DEF WorkerStep, WakeUp, WatchZnode, TasksCompletion, SkipTask,
        ReadPartition, QueryFails, BeginTask, FinishTask, Crash, WorkerExpired,
        Gone, adminVars
  <2>9. CASE UNCHANGED vars
    BY <2>9, <2>2 DEF vars, adminVars
  <2> QED BY <1>2, <2>1, <2>2, <2>3, <2>4, <2>5, <2>6, <2>7, <2>8, <2>9 DEF Next
<1> QED BY <1>1, <1>2, Inductive, PTL DEF Spec, ImplementsJob, Job!Spec

=============================================================================
