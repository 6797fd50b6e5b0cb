---------------------- MODULE ReKeyClusterFaults_proofs ----------------------
(***************************************************************************)
(* What ReKeyCluster guarantees whatever processes and connections do, when *)
(* Cassandra fails as well: under every fault, when the TRUNCATE of the     *)
(* partition table succeeds, and when everything but that TRUNCATE does.    *)
(***************************************************************************)
EXTENDS ReKeyCluster_proofs

-----------------------------------------------------------------------------
(* The mailboxes of the workers.                                            *)

\* Queueing and serving requests keeps the mailbox first.
LEMMA MailboxFirstUpdate ==
  ASSUME NEW S, NEW s \in Seq(S), NEW e \in BOOLEAN, MailboxFirst(s, e)
  PROVE  /\ MailboxFirst(<<>>, e)
         /\ \A r \in S : r.op # "createWorker" => MailboxFirst(Append(s, r), e)
         /\ s # <<>> =>
              /\ MailboxFirst(Tail(s), e \/ Head(s).op = "createAssign")
              /\ Head(s).op = "createWorker" => e
<1>1. MailboxFirst(<<>>, e)
  BY DEF MailboxFirst
<1>2. ASSUME NEW r \in S, r.op # "createWorker"
      PROVE  MailboxFirst(Append(s, r), e)
  <2>1. /\ Len(Append(s, r)) = Len(s) + 1
        /\ \A i \in 1 .. Len(s) : Append(s, r)[i] = s[i]
        /\ Append(s, r)[Len(s) + 1] = r
        /\ Len(s) \in Nat
    OBVIOUS
  <2>2. SUFFICES ASSUME NEW i \in 1 .. Len(s) + 1,
                        Append(s, r)[i].op = "createWorker", ~ e
                 PROVE  \E j \in 1 .. i - 1 : Append(s, r)[j].op = "createAssign"
    BY <2>1 DEF MailboxFirst
  <2>3. i \in 1 .. Len(s)
    BY <1>2, <2>1, <2>2
  <2>4. PICK j \in 1 .. i - 1 : s[j].op = "createAssign"
    BY <2>1, <2>2, <2>3 DEF MailboxFirst
  <2>5. j \in 1 .. Len(s)
    BY <2>1, <2>3, <2>4
  <2> QED BY <2>1, <2>4, <2>5
<1>3. ASSUME s # <<>>
      PROVE  /\ MailboxFirst(Tail(s), e \/ Head(s).op = "createAssign")
             /\ Head(s).op = "createWorker" => e
  <2>1. /\ Len(Tail(s)) = Len(s) - 1
        /\ \A i \in 1 .. Len(Tail(s)) : Tail(s)[i] = s[i + 1]
        /\ Len(s) \in Nat \ {0}
        /\ Head(s) = s[1]
    BY <1>3, HeadTailProperties, EmptySeq
  <2>2. Head(s).op = "createWorker" => e
    <3>1. 1 \in 1 .. Len(s) /\ 1 .. 1 - 1 = {}
      BY <2>1
    <3> QED BY <2>1, <3>1 DEF MailboxFirst
  <2>3. ASSUME NEW i \in 1 .. Len(Tail(s)), Tail(s)[i].op = "createWorker",
               ~ e, Head(s).op # "createAssign"
        PROVE  \E j \in 1 .. i - 1 : Tail(s)[j].op = "createAssign"
    <3>1. i + 1 \in 1 .. Len(s) /\ s[i + 1].op = "createWorker"
      BY <2>1, <2>3
    <3>2. PICK j \in 1 .. (i + 1) - 1 : s[j].op = "createAssign"
      BY <2>3, <3>1 DEF MailboxFirst
    <3>3. j # 1 /\ j - 1 \in 1 .. i - 1 /\ j - 1 \in 1 .. Len(Tail(s))
      BY <2>1, <2>3, <3>2
    <3>4. Tail(s)[j - 1] = s[j]
      BY <2>1, <3>2, <3>3
    <3> QED BY <3>2, <3>3, <3>4
  <2> QED BY <2>2, <2>3 DEF MailboxFirst
<1> QED BY <1>1, <1>2, <1>3

\* What a step does to the queue of a worker.
LEMMA WorkerQueue ==
  ASSUME TypeOK, [Next]_vars, NEW w \in Workers
  PROVE  \/ queue'[w] = queue[w]
         \/ queue'[w] = <<>>
         \/ queue'[w] = WakeUpRequests
         \/ \E r \in Request :
              r.op # "createWorker" /\ queue'[w] = Append(queue[w], r)
         \/ ServeWrite(w) /\ queue'[w] = Tail(queue[w])
         \/ ServeList(w) /\ queue'[w] = Tail(queue[w])
<1> DEFINE Goal ==
      \/ queue'[w] = queue[w]
      \/ queue'[w] = <<>>
      \/ queue'[w] = WakeUpRequests
      \/ \E r \in Request :
           r.op # "createWorker" /\ queue'[w] = Append(queue[w], r)
      \/ ServeWrite(w) /\ queue'[w] = Tail(queue[w])
      \/ ServeList(w) /\ queue'[w] = Tail(queue[w])
<1>p. w \in Procs /\ w # Admin /\ Admin \in Procs /\ queue \in [Procs -> Seq(Request)]
  BY ConstantsAssumption DEF Procs, TypeOK
<1>l. Req("list", NoTask) \in Request /\ Req("list", NoTask).op # "createWorker"
  BY RequestType DEF Req
<1>1. CASE queue' = queue
  BY <1>1
<1>2. CASE AdminStep
  BY <1>2, <1>p
  DEF AdminStep, CreateBatches, SavePartition, Bye, WatchTasksStatus, Finish,
      StatusCompletion, AdminExpired, sessions
<1>3. CASE RowLands \/ RowLost
  BY <1>3, <1>1 DEF RowLands, RowLost, sessions
<1>4. ASSUME NEW p \in Procs, ServerStep(p) PROVE Goal
  BY <1>4, <1>p DEF ServerStep, ServeWrite, ServeList, ConnectionLoss
<1>5. ASSUME NEW t \in Tasks, NEW v \in Workers, MasterAssign(t, v) PROVE Goal
  BY <1>5, <1>1 DEF MasterAssign, sessions
<1>6. ASSUME NEW v \in Workers, WorkerStep(v) PROVE Goal
  <2>p. v \in Procs
    BY DEF Procs
  <2>1. CASE FinishTask(v)
    <3>1. /\ queue' = [queue EXCEPT ![v] =
                         Append(queue[v], Req("createStatus", cur[v]))]
          /\ Req("createStatus", cur[v]) \in Request
          /\ Req("createStatus", cur[v]).op # "createWorker"
      BY <2>1, FinishQueue DEF Req
    <3> QED BY <3>1, <2>p, <1>p
  <2>2. CASE WatchZnode(v)
    <3>1. queue' = [queue EXCEPT ![v] = Append(queue[v], Req("list", NoTask))]
      BY <2>2 DEF WatchZnode
    <3> QED BY <3>1, <2>p, <1>p, <1>l
  <2>3. CASE WakeUp(v) \/ Gone(v)
    BY <2>3, <2>p, <1>p DEF WakeUp, Gone
  <2> QED BY <1>6, <2>1, <2>2, <2>3, <1>1
        DEF WorkerStep, TasksCompletion, SkipTask, ReadPartition, QueryFails,
            BeginTask, ReKeyFile, Crash, WorkerExpired, sessions
<1>7. CASE UNCHANGED vars
  BY <1>7, <1>1 DEF vars, sessions
<1> QED BY <1>2, <1>3, <1>4, <1>5, <1>6, <1>7 DEF Next

\* Only the server changes who has a mailbox and who is registered.
LEMMA ListenersOrigin ==
  ASSUME [Next]_vars
  PROVE  \/ UNCHANGED <<assignDir, registered>>
         \/ \E p \in Procs : ServeWrite(p)
<1>1. CASE AdminStep
  BY <1>1
  DEF AdminStep, CreateBatches, SavePartition, Bye, WatchTasksStatus, Finish,
      StatusCompletion, AdminExpired, znodes
<1>2. CASE RowLands \/ RowLost
  BY <1>2 DEF RowLands, RowLost, znodes
<1>3. ASSUME NEW p \in Procs, ServeList(p) \/ ConnectionLoss(p)
      PROVE  UNCHANGED <<assignDir, registered>>
  BY <1>3 DEF ServeList, ConnectionLoss, znodes
<1>4. ASSUME NEW t \in Tasks, NEW w \in Workers, MasterAssign(t, w)
      PROVE  UNCHANGED <<assignDir, registered>>
  BY <1>4 DEF MasterAssign
<1>5. ASSUME NEW w \in Workers, WorkerStep(w)
      PROVE  UNCHANGED <<assignDir, registered>>
  BY <1>5
  DEF WorkerStep, WakeUp, WatchZnode, TasksCompletion, SkipTask, ReadPartition,
      QueryFails, BeginTask, ReKeyFile, FinishTask, Crash, WorkerExpired, Gone,
      znodes
<1>6. CASE UNCHANGED vars
  BY <1>6 DEF vars, znodes
<1> QED BY <1>1, <1>2, <1>3, <1>4, <1>5, <1>6 DEF Next, ServerStep

\* The server serves the mailbox create of a worker before its announcement.
LEMMA ListenNext ==
  ASSUME TypeOK, ListenInv, [Next]_vars PROVE ListenInv'
<1>p. \A w \in Workers : w \in Procs /\ queue[w] \in Seq(Request)
  BY DEF Procs, TypeOK
<1>u. ASSUME NEW w \in Workers
      PROVE  /\ MailboxFirst(queue[w], w \in assignDir)
             /\ MailboxFirst(<<>>, w \in assignDir)
             /\ \A r \in Request : r.op # "createWorker" =>
                  MailboxFirst(Append(queue[w], r), w \in assignDir)
             /\ queue[w] # <<>> =>
                  /\ MailboxFirst(Tail(queue[w]),
                       w \in assignDir \/ Head(queue[w]).op = "createAssign")
                  /\ Head(queue[w]).op = "createWorker" => w \in assignDir
  <2>1. queue[w] \in Seq(Request) /\ MailboxFirst(queue[w], w \in assignDir)
    BY <1>p DEF ListenInv
  <2>2. (w \in assignDir) \in BOOLEAN
    OBVIOUS
  <2> QED BY <2>1, <2>2, MailboxFirstUpdate, Zenon
<1>m. ASSUME NEW s, NEW d, NEW e, d => e, MailboxFirst(s, d)
      PROVE  MailboxFirst(s, e)
  BY <1>m DEF MailboxFirst
<1>s. ASSUME NEW w \in Workers, NEW s, MailboxFirst(s, w \in assignDir)
      PROVE  MailboxFirst(s, w \in assignDir')
  <2>1. assignDir \subseteq assignDir'
    BY ListenersOrigin DEF ServeWrite
  <2> QED BY <1>s, <2>1 DEF MailboxFirst
<1>1. assignDir \subseteq assignDir'
  BY ListenersOrigin DEF ServeWrite
<1>2. RegisteredWorkersListen'
  <2>1. ASSUME NEW p \in Procs, ServeWrite(p), NEW w \in registered'
        PROVE  w \in assignDir'
    <3>1. CASE w \in registered
      BY <3>1, <1>1 DEF ListenInv, RegisteredWorkersListen
    <3>2. CASE w \notin registered
      <4>1. w \in Workers /\ w = p /\ Head(queue[p]).op = "createWorker"
            /\ queue[p] # <<>>
        BY <2>1, <3>2 DEF ServeWrite
      <4> QED BY <4>1, <1>u, <1>1
    <3> QED BY <3>1, <3>2
  <2> QED BY <2>1, ListenersOrigin DEF ListenInv, RegisteredWorkersListen
<1>3. ASSUME NEW w \in Workers PROVE MailboxFirst(queue'[w], w \in assignDir')
  <2>1. CASE queue'[w] = queue[w] \/ queue'[w] = <<>>
    BY <2>1, <1>u, <1>s
  <2>2. CASE queue'[w] = WakeUpRequests
    <3>1. MailboxFirst(WakeUpRequests, FALSE)
      BY DEF MailboxFirst, WakeUpRequests, Req
    <3> QED BY <2>2, <3>1, <1>m
  <2>3. ASSUME NEW r \in Request, r.op # "createWorker",
               queue'[w] = Append(queue[w], r)
        PROVE  MailboxFirst(queue'[w], w \in assignDir')
    BY <2>3, <1>u, <1>s
  <2>4. CASE ServeWrite(w) /\ queue'[w] = Tail(queue[w])
    <3>1. /\ queue[w] # <<>>
          /\ Head(queue[w]).op = "createAssign" => w \in assignDir'
      BY <2>4 DEF ServeWrite
    <3> QED BY <2>4, <3>1, <1>u, <1>m, <1>1
  <2>5. CASE ServeList(w) /\ queue'[w] = Tail(queue[w])
    <3>1. queue[w] # <<>> /\ Head(queue[w]).op # "createAssign"
      BY <2>5 DEF ServeList
    <3> QED BY <2>5, <3>1, <1>u, <1>m, <1>1
  <2> QED BY <2>1, <2>2, <2>3, <2>4, <2>5, WorkerQueue
<1> QED BY <1>2, <1>3 DEF ListenInv

-----------------------------------------------------------------------------
(* The files of a batch.                                                    *)

\* Once a task has been given to a worker, table part only grows.
LEMMA RowsStay ==
  ASSUME PlacesInv, [Next]_vars, NEW w \in Workers, assign[w] # {}
  PROVE  part \subseteq part'
<1>1. adminPc # "start"
  BY DEF PlacesInv, Started
<1>2. CASE AdminStep
  BY <1>1, <1>2
  DEF AdminStep, CreateBatches, SavePartition, Bye, WatchTasksStatus, Finish,
      StatusCompletion, AdminExpired, cassVars
<1>3. CASE RowLands \/ RowLost
  BY <1>3 DEF RowLands, RowLost
<1>4. ASSUME NEW p \in Procs, ServerStep(p) PROVE UNCHANGED part
  BY <1>4 DEF ServerStep, ServeWrite, ServeList, ConnectionLoss, cassVars
<1>5. ASSUME NEW t \in Tasks, NEW v \in Workers, MasterAssign(t, v)
      PROVE  UNCHANGED part
  BY <1>5 DEF MasterAssign, cassVars
<1>6. ASSUME NEW v \in Workers, WorkerStep(v) PROVE UNCHANGED part
  BY <1>6
  DEF WorkerStep, WakeUp, WatchZnode, TasksCompletion, SkipTask, ReadPartition,
      QueryFails, BeginTask, ReKeyFile, FinishTask, Crash, WorkerExpired, Gone,
      cassVars
<1>7. CASE UNCHANGED vars
  BY <1>7 DEF vars, cassVars
<1> QED BY <1>2, <1>3, <1>4, <1>5, <1>6, <1>7 DEF Next

\* A task that was taken up stays so, whatever happens to its worker.
LEMMA TakenStays ==
  ASSUME TypeOK, ProtocolInv, [Next]_vars, NEW t \in Tasks, Taken(t)
  PROVE  Taken(t)'
<1>1. PICK w \in Workers : t \in assign[w] /\ (live[w] # "dead" => t \in ongoing[w])
  BY DEF Taken
<1>2. t \in assign'[w]
  BY <1>1, ZnodesStay
<1>3. live'[w] # "dead" => t \in ongoing'[w]
  BY <1>1, WorkerMemory
<1> QED BY <1>2, <1>3 DEF Taken

\* A worker begins a task that is nobody's yet.
LEMMA NotTakenYet ==
  ASSUME ProtocolInv, PlacesInv, NEW w \in Workers, NEW t \in todo[w],
         ReadPartition(w, t) \/ QueryFails(w, t)
  PROVE  ~ Taken(t)
<1>1. live[w] = "up" /\ t \notin ongoing[w]
  BY DEF ReadPartition, QueryFails, BeginTask, Between, OnGoing
<1>2. \A v \in Workers : t \in assign[v] => v = w
  BY DEF ProtocolInv, PlacesInv
<1> QED BY <1>1, <1>2 DEF Taken

\* A file that has had its turn in a batch has had it for good.
LEMMA PassedStays ==
  ASSUME TypeOK, ProtocolInv, PlacesInv, [Next]_vars,
         NEW f \in Files, NEW t \in Passed(f)
  PROVE  t \in Passed(f)'
<1>1. /\ t \in Tasks /\ <<t, f>> \in part /\ Taken(t)
      /\ \A w \in Workers : cur[w] = t => f \notin left[w]
  BY DEF Passed, Holding
<1>2. <<t, f>> \in part'
  BY <1>1, RowsStay DEF Taken
<1>3. Taken(t)'
  BY <1>1, TakenStays
<1>4. ASSUME NEW w \in Workers, cur'[w] = t PROVE f \notin left'[w]
  <2>1. ASSUME NEW g \in left[w], ReKeyFile(w, g)
        PROVE  left'[w] \subseteq left[w]
    BY <2>1 DEF ReKeyFile, TypeOK
  <2>2. ~ \E s \in todo[w] : /\ ReadPartition(w, s) \/ QueryFails(w, s)
                             /\ cur'[w] = s
    BY <1>1, <1>4, NotTakenYet
  <2>3. t # NoTask
    BY <1>1, ConstantsAssumption DEF Tasks, NoTask
  <2>4. cur'[w] = cur[w] /\ left'[w] \subseteq left[w]
    BY <1>4, <2>1, <2>2, <2>3, WorkerMemory
  <2> QED BY <1>1, <1>4, <2>4
<1> QED BY <1>1, <1>2, <1>3, <1>4 DEF Passed, Holding

\* A re-key of a file is its turn in the batch the worker is in.
LEMMA TurnTaken ==
  ASSUME TypeOK, ProtocolInv, PlacesInv, PassedInv,
         NEW w \in Workers, NEW f \in Files, ReKeyFile(w, f)
  PROVE  cur[w] \in Passed(f)' /\ cur[w] \notin Passed(f)
<1>1. /\ cur[w] \in Tasks /\ cur[w] # NoTask /\ live[w] = "up" /\ f \in left[w]
      /\ left' = [left EXCEPT ![w] = @ \ {f}]
      /\ UNCHANGED <<part, assign, live, ongoing, cur>>
  BY DEF ReKeyFile, TypeOK, znodes, cassVars
<1>2. f \notin left'[w]
  BY <1>1 DEF TypeOK
<1>3. <<cur[w], f>> \in part
  BY <1>1 DEF PassedInv, Partition
<1>4. cur[w] \in ongoing[w] /\ cur[w] \in assign[w]
  BY <1>1 DEF ProtocolInv
<1>5. Taken(cur[w])'
  BY <1>1, <1>4 DEF Taken
<1>6. \A v \in Workers : cur[v] = cur[w] => v = w
  BY <1>1, <1>4 DEF ProtocolInv, PlacesInv
<1>7. cur[w] \notin Passed(f)
  BY <1>1 DEF Passed
<1>8. \A v \in Workers : cur'[v] = cur[w] => f \notin left'[v]
  BY <1>1, <1>2, <1>6
<1> QED BY <1>1, <1>3, <1>5, <1>7, <1>8 DEF Passed, Holding

\* Sets of batches are finite, and a smaller set has no more of them.
LEMMA TaskSets ==
  ASSUME NEW S, S \subseteq Tasks
  PROVE  /\ IsFiniteSet(S)
         /\ Cardinality(S) \in Nat
         /\ \A T \in SUBSET S : Cardinality(T) <= Cardinality(S)
<1>1. IsFiniteSet(Tasks)
  BY ConstantsAssumption, FS_Interval DEF Tasks
<1>2. IsFiniteSet(S)
  BY <1>1, FS_Subset
<1>3. \A T \in SUBSET S : Cardinality(T) <= Cardinality(S)
  BY <1>2, FS_Subset
<1> QED BY <1>2, <1>3, FS_CardinalityType

\* The count of a file grows with a turn of the file, and only with one.
LEMMA PassedNext ==
  ASSUME TypeOK, ProtocolInv, PlacesInv, PassedInv, [Next]_vars
  PROVE  PassedInv'
<1>1. ASSUME NEW w \in Workers, cur'[w] # NoTask
      PROVE  /\ live'[w] # "dead"
             /\ \A f \in left'[w] : f \in Files /\ <<cur'[w], f>> \in part'
  <2>1. CASE /\ live'[w] = live[w] \/ live'[w] = "up"
             /\ cur'[w] = cur[w] /\ left'[w] \subseteq left[w]
    <3>1. cur[w] \in assign[w] /\ left[w] \subseteq Partition(cur[w])
          /\ live[w] # "dead"
      BY <1>1, <2>1 DEF PassedInv, ProtocolInv
    <3>2. part \subseteq part'
      BY <3>1, RowsStay
    <3>3. \A f \in left'[w] : f \in Files /\ <<cur'[w], f>> \in part'
      BY <2>1, <3>1, <3>2 DEF Partition
    <3> QED BY <2>1, <3>1, <3>3
  <2>2. ASSUME NEW t \in todo[w], ReadPartition(w, t) \/ QueryFails(w, t),
               cur'[w] = t, live'[w] = live[w]
        PROVE  /\ live'[w] # "dead"
               /\ \A f \in left'[w] : f \in Files /\ <<cur'[w], f>> \in part'
    <3>1. live[w] = "up" /\ left'[w] \subseteq Partition(t) /\ part' = part
      BY <2>2
      DEF ReadPartition, QueryFails, BeginTask, Between, TypeOK, cassVars
    <3> QED BY <2>2, <3>1 DEF Partition
  <2>3. ASSUME NEW f \in left[w], ReKeyFile(w, f)
        PROVE  left'[w] \subseteq left[w]
    BY <2>3 DEF ReKeyFile, TypeOK
  <2>4. \/ /\ live'[w] = live[w] \/ live'[w] = "up"
           /\ cur'[w] = cur[w] /\ left'[w] \subseteq left[w]
        \/ \E t \in todo[w] : /\ ReadPartition(w, t) \/ QueryFails(w, t)
                              /\ cur'[w] = t
                              /\ live'[w] = live[w]
    BY <1>1, <2>3, WorkerMemory
  <2> QED BY <2>1, <2>2, <2>4
<1>2. ASSUME NEW f \in Files PROVE rekeyed'[f] <= Cardinality(Passed(f)')
  <2>1. Passed(f) \subseteq Passed(f)'
    BY PassedStays
  <2>2. /\ rekeyed \in [Files -> Nat]
        /\ rekeyed[f] \in Nat
        /\ rekeyed[f] <= Cardinality(Passed(f))
    BY DEF TypeOK, PassedInv
  <2>3. /\ IsFiniteSet(Passed(f)) /\ Cardinality(Passed(f)) \in Nat
        /\ Cardinality(Passed(f)') \in Nat
        /\ \A T \in SUBSET Passed(f)' : Cardinality(T) <= Cardinality(Passed(f)')
    <3>1. Passed(f) \subseteq Tasks /\ Passed(f)' \subseteq Tasks
      BY DEF Passed, Holding
    <3> QED BY <3>1, TaskSets
  <2>4. Cardinality(Passed(f)) <= Cardinality(Passed(f)')
    BY <2>1, <2>3
  <2>5. ASSUME NEW w \in Workers, ReKeyFile(w, f)
        PROVE  Cardinality(Passed(f)) + 1 <= Cardinality(Passed(f)')
    <3>1. cur[w] \in Passed(f)' /\ cur[w] \notin Passed(f)
      BY <2>5, TurnTaken
    <3>2. /\ IsFiniteSet(Passed(f) \cup {cur[w]})
          /\ Cardinality(Passed(f) \cup {cur[w]}) = Cardinality(Passed(f)) + 1
      BY <2>3, <3>1, FS_AddElement
    <3>3. Passed(f) \cup {cur[w]} \in SUBSET Passed(f)'
      BY <2>1, <3>1
    <3> QED BY <2>3, <3>2, <3>3
  <2>6. \/ rekeyed'[f] = rekeyed[f]
        \/ /\ rekeyed'[f] = rekeyed[f] + 1
           /\ \E w \in Workers : ReKeyFile(w, f)
    <3>1. ASSUME NEW w \in Workers, NEW g \in Files, ReKeyFile(w, g)
          PROVE  rekeyed'[f] = IF f = g THEN rekeyed[f] + 1 ELSE rekeyed[f]
      BY <2>2, <3>1 DEF ReKeyFile
    <3> QED BY <3>1, ReKeyedOnlyByReKeyFile
  <2> QED BY <2>2, <2>3, <2>4, <2>5, <2>6
<1> QED BY <1>1, <1>2 DEF PassedInv, Partition

-----------------------------------------------------------------------------
(* The reports.                                                             *)

\* A task that is settled stays settled, whatever happens to its worker.
LEMMA SettledStays ==
  ASSUME TypeOK, ProtocolInv, [Next]_vars, NEW t \in Tasks, Settled(t)
  PROVE  Settled(t)'
<1>1. PICK w \in Workers : /\ t \in assign[w]
                           /\ cur[w] # t
                           /\ live[w] # "dead" => t \in ongoing[w]
  BY DEF Settled
<1>2. t \in assign'[w]
  BY <1>1, ZnodesStay
<1>3. cur'[w] # t /\ (live'[w] # "dead" => t \in ongoing'[w])
  <2>1. t # NoTask
    BY ConstantsAssumption DEF Tasks, NoTask
  <2>2. ASSUME NEW s \in todo[w], ReadPartition(w, s) \/ QueryFails(w, s),
               ongoing'[w] = ongoing[w] \cup {s}, cur'[w] = s,
               UNCHANGED live[w]
        PROVE  cur'[w] # t /\ (live'[w] # "dead" => t \in ongoing'[w])
    <3>1. live[w] = "up" /\ s \notin ongoing[w]
      BY <2>2 DEF ReadPartition, QueryFails, BeginTask, Between, OnGoing
    <3> QED BY <1>1, <2>2, <3>1
  <2> QED BY <1>1, <2>1, <2>2, WorkerMemory
<1> QED BY <1>2, <1>3 DEF Settled

\* While a worker re-keys a file of a batch, the batch is not settled.
LEMMA UnsettledWhileReKeyed ==
  ASSUME TypeOK, ProtocolInv, PlacesInv, NEW w \in Workers, cur[w] # NoTask
  PROVE  cur[w] \in Tasks /\ ~ Settled(cur[w])
<1>1. cur[w] \in Tasks /\ cur[w] \in assign[w]
  BY DEF TypeOK, ProtocolInv
<1>2. \A v \in Workers : cur[w] \in assign[v] => v = w
  BY <1>1 DEF PlacesInv
<1> QED BY <1>1, <1>2 DEF Settled

\* A status znode comes from a request that a worker had queued for it.
LEMMA StatusOrigin ==
  ASSUME TypeOK, ProtocolInv, [Next]_vars, NEW t \in status', t \notin status
  PROVE  \E w \in Workers : \E r \in Elements(queue[w]) :
           r.op = "createStatus" /\ r.task = t
<1>1. status' = status \/ \E p \in Procs : ServeWrite(p)
  <2>1. CASE AdminStep
    BY <2>1
    DEF AdminStep, CreateBatches, SavePartition, Bye, WatchTasksStatus, Finish,
        StatusCompletion, AdminExpired, znodes
  <2>2. CASE RowLands \/ RowLost
    BY <2>2 DEF RowLands, RowLost, znodes
  <2>3. ASSUME NEW p \in Procs, ServeList(p) \/ ConnectionLoss(p)
        PROVE  status' = status
    BY <2>3 DEF ServeList, ConnectionLoss, znodes
  <2>4. ASSUME NEW s \in Tasks, NEW w \in Workers, MasterAssign(s, w)
        PROVE  status' = status
    BY <2>4 DEF MasterAssign
  <2>5. ASSUME NEW w \in Workers, WorkerStep(w) PROVE status' = status
    BY <2>5
    DEF WorkerStep, WakeUp, WatchZnode, TasksCompletion, SkipTask,
        ReadPartition, QueryFails, BeginTask, ReKeyFile, FinishTask, Crash,
        WorkerExpired, Gone, znodes
  <2>6. CASE UNCHANGED vars
    BY <2>6 DEF vars, znodes
  <2> QED BY <2>1, <2>2, <2>3, <2>4, <2>5, <2>6 DEF Next, ServerStep
<1>2. PICK p \in Procs : ServeWrite(p)
  BY <1>1
<1>3. Head(queue[p]).op = "createStatus" /\ t = Head(queue[p]).task
  <2>1. status' = status \cup Target(Head(queue[p]), "createStatus")
    BY <1>2 DEF ServeWrite
  <2>2. \A x, op : t \in Target(x, op) => x.op = op /\ t = x.task
    BY DEF Target
  <2> QED BY <2>1, <2>2
<1>4. Head(queue[p]) \in Elements(queue[p])
  BY <1>2, ElementsUpdate DEF ServeWrite, TypeOK
<1>5. p \in Workers
  BY <1>3, <1>4 DEF ProtocolInv, Procs
<1> QED BY <1>3, <1>4, <1>5

\* How the admin's view of what is finished changes.
LEMMA AdminViewOrigin ==
  ASSUME [Next]_vars
  PROVE  \/ UNCHANGED statusDone /\ (adminPc' = "finished" => adminPc = "finished")
         \/ StatusCompletion
         \/ Finish
<1>1. CASE AdminStep
  BY <1>1
  DEF AdminStep, CreateBatches, SavePartition, Bye, WatchTasksStatus,
      AdminExpired, adminVars
<1>2. CASE RowLands \/ RowLost
  BY <1>2 DEF RowLands, RowLost, adminVars
<1>3. ASSUME NEW p \in Procs, ServerStep(p) PROVE UNCHANGED adminVars
  BY <1>3 DEF ServerStep, ServeWrite, ServeList, ConnectionLoss
<1>4. ASSUME NEW t \in Tasks, NEW w \in Workers, MasterAssign(t, w)
      PROVE  UNCHANGED adminVars
  BY <1>4 DEF MasterAssign
<1>5. ASSUME NEW w \in Workers, WorkerStep(w) PROVE UNCHANGED adminVars
  BY <1>5
  DEF WorkerStep, WakeUp, WatchZnode, TasksCompletion, SkipTask, ReadPartition,
      QueryFails, BeginTask, ReKeyFile, FinishTask, Crash, WorkerExpired, Gone
<1> QED BY <1>1, <1>2, <1>3, <1>4, <1>5 DEF Next, vars, adminVars

\* Reports, wherever they are, are of tasks that their worker is through with.
LEMMA SettledNext ==
  ASSUME TypeOK, ProtocolInv, SettledInv, [Next]_vars
  PROVE  SettledInv'
<1>p. /\ Admin \in Procs
      /\ \A w \in Workers : w \in Procs
      /\ Children(Admin) = status
      /\ \A p \in Procs : queue[p] \in Seq(Request) /\ resp[p] \in Seq(SUBSET Tasks)
  BY DEF Procs, TypeOK, Children
<1>r. \A w \in Workers : \A r \in Elements(queue[w]) :
        r.op = "createStatus" => r.task \in Tasks
  <2> SUFFICES ASSUME NEW w \in Workers, NEW r \in Elements(queue[w]),
                      r.op = "createStatus"
               PROVE  r.task \in Tasks
    OBVIOUS
  <2>1. r \in Request
    <3>1. queue[w] \in Seq(Request)
      BY <1>p
    <3>2. PICK k \in 1 .. Len(queue[w]) : r = queue[w][k]
      BY DEF Elements
    <3> QED BY <3>1, <3>2
  <2> QED BY <2>1 DEF Request
<1>1. ASSUME NEW w \in Workers, NEW r \in Elements(queue'[w]),
             r.op = "createStatus"
      PROVE  Settled(r.task)'
  <2>1. CASE r \in Elements(queue[w])
    BY <1>1, <1>r, <2>1, SettledStays DEF SettledInv
  <2>2. CASE FinishTask(w) /\ r = Req("createStatus", cur[w])
    <3>1. /\ live[w] = "up" /\ cur[w] \in Tasks /\ r.task = cur[w]
          /\ cur'[w] = NoTask
          /\ UNCHANGED <<assign, live, ongoing>>
      BY <2>2 DEF FinishTask, TypeOK, Req, znodes
    <3>2. cur[w] \in assign[w] /\ cur[w] \in ongoing[w] /\ cur[w] # NoTask
      BY <2>2 DEF ProtocolInv, FinishTask
    <3> QED BY <3>1, <3>2 DEF Settled
  <2> QED BY <1>1, <2>1, <2>2, QueueOrigin
<1>2. ASSUME NEW t \in status' PROVE Settled(t)'
  <2>1. t \in Tasks
    BY TypeNext DEF TypeOK
  <2>2. Settled(t)
    BY StatusOrigin DEF SettledInv
  <2> QED BY <2>1, <2>2, SettledStays
<1>3. \A c \in Elements(resp'[Admin]) : c \subseteq status'
  BY <1>p, RespOrigin, ZnodesStay DEF SettledInv
<1>4. /\ statusDone' \subseteq status'
      /\ adminPc' = "finished" => statusDone' = Tasks
  <2>1. CASE /\ UNCHANGED statusDone
             /\ adminPc' = "finished" => adminPc = "finished"
    BY <2>1, ZnodesStay DEF SettledInv
  <2>2. CASE StatusCompletion
    <3>1. Head(resp[Admin]) \in Elements(resp[Admin])
      BY <2>2, <1>p, ElementsUpdate DEF StatusCompletion
    <3>2. /\ statusDone' = statusDone \cup Head(resp[Admin])
          /\ adminPc' # "finished"
      BY <2>2 DEF StatusCompletion
    <3> QED BY <3>1, <3>2, ZnodesStay DEF SettledInv
  <2>3. CASE Finish
    <3>1. statusDone = Tasks /\ statusDone' = statusDone
      BY <2>3, AllTasks DEF Finish, TypeOK
    <3> QED BY <3>1, ZnodesStay DEF SettledInv
  <2> QED BY <2>1, <2>2, <2>3, AdminViewOrigin
<1> QED BY <1>1, <1>2, <1>3, <1>4 DEF SettledInv

-----------------------------------------------------------------------------
(* The inductive invariant and what follows from it.                        *)

\* All of it holds before the admin starts.
LEMMA FaultsInvInit == Init => FaultsInv
<1> SUFFICES ASSUME Init PROVE FaultsInv
  OBVIOUS
<1>1. TypeOK /\ ProtocolInv /\ PlacesInv
  BY IInvInit DEF IInv
<1>2. Admin \in Procs /\ Workers \subseteq Procs
  BY DEF Procs
<1>3. ListenInv
  BY <1>2 DEF Init, ListenInv, MailboxFirst, RegisteredWorkersListen
<1>4. PassedInv
  <2>1. \A f \in Files : Cardinality(Passed(f)) \in Nat
    BY TaskSets DEF Passed, Holding
  <2> QED BY <2>1 DEF Init, PassedInv
<1>5. SettledInv
  BY <1>2 DEF Init, SettledInv, Elements
<1> QED BY <1>1, <1>3, <1>4, <1>5 DEF FaultsInv

\* Every part is preserved, with the help of the other parts.
LEMMA FaultsInvNext == FaultsInv /\ [Next]_vars => FaultsInv'
<1> SUFFICES ASSUME FaultsInv, [Next]_vars PROVE FaultsInv'
  OBVIOUS
<1> USE DEF FaultsInv
<1>1. TypeOK'
  BY TypeNext
<1>2. ProtocolInv'
  BY ProtocolNext
<1>3. PlacesInv'
  BY PlacesNext
<1>4. ListenInv'
  BY ListenNext
<1>5. PassedInv'
  BY PassedNext
<1>6. SettledInv'
  BY SettledNext
<1> QED BY <1>1, <1>2, <1>3, <1>4, <1>5, <1>6

\* The invariant of the faulty cluster holds in every reachable state.
THEOREM FaultsInductive == Spec => []FaultsInv
BY FaultsInvInit, FaultsInvNext, PTL DEF Spec

\* The Master never picks a worker that has no mailbox.
THEOREM ListenersCorrect == Spec => []RegisteredWorkersListen
<1>1. FaultsInv => RegisteredWorkersListen
  BY DEF FaultsInv, ListenInv
<1> QED BY <1>1, FaultsInductive, PTL

\* Under every fault, a file is re-keyed at most once for every batch that
\* table part has it in, leftovers of a former round included.
THEOREM ReKeyedOnceEach == Spec => []ReKeyedOncePerBatch
<1>1. ASSUME FaultsInv, NEW f \in Files
      PROVE  rekeyed[f] <= Cardinality(Holding(f))
  <2>1. Holding(f) \subseteq Tasks /\ Passed(f) \subseteq Holding(f)
    BY DEF Holding, Passed
  <2>2. /\ Cardinality(Passed(f)) \in Nat /\ Cardinality(Holding(f)) \in Nat
        /\ Cardinality(Passed(f)) <= Cardinality(Holding(f))
    BY <2>1, TaskSets
  <2>3. rekeyed[f] \in Nat /\ rekeyed[f] <= Cardinality(Passed(f))
    BY <1>1 DEF FaultsInv, TypeOK, PassedInv
  <2> QED BY <2>2, <2>3
<1>2. FaultsInv => ReKeyedOncePerBatch
  BY <1>1 DEF ReKeyedOncePerBatch
<1> QED BY <1>2, FaultsInductive, PTL

\* Once the admin has reported, no worker touches a file, even when the report
\* came of batches that were not re-keyed.
THEOREM QuietCorrect == Spec => QuietAfterFinish
<1>1. ASSUME FaultsInv, [Next]_vars
      PROVE  [adminPc = "finished" => UNCHANGED rekeyed]_vars
  <2>1. ASSUME NEW w \in Workers, NEW f \in Files, ReKeyFile(w, f)
        PROVE  adminPc # "finished"
    <3>1. cur[w] \in Tasks /\ ~ Settled(cur[w])
      BY <1>1, <2>1, UnsettledWhileReKeyed DEF FaultsInv, ReKeyFile
    <3> QED BY <1>1, <3>1 DEF FaultsInv, SettledInv
  <2> QED BY <1>1, <2>1, ReKeyedOnlyByReKeyFile
<1>2. FaultsInv /\ [Next]_vars => [adminPc = "finished" => UNCHANGED rekeyed]_vars
  BY <1>1
<1> QED BY <1>2, FaultsInductive, PTL DEF Spec, QuietAfterFinish

-----------------------------------------------------------------------------
(* When the TRUNCATE succeeds.                                              *)

\* Whatever else Cassandra fails to do, the table gets no row but those of the
\* batches that create_batches has just made.
RowsWithin ==
  adminPc # "start" => part \cup inflight \subseteq RowsOf(NFiles)

\* A row is lost, or lands, or is one that create_batches has just issued.
LEMMA RowsWithinNext ==
  ASSUME "truncate" \notin Faults, TypeOK, adminPc = "start" => inflight = {},
         RowsWithin, [Next]_vars
  PROVE  RowsWithin' /\ (adminPc' = "start" => inflight' = {})
<1> DEFINE Goal == RowsWithin' /\ (adminPc' = "start" => inflight' = {})
<1>1. CASE CreateBatches
  BY <1>1 DEF CreateBatches, ClearPartitions, RowsWithin
<1>2. CASE SavePartition
  <2>1. /\ adminPc = "create" /\ adminPc' = "create" /\ part' = part
        /\ inflight' = inflight
             \cup { <<saved, f>> : f \in BatchFiles(found, saved) }
    BY <1>2 DEF SavePartition
  <2>2. saved \in Tasks
    BY <1>2, ConstantsAssumption DEF SavePartition, MoreBatches, Tasks, TypeOK
  <2>3. BatchFiles(found, saved) \subseteq Batch(saved)
    BY <2>2, ConstantsAssumption DEF BatchFiles, Batch, TypeOK
  <2>4. { <<saved, f>> : f \in Batch(saved) } \subseteq RowsOf(NFiles)
    BY <2>2, BatchesAreFiles DEF RowsOf, Files, Batch
  <2> QED BY <2>1, <2>3, <2>4 DEF RowsWithin
<1>3. CASE RowLands
  <2>1. PICK r \in inflight : inflight' = inflight \ {r} /\ part' = part \cup {r}
    BY <1>3 DEF RowLands
  <2>2. adminPc # "start" /\ adminPc' = adminPc
    BY <1>3, <2>1 DEF RowLands, adminVars
  <2> QED BY <2>1, <2>2 DEF RowsWithin
<1>4. CASE RowLost
  BY <1>4 DEF RowLost, RowsWithin, adminVars
<1>5. CASE /\ UNCHANGED <<part, inflight>>
           /\ adminPc' = adminPc \/ (adminPc # "start" /\ adminPc' # "start")
  BY <1>5 DEF RowsWithin
<1>6. CASE Bye \/ WatchTasksStatus \/ Finish \/ StatusCompletion \/ AdminExpired
  BY <1>6, <1>5
  DEF Bye, WatchTasksStatus, Finish, StatusCompletion, AdminExpired, adminVars,
      cassVars
<1>7. ASSUME NEW p \in Procs, ServerStep(p) PROVE Goal
  BY <1>7, <1>5
  DEF ServerStep, ServeWrite, ServeList, ConnectionLoss, adminVars, cassVars
<1>8. ASSUME NEW t \in Tasks, NEW w \in Workers, MasterAssign(t, w)
      PROVE  Goal
  BY <1>8, <1>5 DEF MasterAssign, adminVars, cassVars
<1>9. ASSUME NEW w \in Workers, WorkerStep(w) PROVE Goal
  BY <1>9, <1>5
  DEF WorkerStep, WakeUp, WatchZnode, TasksCompletion, SkipTask, ReadPartition,
      QueryFails, BeginTask, ReKeyFile, FinishTask, Crash, WorkerExpired, Gone,
      adminVars, cassVars
<1>10. CASE UNCHANGED vars
  BY <1>10, <1>5 DEF vars, adminVars, cassVars
<1> QED BY <1>1, <1>2, <1>3, <1>4, <1>6, <1>7, <1>8, <1>9, <1>10
      DEF Next, AdminStep

\* Unless the TRUNCATE fails, no file is re-keyed twice in a round, even when
\* workers are handed batches with files missing.
THEOREM ReKeyedOnce ==
  ASSUME "truncate" \notin Faults PROVE Spec => []NoDoubleReKey
<1> DEFINE Within == RowsWithin /\ (adminPc = "start" => inflight = {})
<1>1. Init => Within
  BY DEF Init, RowsWithin
<1>2. Within /\ FaultsInv /\ [Next]_vars => Within'
  BY RowsWithinNext DEF FaultsInv
<1>3. ASSUME RowsWithin, FaultsInv, NEW f \in Files PROVE rekeyed[f] <= 1
  <2>1. /\ rekeyed[f] \in Nat /\ rekeyed[f] <= Cardinality(Passed(f))
        /\ Passed(f) \subseteq Tasks
    BY <1>3 DEF FaultsInv, TypeOK, PassedInv, Passed, Holding
  <2>2. ASSUME NEW s \in Passed(f), NEW t \in Passed(f) PROVE s = t
    <3>1. PICK w \in Workers : s \in assign[w]
      BY <2>2 DEF Passed, Taken
    <3>2. part \subseteq RowsOf(NFiles)
      BY <1>3, <3>1 DEF FaultsInv, PlacesInv, Started, RowsWithin
    <3>3. f \in Batch(s) /\ f \in Batch(t)
      BY <2>2, <3>2 DEF Passed, Holding, RowsOf, Batch
    <3> QED BY <2>1, <2>2, <3>3, BatchesDisjoint
  <2>3. Passed(f) = {} \/ \E t : Passed(f) = {t}
    BY <2>2
  <2>4. Cardinality(Passed(f)) \in {0, 1}
    BY <2>3, FS_EmptySet, FS_Singleton
  <2> QED BY <2>1, <2>4
<1>4. Within /\ FaultsInv => NoDoubleReKey
  BY <1>3 DEF NoDoubleReKey
<1> HIDE DEF Within
<1> QED BY <1>1, <1>2, <1>4, FaultsInductive, PTL DEF Spec

\* A task that a worker can come across has its whole batch in table part and
\* nothing else, when Cassandra executes what create_batches asks it to: the
\* queries of the workers may fail.
THEOREM PartitionsCorrect ==
  ASSUME Faults \cap {"insert", "files", "truncate"} = {}
  PROVE  Spec => []PartitionBeforeTask
<1>1. Init => RowsInv
  BY DEF Init, RowsInv, Started
<1>2. RowsInv /\ FaultsInv /\ [Next]_vars => RowsInv'
  BY RowsNext DEF FaultsInv
<1>3. ASSUME RowsInv, FaultsInv PROVE PartitionBeforeTask
  <2> SUFFICES ASSUME NEW t \in tasks \cup Assigned
               PROVE  Partition(t) = Batch(t)
    BY DEF PartitionBeforeTask
  <2>1. t \in Tasks
    BY <1>3 DEF FaultsInv, TypeOK, Assigned
  <2>2. part = RowsOf(NFiles)
    BY <1>3 DEF FaultsInv, PlacesInv, RowsInv, Assigned
  <2>3. \A f \in Files : <<t, f>> \in part <=> f \in Batch(t)
    BY <2>1, <2>2 DEF RowsOf, Files, Batch
  <2> QED BY <2>1, <2>3, BatchesAreFiles DEF Partition
<1>4. RowsInv /\ FaultsInv => PartitionBeforeTask
  BY <1>3
<1> QED BY <1>1, <1>2, <1>4, FaultsInductive, PTL DEF Spec

-----------------------------------------------------------------------------
(* When everything but the TRUNCATE succeeds.                               *)

\* The rows of the batches reach the table, over whatever it holds already.
LEMMA RowsThereNext ==
  ASSUME RowsReliable, TypeOK, RowsThere, [Next]_vars PROVE RowsThere'
<1> USE ConstantsAssumption
<1>1. CASE CreateBatches
  <2>1. {r \in Tasks \X Files : r[1] < 0 /\ r[2] \in Batch(r[1])} = {}
    BY DEF Tasks
  <2>2. adminPc' = "create" /\ saved' = 0 /\ found' = NFiles
    BY <1>1 DEF CreateBatches, get_all_files, RowsThere, RowsReliable
  <2> QED BY <2>1, <2>2 DEF RowsThere, Started
<1>2. CASE SavePartition
  <2>1. saved \in Tasks
    BY <1>2 DEF SavePartition, MoreBatches, Tasks, TypeOK
  <2>2. /\ adminPc = "create" /\ adminPc' = "create" /\ part' = part
        /\ inflight' = inflight \cup { <<saved, f>> : f \in Batch(saved) }
        /\ saved' = saved + 1 /\ found' = found /\ found = NFiles
    BY <1>2 DEF SavePartition, RowsThere, Batch
  <2>3. ASSUME NEW r \in Tasks \X Files, r[1] < saved + 1, r[2] \in Batch(r[1])
        PROVE  r \in part \cup inflight'
    <3>1. r[1] \in Tasks /\ r = <<r[1], r[2]>>
      BY <2>3
    <3>2. r[1] < saved \/ r[1] = saved
      BY <2>1, <2>3, <3>1 DEF Tasks
    <3> QED BY <2>2, <2>3, <3>1, <3>2 DEF RowsThere
  <2> QED BY <2>2, <2>3 DEF RowsThere, Started
<1>3. CASE Bye
  <2>1. /\ adminPc = "create" /\ adminPc' = "watch" /\ saved = BatchCount
        /\ inflight = {} /\ part' = part /\ found' = found /\ found = NFiles
    BY <1>3 DEF Bye, InsertsAwaited, cassVars, RowsThere
  <2>2. \A t \in Tasks : t < saved
    BY <2>1 DEF Tasks
  <2>3. {r \in Tasks \X Files : r[2] \in Batch(r[1])} \subseteq part
    BY <2>1, <2>2 DEF RowsThere
  <2> QED BY <2>1, <2>3 DEF RowsThere, RowsOf, Files, Batch, Started
<1>4. CASE RowLands
  <2>1. PICK r \in inflight : inflight' = inflight \ {r} /\ part' = part \cup {r}
    BY <1>4 DEF RowLands
  <2>2. adminPc' = adminPc /\ saved' = saved /\ found' = found
    BY <1>4 DEF RowLands, adminVars
  <2>3. part \subseteq part' /\ part \cup inflight \subseteq part' \cup inflight'
    BY <2>1
  <2> QED BY <2>2, <2>3 DEF RowsThere, Started
<1>5. CASE RowLost
  BY <1>5 DEF RowLost, RowsReliable
<1>6. CASE UNCHANGED <<part, inflight, saved, adminPc, found>>
  BY <1>6 DEF RowsThere, Started
<1>7. CASE Finish \/ AdminExpired
  BY <1>7 DEF Finish, AdminExpired, cassVars, RowsThere, Started
<1>8. CASE WatchTasksStatus \/ StatusCompletion
  BY <1>8, <1>6 DEF WatchTasksStatus, StatusCompletion, adminVars, cassVars
<1>9. ASSUME NEW p \in Procs, ServerStep(p) PROVE RowsThere'
  BY <1>9, <1>6
  DEF ServerStep, ServeWrite, ServeList, ConnectionLoss, adminVars, cassVars
<1>10. ASSUME NEW t \in Tasks, NEW w \in Workers, MasterAssign(t, w)
       PROVE  RowsThere'
  BY <1>10, <1>6 DEF MasterAssign, adminVars, cassVars
<1>11. ASSUME NEW w \in Workers, WorkerStep(w) PROVE RowsThere'
  BY <1>11, <1>6
  DEF WorkerStep, WakeUp, WatchZnode, TasksCompletion, SkipTask, ReadPartition,
      QueryFails, BeginTask, ReKeyFile, FinishTask, Crash, WorkerExpired, Gone,
      adminVars, cassVars
<1>12. CASE UNCHANGED vars
  BY <1>12, <1>6 DEF vars, adminVars, cassVars
<1> QED
  BY <1>1, <1>2, <1>3, <1>4, <1>5, <1>7, <1>8, <1>9, <1>10, <1>11, <1>12
  DEF Next, AdminStep

\* A worker gets the whole of its batch and goes through it file by file.
LEMMA WorkedNext ==
  ASSUME RowsReliable, TypeOK, RowsThere, ProtocolInv, PlacesInv, WorkedInv,
         [Next]_vars
  PROVE  WorkedInv'
<1> SUFFICES ASSUME NEW w \in Workers, cur'[w] # NoTask,
                    NEW f \in Batch(cur'[w]) \ left'[w]
             PROVE  rekeyed'[f] > 0
  BY DEF WorkedInv
<1>t. TypeOK'
  BY TypeNext
<1>f. f \in Files /\ rekeyed[f] \in Nat /\ rekeyed'[f] \in Nat
  BY <1>t, BatchesAreFiles DEF TypeOK
<1>1. rekeyed'[f] >= rekeyed[f]
  <2>1. ASSUME NEW v \in Workers, NEW g \in Files, ReKeyFile(v, g)
        PROVE  rekeyed'[f] = IF f = g THEN rekeyed[f] + 1 ELSE rekeyed[f]
    BY <1>f, <2>1 DEF ReKeyFile, TypeOK
  <2> QED BY <1>f, <2>1, ReKeyedOnlyByReKeyFile
<1>2. CASE cur'[w] = cur[w] /\ left'[w] = left[w]
  BY <1>1, <1>2, <1>f DEF WorkedInv
<1>3. ASSUME NEW g \in left[w], ReKeyFile(w, g) PROVE rekeyed'[f] > 0
  <2>1. /\ left' = [left EXCEPT ![w] = @ \ {g}]
        /\ rekeyed' = [rekeyed EXCEPT ![g] = @ + 1]
        /\ cur' = cur
    BY <1>3 DEF ReKeyFile
  <2>2. CASE f = g
    BY <2>1, <2>2, <1>f DEF TypeOK
  <2>3. CASE f # g
    <3>1. f \in Batch(cur[w]) \ left[w] /\ cur[w] # NoTask
      BY <2>1, <2>3 DEF TypeOK
    <3> QED BY <3>1, <1>1, <1>f DEF WorkedInv
  <2> QED BY <2>2, <2>3
<1>4. ASSUME NEW t \in todo[w], ReadPartition(w, t) \/ QueryFails(w, t),
             cur'[w] = t
      PROVE  FALSE
  <2>1. t \in assign[w] /\ t \in Tasks
    BY DEF ProtocolInv, TypeOK
  <2>2. ReadPartition(w, t)
    BY <1>4 DEF QueryFails, RowsReliable
  <2>3. left'[w] = Partition(t)
    BY <2>2 DEF ReadPartition, BeginTask, TypeOK
  <2>4. RowsOf(NFiles) \subseteq part
    BY <2>1 DEF PlacesInv, RowsThere
  <2>5. <<t, f>> \in RowsOf(NFiles)
    BY <1>4, <1>f, <2>1 DEF RowsOf, Batch, Files
  <2> QED BY <1>4, <1>f, <2>3, <2>4, <2>5 DEF Partition
<1> QED BY <1>2, <1>3, <1>4, WorkerMemory

\* All of it holds before the admin starts, and is preserved.
THEOREM CompleteInductive ==
  ASSUME RowsReliable PROVE Spec => []CompleteInv
<1>1. Init => CompleteInv
  <2>1. Init => RowsThere /\ WorkedInv
    BY DEF Init, RowsThere, WorkedInv, Started
  <2> QED BY <2>1, IInvInit DEF IInv, CompleteInv
<1>2. CompleteInv /\ [Next]_vars => CompleteInv'
  BY TypeNext, RowsThereNext, ProtocolNext, PlacesNext, WorkedNext, ReportNext
  DEF CompleteInv
<1> QED BY <1>1, <1>2, PTL DEF Spec

\* A status znode stands for a batch that has been re-keyed, in every cluster
\* and whatever processes crash, expire or lose their connection.
THEOREM StatusCorrect == ASSUME RowsReliable PROVE Spec => []StatusMeansDone
<1>1. CompleteInv => StatusMeansDone
  BY DEF CompleteInv, ReportInv
<1> QED BY <1>1, CompleteInductive, PTL

\* An admin that has finished leaves no file of any batch under the old key.
THEOREM ReportCorrect == ASSUME RowsReliable PROVE Spec => []AdminFinishedSound
<1>1. CompleteInv => AdminFinishedSound
  BY FinishedMeansCovered DEF CompleteInv, AdminFinishedSound, Covered, Done
<1> QED BY <1>1, CompleteInductive, PTL

=============================================================================
