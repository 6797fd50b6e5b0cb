----------------------------- MODULE ReKeyRounds -----------------------------
(***************************************************************************)
(* Several re-key jobs, one after the other, as zookeeper/test.sh runs     *)
(* them: a round clears the znodes of the one before, starts the Master,   *)
(* restarts the workers of as many machines as the round uses, and runs    *)
(* the admin.  A machine the round does not use keeps its worker: that     *)
(* process still holds the on_going_tasks of the earlier round.            *)
(*                                                                         *)
(* ReKeyCluster has the detail of one round: sessions, partition rows and  *)
(* single files.  Here a request is served when it is issued, and a batch  *)
(* is re-keyed between BeginBatch and FinishBatch.                         *)
(***************************************************************************)
EXTENDS Integers, Sequences, FiniteSets

CONSTANTS
  NMachines,   \* machines of the cluster, the array workers of test.sh
  Uses,        \* Uses[r]: machines of round r, the loop variable w of test.sh
  BatchCount,  \* batches the admin makes; the code passes 100
  Faults,      \* which of RoundFaults may happen, each once
  MaxFaults    \* bound: how many of them in a behaviour

RoundFaults == {"expire", "interrupt", "sameId", "slow", "crash"}

ASSUME RoundsAssumption ==
  /\ NMachines \in Nat \ {0}
  /\ Uses \in Seq(1 .. NMachines)
  /\ BatchCount \in Nat \ {0}
  /\ Faults \subseteq RoundFaults
  /\ MaxFaults \in Nat

MaxRounds == Len(Uses)
Machines == 1 .. NMachines
Tasks == 0 .. BatchCount - 1
NoTask == -1
Dirs == {"status", "assign", "tasks", "workers"}

\* WORKER_ID: a new worker gets the next number.
Ids == 1 .. NMachines * MaxRounds

VARIABLES
  round,       \* the round under way
  script,      \* "reset", "clear", "master", "workers", "admin": where it is
  cleared,     \* how many of the rmr commands have run
  started,     \* machines restarted in this round
  adminPc,     \* "off", "create", "watch", "finished" or "expired"
  saved,       \* tasks the admin has created
  statusDone,  \* status_done of the admin
  dirs,        \* parent znodes that exist
  mailboxes,   \* ids i for which /assign/worker-i exists
  assign,      \* assign[i]: its children
  registered,  \* children of /workers
  tasks,       \* children of /tasks
  status,      \* children of /status
  nextId,      \* ids given out so far
  live,        \* live[m]: "off", "mailbox", "announce", "up" or "dead"
  id,          \* id[m]: WORKER_ID
  ongoing,     \* ongoing[m]: on_going_tasks
  todo,        \* todo[m]: rest of the children list, without the ones to skip
  cur,         \* cur[m]: batch being re-keyed, or NoTask
  born,        \* history: round in which cur[m] was begun
  rekeyed,     \* history: batches begun and re-keyed in this round
  quiet,       \* history: no worker had anything to do at the last reset
  faults       \* history: the faults that have happened

scriptVars == <<round, script, cleared, started>>
adminVars  == <<adminPc, saved, statusDone>>
znodes     == <<dirs, mailboxes, assign, registered, tasks, status>>
histories  == <<rekeyed, quiet, faults>>
workerVars == <<nextId, live, id, ongoing, todo, cur, born>>
vars == <<scriptVars, adminVars, znodes, workerVars, histories>>

Init ==
  /\ round = 0 /\ script = "reset" /\ cleared = 0 /\ started = 0
  /\ adminPc = "off" /\ saved = 0 /\ statusDone = {}
  /\ dirs = {} /\ mailboxes = {} /\ registered = {}
  /\ assign = [i \in Ids |-> {}]
  /\ tasks = {} /\ status = {}
  /\ nextId = 0
  /\ live = [m \in Machines |-> "off"]
  /\ id = [m \in Machines |-> 0]
  /\ ongoing = [m \in Machines |-> {}]
  /\ todo = [m \in Machines |-> {}]
  /\ cur = [m \in Machines |-> NoTask]
  /\ born = [m \in Machines |-> 0]
  /\ rekeyed = {} /\ quiet = TRUE /\ faults = {}

-----------------------------------------------------------------------------
Strike(kind) ==
  /\ kind \in Faults \ faults
  /\ Cardinality(faults) < MaxFaults
  /\ faults' = faults \cup {kind}

\* A worker that is in a batch, or on its way to one.
Working(m) ==
  /\ live[m] = "up"
  /\ cur[m] # NoTask \/ todo[m] # {} \/ assign[id[m]] \ ongoing[m] # {}

-----------------------------------------------------------------------------
(* The script.                                                             *)

\* pkill of the Master and of an admin that is left.
KillMasterAndAdmin ==
  /\ script = "reset"
  /\ round < MaxRounds
  /\ round' = round + 1
  /\ script' = "clear" /\ cleared' = 0 /\ started' = 0
  /\ adminPc' = "off" /\ saved' = 0 /\ statusDone' = {}
  /\ rekeyed' = {}
  /\ quiet' = \A m \in Machines : ~ Working(m)
  /\ UNCHANGED <<znodes, workerVars, faults>>

ClearOrderNoStatus == <<"assign", "tasks", "workers">>
ClearOrder == <<"status", "assign", "tasks", "workers">>

\* rmr removes a parent with all there is below it; workers and their
\* sessions live on.
Rmr ==
  /\ script = "clear"
  /\ cleared < Len(ClearOrder)
  /\ LET d == ClearOrder[cleared + 1] IN
       /\ dirs' = dirs \ {d}
       /\ status' = IF d = "status" THEN {} ELSE status
       /\ tasks' = IF d = "tasks" THEN {} ELSE tasks
       /\ registered' = IF d = "workers" THEN {} ELSE registered
       /\ mailboxes' = IF d = "assign" THEN {} ELSE mailboxes
       /\ assign' = IF d = "assign" THEN [i \in Ids |-> {}] ELSE assign
  /\ cleared' = cleared + 1
  /\ UNCHANGED <<round, script, started, adminVars, workerVars, histories>>

StartMaster ==
  /\ script = "clear"
  /\ cleared = Len(ClearOrder)
  /\ script' = "master"
  /\ UNCHANGED <<round, cleared, started, adminVars, znodes, workerVars,
                 histories>>

\* The new Master creates the parents that are missing, one after the other.
MasterBootstrap ==
  /\ script \notin {"reset", "clear"}
  /\ \E d \in Dirs \ dirs : dirs' = dirs \cup {d}
  /\ UNCHANGED <<scriptVars, adminVars, mailboxes, assign, registered, tasks,
                 status, workerVars, histories>>

\* "sleep 5s" after the start of the Master is long enough, or it is not.
SleepAfterMaster ==
  /\ script = "master"
  /\ IF dirs = Dirs THEN UNCHANGED faults ELSE Strike("slow")
  /\ script' = "workers"
  /\ UNCHANGED <<round, cleared, started, adminVars, znodes, workerVars, rekeyed,
                 quiet>>

\* A process that starts has an empty on_going_tasks.
OnGoingKept(m) == ongoing[m]
OnGoingAtStart(m) == {}

\* WORKER_ID is drawn from srand(time(NULL)): a new one as long as no two
\* workers start in the same second of their clocks.
WorkerIdOfClock == 1
WorkerId == nextId + 1

\* machine_workers: pkill aont_srv, then a new worker.
MachineWorkers ==
  /\ script = "workers"
  /\ started < Uses[round]
  /\ started' = started + 1
  /\ LET m == started + 1 IN
       /\ \/ /\ id' = [id EXCEPT ![m] = WorkerId]
             /\ UNCHANGED faults
          \/ /\ \E i \in 1 .. nextId : id' = [id EXCEPT ![m] = i]
             /\ Strike("sameId")
       /\ live' = [live EXCEPT ![m] = "mailbox"]
       /\ ongoing' = [ongoing EXCEPT ![m] = OnGoingAtStart(m)]
       /\ todo' = [todo EXCEPT ![m] = {}]
       /\ cur' = [cur EXCEPT ![m] = NoTask]
       /\ born' = [born EXCEPT ![m] = 0]
  /\ nextId' = nextId + 1
  /\ UNCHANGED <<round, script, cleared, adminVars, znodes, rekeyed, quiet>>

StartAdmin ==
  /\ script = "workers"
  /\ started = Uses[round]
  /\ script' = "admin"
  /\ adminPc' = "create"
  /\ UNCHANGED <<round, cleared, started, saved, statusDone, znodes, workerVars,
                 histories>>

\* start_admin returns when the admin exits, for whatever reason.
AdminReturns ==
  /\ script = "admin"
  /\ adminPc \in {"finished", "expired"}
  /\ round < MaxRounds
  /\ script' = "reset"
  /\ UNCHANGED <<round, cleared, started, adminVars, znodes, workerVars, histories>>

\* Somebody stops the script and starts it again.
Interrupt ==
  /\ script = "admin"
  /\ adminPc \in {"create", "watch"}
  /\ round < MaxRounds
  /\ script' = "reset"
  /\ Strike("interrupt")
  /\ UNCHANGED <<round, cleared, started, adminVars, znodes, workerVars, rekeyed,
                 quiet>>

-----------------------------------------------------------------------------
(* The admin.  Its requests fail silently when the parent is not there.    *)

MoreTasksOffByOne == saved <= BatchCount
MoreTasks == saved < BatchCount

CreateTask ==
  /\ adminPc = "create"
  /\ MoreTasks
  /\ saved' = saved + 1
  /\ tasks' = IF "tasks" \in dirs THEN tasks \cup {saved} ELSE tasks
  /\ UNCHANGED <<scriptVars, adminPc, statusDone, dirs, mailboxes, assign,
                 registered, status, workerVars, histories>>

BatchesCreated ==
  /\ adminPc = "create"
  /\ saved = BatchCount
  /\ adminPc' = "watch"
  /\ UNCHANGED <<scriptVars, saved, statusDone, znodes, workerVars, histories>>

AllButOneDone == Cardinality(statusDone) >= BatchCount - 1
AllTasksDone == Cardinality(statusDone) = BatchCount

StatusCompletion ==
  /\ adminPc = "watch"
  /\ ~ AllTasksDone
  /\ statusDone' = statusDone \cup status
  /\ UNCHANGED <<scriptVars, adminPc, saved, znodes, workerVars, histories>>

AdminFinishes ==
  /\ adminPc = "watch"
  /\ AllTasksDone
  /\ adminPc' = "finished"
  /\ UNCHANGED <<scriptVars, saved, statusDone, znodes, workerVars, histories>>

\* The loop ends through shutdownThisThing, and main prints a time as well.
AdminExpires ==
  /\ adminPc = "watch"
  /\ adminPc' = "expired"
  /\ Strike("expire")
  /\ UNCHANGED <<scriptVars, saved, statusDone, znodes, workerVars, rekeyed, quiet>>

-----------------------------------------------------------------------------
(* The Master and the workers.                                             *)

Moved(t) == tasks \ {t}

MasterAssign(t, i) ==
  /\ script \notin {"reset", "clear"}
  /\ t \in tasks
  /\ i \in registered /\ i \in mailboxes
  /\ assign' = [assign EXCEPT ![i] = @ \cup {t}]
  /\ tasks' = Moved(t)
  /\ UNCHANGED <<scriptVars, adminVars, dirs, mailboxes, registered, status,
                 workerVars, histories>>

\* Machine m's process goes on to the next request of its wake-up.
Wakes(m, from, to) ==
  /\ live[m] = from
  /\ live' = [live EXCEPT ![m] = to]
  /\ UNCHANGED <<scriptVars, adminVars, dirs, assign, tasks, status, nextId, id,
                 ongoing, todo, cur, born, histories>>

CreateMailbox(m) ==
  /\ Wakes(m, "mailbox", "announce")
  /\ mailboxes' = IF "assign" \in dirs THEN mailboxes \cup {id[m]} ELSE mailboxes
  /\ UNCHANGED registered

Announce(m) ==
  /\ Wakes(m, "announce", "up")
  /\ registered' = IF "workers" \in dirs THEN registered \cup {id[m]}
                                         ELSE registered
  /\ UNCHANGED mailboxes

\* A children list with the tasks that process_task will not skip.
TasksCompletion(m) ==
  /\ live[m] = "up" /\ cur[m] = NoTask /\ todo[m] = {}
  /\ assign[id[m]] \ ongoing[m] # {}
  /\ todo' = [todo EXCEPT ![m] = assign[id[m]] \ ongoing[m]]
  /\ UNCHANGED <<scriptVars, adminVars, znodes, nextId, live, id, ongoing, cur,
                 born, histories>>

BeginBatch(m, t) ==
  /\ live[m] = "up" /\ cur[m] = NoTask
  /\ t \in todo[m]
  /\ todo' = [todo EXCEPT ![m] = @ \ {t}]
  /\ ongoing' = [ongoing EXCEPT ![m] = @ \cup {t}]
  /\ cur' = [cur EXCEPT ![m] = t]
  /\ born' = [born EXCEPT ![m] = round]
  /\ UNCHANGED <<scriptVars, adminVars, znodes, nextId, live, id, histories>>

FinishBatch(m) ==
  /\ live[m] = "up" /\ cur[m] # NoTask
  /\ status' = IF "status" \in dirs THEN status \cup {cur[m]} ELSE status
  /\ rekeyed' = IF born[m] = round THEN rekeyed \cup {cur[m]} ELSE rekeyed
  /\ cur' = [cur EXCEPT ![m] = NoTask]
  /\ UNCHANGED <<scriptVars, adminVars, dirs, mailboxes, assign, registered,
                 tasks, nextId, live, id, ongoing, todo, born, quiet,
                 faults>>

\* A crash, or the end of the worker's session; its znodes stay.
WorkerGone(m) ==
  /\ live[m] \in {"mailbox", "announce", "up"}
  /\ live' = [live EXCEPT ![m] = "dead"]
  /\ cur' = [cur EXCEPT ![m] = NoTask]
  /\ todo' = [todo EXCEPT ![m] = {}]
  /\ Strike("crash")
  /\ UNCHANGED <<scriptVars, adminVars, znodes, nextId, id, ongoing, born, rekeyed,
                 quiet>>

-----------------------------------------------------------------------------
ScriptStep ==
  \/ KillMasterAndAdmin \/ Rmr \/ StartMaster \/ SleepAfterMaster
  \/ MachineWorkers \/ StartAdmin \/ AdminReturns

AdminStep ==
  CreateTask \/ BatchesCreated \/ StatusCompletion \/ AdminFinishes

WorkerStep(m) ==
  \/ CreateMailbox(m) \/ Announce(m) \/ TasksCompletion(m)
  \/ (\E t \in Tasks : BeginBatch(m, t)) \/ FinishBatch(m)

MasterStep == MasterBootstrap \/ \E t \in Tasks, i \in Ids : MasterAssign(t, i)

Next ==
  \/ ScriptStep \/ Interrupt
  \/ AdminStep \/ AdminExpires
  \/ MasterStep
  \/ \E m \in Machines : WorkerStep(m) \/ WorkerGone(m)

\* Every process goes on; nothing is assumed of the faults.
Fairness ==
  /\ WF_vars(ScriptStep) /\ WF_vars(MasterStep)
  /\ WF_vars(CreateTask \/ BatchesCreated \/ AdminFinishes)
  /\ WF_vars(StatusCompletion)
  /\ \A m \in Machines : WF_vars(WorkerStep(m))

Spec == Init /\ [][Next]_vars /\ Fairness

-----------------------------------------------------------------------------
TypeOK ==
  /\ round \in 0 .. MaxRounds
  /\ script \in {"reset", "clear", "master", "workers", "admin"}
  /\ adminPc \in {"off", "create", "watch", "finished", "expired"}
  /\ cleared \in 0 .. Len(ClearOrder)
  /\ started \in 0 .. NMachines
  /\ saved \in 0 .. BatchCount
  /\ dirs \subseteq Dirs
  /\ mailboxes \cup registered \subseteq Ids
  /\ assign \in [Ids -> SUBSET Tasks]
  /\ tasks \cup status \cup statusDone \cup rekeyed \subseteq Tasks
  /\ live \in [Machines -> {"off", "mailbox", "announce", "up", "dead"}]
  /\ nextId \in 0 .. NMachines * MaxRounds
  /\ id \in [Machines -> 0 .. nextId]
  /\ ongoing \in [Machines -> SUBSET Tasks]
  /\ todo \in [Machines -> SUBSET Tasks]
  /\ cur \in [Machines -> Tasks \cup {NoTask}]
  /\ born \in [Machines -> 0 .. MaxRounds]
  /\ quiet \in BOOLEAN
  /\ faults \subseteq RoundFaults

Cleared == script \notin {"reset", "clear"}

DistinctIds == "sameId" \notin faults

\* If no worker had anything left to do when the script began to clear the
\* znodes, a status znode stands for a batch re-keyed since then: none is left
\* from an earlier round, and no process of an earlier round makes one, be it
\* one that shares its WORKER_ID (admin.cpp 345, test.sh 38-43).
StatusOfThisRound == quiet /\ Cleared => status \subseteq rekeyed

\* The admin of such a round ends its loop with all batches re-keyed.
FinishedRoundComplete == quiet /\ adminPc = "finished" => rekeyed = Tasks

\* And it leaves no worker with anything to do, so the next round is such a
\* round as well: only an admin that was stopped or has expired, which looks the
\* same to the script (admin.cpp 485-494), breaks the chain.
FinishedLeavesQuiet ==
  quiet /\ DistinctIds /\ adminPc = "finished" =>
    \A m \in Machines : ~ Working(m)

\* No batch waits in the mailbox of a worker that skips it because it had a
\* batch of that number in an earlier round (zkworker.cpp 218-228).
NotSkipped ==
  quiet /\ DistinctIds /\ Cleared => \A m \in Machines :
    live[m] = "up" =>
      assign[id[m]] \cap ongoing[m] \subseteq rekeyed \cup {cur[m]}

\* No two processes, of whatever rounds, re-key the same batch at a time.
OneWorkerPerBatch ==
  quiet /\ DistinctIds => \A m, n \in Machines :
    m # n /\ cur[m] # NoTask => cur[m] # cur[n]

\* A worker that has not announced itself when the script resets does so in the
\* next round, and is killed: the Master may give batches to it all the same,
\* for nothing removes what it has announced.
LateWorker ==
  script = "reset" /\ \E m \in Machines : live[m] \in {"mailbox", "announce"}

\* With no fault and no late worker, every round comes to its end: the batches
\* of a round all reach workers that re-key them, whatever workers of earlier
\* rounds are still there (test.sh 69-87, admin.cpp 428-480).
LastRoundFinishes ==
  <>(\/ faults # {} \/ LateWorker
     \/ round = MaxRounds /\ adminPc = "finished")

\* A session of the admin that expires, a script that is stopped and two workers
\* of one id look to the next round like a round that has ended well.
Sound == faults \cap {"expire", "interrupt", "sameId"} = {}

Jobs == INSTANCE ReKeyJobs WITH
  Workers <- Machines, Batches <- Tasks, None <- NoTask, MaxJobs <- MaxRounds,
  job <- round, hand <- cur, done <- rekeyed,
  reported <- (adminPc = "finished"), sound <- Sound

\* Until then, whatever crashes and however slow the Master is, the rounds are
\* jobs one after the other, each complete before the next begins, although
\* processes, memories and znodes of one outlive it (test.sh 69-87).
ImplementsJobs == Jobs!Spec

=============================================================================
