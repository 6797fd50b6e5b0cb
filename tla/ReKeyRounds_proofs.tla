-------------------------- MODULE ReKeyRounds_proofs --------------------------
(***************************************************************************)
(* Proofs about ReKeyRounds, for every number of machines and batches, every *)
(* sequence of rounds and all faults.                                        *)
(***************************************************************************)
EXTENDS ReKeyRoundsInv, FiniteSetTheorems, TLAPS

-----------------------------------------------------------------------------
(* The ids, the steps that leave the znodes and the workers alone, and how   *)
(* far the rmr commands have come.                                           *)

\* A round starts at most as many workers as there are machines.
LEMMA IdsBound ==
  /\ MaxRounds \in Nat
  /\ \A r \in 1 .. MaxRounds :
       /\ Uses[r] \in 1 .. NMachines
       /\ (r - 1) * NMachines + NMachines = r * NMachines
       /\ r * NMachines <= NMachines * MaxRounds
  /\ NMachines * MaxRounds \in Nat
<1> USE RoundsAssumption DEF MaxRounds
<1>1. MaxRounds \in Nat /\ \A r \in 1 .. MaxRounds : Uses[r] \in 1 .. NMachines
  OBVIOUS
<1>2. ASSUME NEW r \in 1 .. MaxRounds
      PROVE  (r - 1) * NMachines + NMachines = r * NMachines
  <2> HIDE DEF MaxRounds
  <2> QED BY <1>1, Z3
<1>3. ASSUME NEW r \in 1 .. MaxRounds
      PROVE  r * NMachines <= NMachines * MaxRounds
  <2> HIDE DEF MaxRounds
  <2> QED BY <1>1, Z3
<1>4. NMachines * MaxRounds \in Nat
  <2> HIDE DEF MaxRounds
  <2> QED BY <1>1, Z3
<1> QED BY <1>1, <1>2, <1>3, <1>4

\* The steps of the script, the admin and the Master that only move on.
ControlStep ==
  \/ StartMaster \/ SleepAfterMaster \/ StartAdmin \/ AdminReturns \/ Interrupt
  \/ BatchesCreated \/ AdminFinishes \/ AdminExpires \/ MasterBootstrap

\* A step of control alone leaves znodes and workers as they are.
LEMMA ControlKeeps ==
  ASSUME TypeOK, ControlStep
  PROVE  /\ UNCHANGED <<round, cleared, started, saved, statusDone, mailboxes,
                        assign, registered, tasks, status, workerVars, rekeyed,
                        quiet>>
         /\ script' # "clear" \/ UNCHANGED script
         /\ \A k \in 1 .. 4 : Past(k)' => Past(k)
         /\ DistinctIds' <=> DistinctIds
BY DEF ControlStep, StartMaster, SleepAfterMaster, StartAdmin, AdminReturns,
       Interrupt, BatchesCreated, AdminFinishes, AdminExpires, MasterBootstrap,
       Strike, scriptVars, adminVars, znodes, workerVars, histories, Past,
       DistinctIds, ClearOrder, TypeOK

\* What the k-th rmr removes.
LEMMA RmrClears ==
  ASSUME TypeOK, Rmr
  PROVE  /\ script = "clear" /\ script' = "clear"
         /\ cleared \in 0 .. 3 /\ cleared' = cleared + 1
         /\ status' = IF cleared = 0 THEN {} ELSE status
         /\ assign' = IF cleared = 1 THEN [i \in Ids |-> {}] ELSE assign
         /\ mailboxes' = IF cleared = 1 THEN {} ELSE mailboxes
         /\ tasks' = IF cleared = 2 THEN {} ELSE tasks
         /\ registered' = IF cleared = 3 THEN {} ELSE registered
         /\ UNCHANGED <<round, started, adminVars, workerVars, histories>>
<1>1. /\ script = "clear" /\ script' = "clear"
      /\ cleared \in 0 .. 3 /\ cleared' = cleared + 1
      /\ UNCHANGED <<round, started, adminVars, workerVars, histories>>
  BY DEF Rmr, ClearOrder, TypeOK
<1> DEFINE d == ClearOrder[cleared + 1]
<1>2. /\ (d = "status") = (cleared = 0)
      /\ (d = "assign") = (cleared = 1)
      /\ (d = "tasks") = (cleared = 2)
      /\ (d = "workers") = (cleared = 3)
  BY <1>1 DEF ClearOrder
<1> HIDE DEF d
<1> QED BY <1>1, <1>2 DEF Rmr, d

\* WORKER_IDs are shared from the first collision on.
LEMMA SharedIdsStay == [Next]_vars /\ DistinctIds' => DistinctIds
BY DEF DistinctIds, Next, ScriptStep, KillMasterAndAdmin, Rmr, StartMaster,
       SleepAfterMaster, MachineWorkers, StartAdmin, AdminReturns, Interrupt,
       AdminStep, CreateTask, BatchesCreated, StatusCompletion, AdminFinishes,
       AdminExpires, MasterStep, MasterBootstrap, MasterAssign, WorkerStep,
       CreateMailbox, Announce, Wakes, TasksCompletion, BeginBatch, FinishBatch,
       WorkerGone, Strike, histories, vars

-----------------------------------------------------------------------------
(* The workers' ids.                                                         *)

\* A worker in use has an id that was given out.
LEMMA WorkerHasId ==
  ASSUME TypeOK, ScriptInv, NEW m \in Machines, Used(m)
  PROVE  id[m] \in 1 .. nextId /\ id[m] \in Ids
BY IdsBound DEF TypeOK, ScriptInv, Ids

\* Machine m gets a new process that draws the id i.
Restarts(m, i) ==
  /\ script = "workers" /\ round \in 1 .. MaxRounds
  /\ m = started + 1 /\ started' = m /\ m \in 0 .. NMachines
  /\ nextId' = nextId + 1
  /\ nextId' <= (round - 1) * NMachines + started'
  /\ nextId' \in Ids /\ nextId' \in 0 .. NMachines * MaxRounds
  /\ DistinctIds' => i = nextId'
  /\ id' = [id EXCEPT ![m] = i]
  /\ live' = [live EXCEPT ![m] = "mailbox"]
  /\ ongoing' = [ongoing EXCEPT ![m] = {}]
  /\ todo' = [todo EXCEPT ![m] = {}]
  /\ cur' = [cur EXCEPT ![m] = NoTask]
  /\ born' = [born EXCEPT ![m] = 0]
  /\ faults' \subseteq RoundFaults
  /\ UNCHANGED <<round, script, cleared, adminVars, znodes, rekeyed, quiet>>

\* The script restarts one machine, which gets some id up to the next one.
LEMMA RestartEffect ==
  ASSUME TypeOK, ScriptInv, MachineWorkers
  PROVE  \E m \in Machines, i \in 1 .. nextId + 1 : Restarts(m, i)
<1> DEFINE m == started + 1
<1> DEFINE k == (round - 1) * NMachines
<1>0. nextId \in Nat
  BY IdsBound DEF TypeOK
<1>1. /\ round \in 1 .. MaxRounds
      /\ m \in 1 .. Uses[round] /\ m \in Machines /\ m \in 0 .. NMachines
  BY RoundsAssumption, IdsBound, SMTT(30) DEF MachineWorkers, TypeOK, ScriptInv, Machines
<1>2. k \in Int /\ nextId <= k + started /\ k + NMachines <= NMachines * MaxRounds
  BY <1>1, RoundsAssumption, IdsBound DEF ScriptInv, TypeOK
<1>3. nextId' = nextId + 1 /\ started' = m
  BY DEF MachineWorkers
<1> HIDE DEF k
<1>4. nextId' <= k + started' /\ nextId' <= NMachines * MaxRounds
  BY <1>1, <1>2, <1>3, RoundsAssumption, IdsBound DEF TypeOK
<1>5. nextId' \in Ids /\ nextId' \in 0 .. NMachines * MaxRounds
  BY <1>3, <1>4, IdsBound DEF TypeOK, Ids
<1>6. PICK i \in 1 .. nextId + 1 :
        /\ id' = [id EXCEPT ![m] = i]
        /\ DistinctIds' => i = nextId'
        /\ faults' \subseteq RoundFaults
  <2>1. CASE id' = [id EXCEPT ![m] = WorkerId] /\ UNCHANGED faults
    <3>1. nextId + 1 \in 1 .. nextId + 1
      BY <1>0
    <3>2. id' = [id EXCEPT ![m] = nextId + 1] /\ faults' \subseteq RoundFaults
      BY <2>1 DEF WorkerId, TypeOK
    <3> QED BY <3>1, <3>2, <1>3
  <2>2. CASE /\ \E i \in 1 .. nextId : id' = [id EXCEPT ![m] = i]
             /\ Strike("sameId")
    <3>1. ~ DistinctIds' /\ faults' \subseteq RoundFaults
      BY <2>2 DEF Strike, DistinctIds, TypeOK, RoundFaults
    <3>2. PICK i \in 1 .. nextId : id' = [id EXCEPT ![m] = i]
      BY <2>2
    <3>3. i \in 1 .. nextId + 1
      BY <1>0
    <3> QED BY <3>1, <3>2, <3>3
  <2> QED BY <2>1, <2>2 DEF MachineWorkers
<1>7. nextId' <= (round - 1) * NMachines + started'
  BY <1>4 DEF k
<1>8. /\ script = "workers"
      /\ live' = [live EXCEPT ![m] = "mailbox"]
      /\ ongoing' = [ongoing EXCEPT ![m] = {}]
      /\ todo' = [todo EXCEPT ![m] = {}]
      /\ cur' = [cur EXCEPT ![m] = NoTask]
      /\ born' = [born EXCEPT ![m] = 0]
      /\ UNCHANGED <<round, script, cleared, adminVars, znodes, rekeyed, quiet>>
  BY DEF MachineWorkers, OnGoingAtStart
<1>9. Restarts(m, i)
  BY <1>1, <1>3, <1>5, <1>6, <1>7, <1>8 DEF Restarts
<1> QED BY <1>1, <1>9

-----------------------------------------------------------------------------
(* Type correctness, with the bound on the ids it needs.                     *)

\* The state before the first round.
LEMMA TypeInit == Init => TypeOK /\ ScriptInv
<1> USE RoundsAssumption, IdsBound
<1>1. \A S : {} \in SUBSET S
  OBVIOUS
<1> QED BY <1>1 DEF Init, TypeOK, ScriptInv, Used, Ids, Machines, RoundFaults, ClearOrder

\* The ids given out never exceed those there are, so that types are kept.
LEMMA TypeNext == TypeOK /\ ScriptInv /\ [Next]_vars => TypeOK' /\ ScriptInv'
<1> SUFFICES ASSUME TypeOK, ScriptInv, [Next]_vars
             PROVE  TypeOK' /\ ScriptInv'
  OBVIOUS
<1> USE RoundsAssumption, IdsBound
<1>n. NMachines * MaxRounds \in Nat /\ 0 \in 0 .. NMachines * MaxRounds
  BY IdsBound
<1>1. CASE KillMasterAndAdmin
  <2>1. round' = round + 1 /\ round' \in 1 .. MaxRounds
    BY <1>1 DEF KillMasterAndAdmin, TypeOK
  <2>2. nextId <= (round' - 1) * NMachines
    <3>1. CASE round = 0
      BY <2>1, <3>1 DEF ScriptInv
    <3>2. CASE round > 0
      <4>1. round \in 1 .. MaxRounds
        BY <3>2, <2>1 DEF TypeOK
      <4>2. nextId <= (round - 1) * NMachines + NMachines
        <5> DEFINE k == (round - 1) * NMachines
        <5>1. k \in Int /\ nextId <= k + started
          BY <3>2, <4>1, IdsBound DEF ScriptInv, TypeOK
        <5> HIDE DEF k
        <5>2. nextId <= k + NMachines
          BY <5>1 DEF TypeOK
        <5> QED BY <5>2 DEF k
      <4> QED BY <4>1, <4>2, <2>1, IdsBound
    <3> QED BY <3>1, <3>2, <2>1 DEF TypeOK
  <2>3. ScriptInv'
    BY <2>1, <2>2, <1>1, IdsBound
    DEF KillMasterAndAdmin, ScriptInv, Used, TypeOK, workerVars
  <2>4. TypeOK'
    BY <2>1, <1>1 DEF KillMasterAndAdmin, TypeOK, znodes, workerVars, ClearOrder
  <2> QED BY <2>3, <2>4
<1>2. CASE Rmr
  BY <1>2, RmrClears DEF Rmr, TypeOK, ScriptInv, Used, adminVars, workerVars, histories, ClearOrder
<1>3. CASE ControlStep
  <2>1. ScriptInv'
    BY <1>3, ControlKeeps DEF ControlStep, StartMaster, SleepAfterMaster,
       StartAdmin, AdminReturns, Interrupt, BatchesCreated, AdminFinishes,
       AdminExpires, MasterBootstrap, ScriptInv, Used, TypeOK, workerVars, scriptVars, adminVars
  <2>2. /\ script' \in {"reset", "clear", "master", "workers", "admin"}
        /\ adminPc' \in {"off", "create", "watch", "finished", "expired"}
        /\ dirs' \subseteq Dirs
        /\ faults' \subseteq RoundFaults
    BY <1>3 DEF ControlStep, StartMaster, SleepAfterMaster,
       StartAdmin, AdminReturns, Interrupt, BatchesCreated, AdminFinishes,
       AdminExpires, MasterBootstrap, TypeOK, Strike, scriptVars, adminVars, znodes, histories
  <2>3. TypeOK'
    BY <1>3, <2>2, ControlKeeps DEF TypeOK, workerVars
  <2> QED BY <2>1, <2>3
<1>4. CASE MachineWorkers
  <2>1. PICK m \in Machines, i \in 1 .. nextId + 1 : Restarts(m, i)
    BY <1>4, RestartEffect
  <2>2. ScriptInv'
    <3>1. round > 0 /\ nextId' <= (round - 1) * NMachines + started'
      BY <2>1 DEF Restarts
    <3>2. \A n \in Machines : Used(n)' => id'[n] \in 1 .. nextId'
      BY <2>1 DEF Restarts, Used, ScriptInv, TypeOK
    <3>3. round' = round /\ adminPc' = "off"
      BY <2>1 DEF Restarts, ScriptInv, adminVars
    <3> QED BY <3>1, <3>2, <3>3 DEF ScriptInv
  <2>3. /\ nextId' = nextId + 1 /\ i \in 0 .. nextId'
        /\ 0 .. nextId \subseteq 0 .. nextId'
    BY <2>1 DEF Restarts, TypeOK
  <2>4. /\ id' \in [Machines -> 0 .. nextId']
        /\ live' \in [Machines -> {"off", "mailbox", "announce", "up", "dead"}]
        /\ ongoing' \in [Machines -> SUBSET Tasks]
        /\ todo' \in [Machines -> SUBSET Tasks]
        /\ cur' \in [Machines -> Tasks \cup {NoTask}]
    BY <2>1, <2>3 DEF Restarts, TypeOK
  <2>5. born' \in [Machines -> 0 .. MaxRounds]
    BY <2>1 DEF Restarts, TypeOK
  <2>6. TypeOK'
    BY <2>1, <2>4, <2>5 DEF Restarts, TypeOK, znodes, adminVars
  <2> QED BY <2>2, <2>6
<1>5. CASE CreateTask
  <2>1. saved \in Tasks /\ saved' \in 0 .. BatchCount
    BY <1>5 DEF CreateTask, MoreTasks, TypeOK, Tasks
  <2> QED BY <1>5, <2>1 DEF CreateTask, TypeOK, ScriptInv, Used, scriptVars, workerVars,
                            histories
<1>6. CASE StatusCompletion
  BY <1>6 DEF StatusCompletion, TypeOK, ScriptInv, Used, scriptVars, znodes, workerVars,
              histories
<1>7. ASSUME NEW t \in Tasks, NEW i \in Ids, MasterAssign(t, i)
      PROVE  TypeOK' /\ ScriptInv'
  BY <1>7 DEF MasterAssign, Moved, TypeOK, ScriptInv, Used, scriptVars, adminVars,
              workerVars, histories
<1>8. ASSUME NEW m \in Machines, CreateMailbox(m) \/ Announce(m)
      PROVE  TypeOK' /\ ScriptInv'
  <2>1. Used(m) /\ id[m] \in Ids
    BY <1>8, WorkerHasId DEF CreateMailbox, Announce, Wakes, Used
  <2> QED BY <1>8, <2>1 DEF CreateMailbox, Announce, Wakes, TypeOK, ScriptInv,
                            Used, scriptVars, adminVars, histories
<1>9. ASSUME NEW m \in Machines, TasksCompletion(m) PROVE TypeOK' /\ ScriptInv'
  <2>1. id[m] \in Ids
    BY <1>9, WorkerHasId DEF TasksCompletion, Used
  <2> QED BY <1>9, <2>1 DEF TasksCompletion, TypeOK, ScriptInv, Used, scriptVars,
                            adminVars, znodes, histories
<1>10. ASSUME NEW m \in Machines, NEW t \in Tasks, BeginBatch(m, t)
       PROVE  TypeOK' /\ ScriptInv'
  BY <1>10 DEF BeginBatch, TypeOK, ScriptInv, Used, scriptVars, adminVars, znodes,
               histories
<1>11. ASSUME NEW m \in Machines, FinishBatch(m) PROVE TypeOK' /\ ScriptInv'
  BY <1>11 DEF FinishBatch, TypeOK, ScriptInv, Used, scriptVars, adminVars
<1>12. ASSUME NEW m \in Machines, WorkerGone(m) PROVE TypeOK' /\ ScriptInv'
  BY <1>12 DEF WorkerGone, Strike, TypeOK, ScriptInv, Used, scriptVars, adminVars, znodes
<1>13. CASE UNCHANGED vars
  BY <1>13 DEF vars, scriptVars, adminVars, znodes, workerVars, histories, TypeOK,
               ScriptInv, Used
<1> QED
  BY <1>1, <1>2, <1>3, <1>4, <1>5, <1>6, <1>7, <1>8, <1>9, <1>10, <1>11, <1>12,
     <1>13
  DEF Next, ScriptStep, AdminStep, MasterStep, WorkerStep, ControlStep

\* What the steps of the workers themselves leave alone.
LEMMA WorkerKeeps ==
  ASSUME NEW m \in Machines, WorkerStep(m) \/ WorkerGone(m)
  PROVE  UNCHANGED <<round, script, cleared, started, adminVars, dirs, assign,
                     tasks, nextId, id, quiet>>
BY DEF WorkerStep, WorkerGone, CreateMailbox, Announce, Wakes, TasksCompletion,
       BeginBatch, FinishBatch, scriptVars, znodes, histories

-----------------------------------------------------------------------------
(* What processes have, and the ids they share.                              *)

\* No machine is in use yet.
LEMMA ProcessInit == Init => ProcessInv
BY DEF Init, ProcessInv, Used, Starting

\* A restarted worker has a new id, and nothing in hand or memory.
LEMMA ProcessNext ==
  TypeOK /\ ScriptInv /\ ProcessInv /\ [Next]_vars => ProcessInv'
<1> SUFFICES ASSUME TypeOK, ScriptInv, ProcessInv, [Next]_vars
             PROVE  ProcessInv'
  OBVIOUS
<1>d. DistinctIds' => DistinctIds
  BY SharedIdsStay
<1>n. nextId \in Nat
  BY IdsBound DEF TypeOK
<1> USE DEF ProcessInv, Used, Starting
<1>1. CASE KillMasterAndAdmin
  BY <1>1, <1>d DEF KillMasterAndAdmin, znodes, workerVars
<1>2. CASE Rmr
  <2>1. /\ registered' \subseteq registered /\ mailboxes' \subseteq mailboxes
        /\ \A i \in Ids : assign'[i] \subseteq assign[i]
        /\ UNCHANGED workerVars
    BY <1>2, RmrClears
  <2>2. \A m \in Machines : Used(m) => id[m] \in Ids
    BY WorkerHasId
  <2> QED BY <2>1, <2>2, <1>d DEF workerVars
<1>3. CASE ControlStep
  BY <1>3, <1>d, ControlKeeps DEF workerVars
<1>4. CASE MachineWorkers
  <2>1. PICK m \in Machines, i \in 1 .. nextId + 1 : Restarts(m, i)
    BY <1>4, RestartEffect
  <2> USE <2>1 DEF Restarts, znodes
  <2>2. nextId' = nextId + 1 /\ 1 .. nextId \subseteq 1 .. nextId' /\ nextId' \in Ids
    BY <1>n
  <2>3. \A n \in Machines : id[n] # nextId'
    BY <1>n DEF TypeOK
  <2>4. nextId' \notin registered /\ assign[nextId'] = {}
    BY <1>n
  <2>5. \A n \in Machines :
          /\ live'[n] # "up" => cur'[n] = NoTask /\ todo'[n] = {}
          /\ todo'[n] \cap ongoing'[n] = {}
          /\ cur'[n] # NoTask => cur'[n] \in ongoing'[n]
          /\ Starting(n)' => ongoing'[n] = {}
    BY SMTT(60) DEF TypeOK
  <2>6. /\ registered' \cup mailboxes' \subseteq 1 .. nextId'
        /\ \A j \in Ids : assign'[j] # {} => j \in 1 .. nextId'
    BY <2>2
  <2>7. DistinctIds' => \A o, n \in Machines :
          o # n /\ Used(o)' /\ Used(n)' => id'[o] # id'[n]
    BY <1>d, <2>3, SMTT(30) DEF TypeOK
  <2>8. DistinctIds' => \A n \in Machines :
          Starting(n)' => id'[n] \notin registered' /\ assign'[id'[n]] = {}
    BY <1>d, <2>4 DEF TypeOK
  <2> QED BY <2>5, <2>6, <2>7, <2>8
<1>5. CASE CreateTask
  BY <1>5, <1>d DEF CreateTask, workerVars
<1>6. CASE StatusCompletion
  BY <1>6, <1>d DEF StatusCompletion, znodes, workerVars
<1>7. ASSUME NEW t \in Tasks, NEW i \in Ids, MasterAssign(t, i)
      PROVE  ProcessInv'
  BY <1>7, <1>d, WorkerHasId DEF MasterAssign, workerVars, TypeOK
<1>8. ASSUME NEW m \in Machines, CreateMailbox(m) PROVE ProcessInv'
  BY <1>8, <1>d, WorkerHasId, SMTT(30) DEF CreateMailbox, Wakes, TypeOK
<1>9. ASSUME NEW m \in Machines, Announce(m) PROVE ProcessInv'
  BY <1>9, <1>d, WorkerHasId, SMTT(30) DEF Announce, Wakes, TypeOK
<1>10. ASSUME NEW m \in Machines, TasksCompletion(m) PROVE ProcessInv'
  BY <1>10, <1>d DEF TasksCompletion, znodes, TypeOK
<1>11. ASSUME NEW m \in Machines, NEW t \in Tasks, BeginBatch(m, t)
       PROVE  ProcessInv'
  BY <1>11, <1>d DEF BeginBatch, znodes, TypeOK
<1>12. ASSUME NEW m \in Machines, FinishBatch(m) PROVE ProcessInv'
  BY <1>12, <1>d DEF FinishBatch, TypeOK
<1>13. ASSUME NEW m \in Machines, WorkerGone(m) PROVE ProcessInv'
  BY <1>13, <1>d DEF WorkerGone, znodes, TypeOK
<1>14. CASE UNCHANGED vars
  BY <1>14, <1>d DEF vars, znodes, workerVars
<1> QED
  BY <1>1, <1>2, <1>3, <1>4, <1>5, <1>6, <1>7, <1>8, <1>9, <1>10, <1>11, <1>12,
     <1>13, <1>14
  DEF Next, ScriptStep, AdminStep, MasterStep, WorkerStep, ControlStep

-----------------------------------------------------------------------------
(* Where tasks are.                                                          *)

\* No task is anywhere yet.
LEMMA PlacesInit == Init => PlacesInv
BY DEF Init, PlacesInv

\* The Master moves a task, and the admin creates those it has not created.
LEMMA PlacesNext ==
  TypeOK /\ ScriptInv /\ PlacesInv /\ [Next]_vars => PlacesInv'
<1> SUFFICES ASSUME TypeOK, ScriptInv, PlacesInv, [Next]_vars
             PROVE  PlacesInv'
  OBVIOUS
<1> USE DEF PlacesInv
<1>1. CASE KillMasterAndAdmin
  BY <1>1 DEF KillMasterAndAdmin, Past
<1>2. CASE Rmr
  <2>1. cleared \in 0 .. 3 /\ cleared' = cleared + 1 /\ script = "clear"
        /\ saved' = saved
    BY <1>2, RmrClears DEF adminVars
  <2>2. CASE cleared = 0
    BY <2>1, <2>2, <1>2, RmrClears DEF Past
  <2>3. CASE cleared = 1
    BY <2>1, <2>3, <1>2, RmrClears DEF Past
  <2>4. CASE cleared = 2
    BY <2>1, <2>4, <1>2, RmrClears DEF Past
  <2>5. CASE cleared = 3
    BY <2>1, <2>5, <1>2, RmrClears DEF Past
  <2> QED BY <2>1, <2>2, <2>3, <2>4, <2>5
<1>3. CASE ControlStep
  BY <1>3, ControlKeeps
<1>4. CASE MachineWorkers
  BY <1>4 DEF MachineWorkers, Past, adminVars, znodes
<1>5. CASE CreateTask
  <2>1. /\ saved \in Nat /\ saved' = saved + 1
        /\ tasks' \subseteq tasks \cup {saved} /\ assign' = assign
        /\ Past(2)' = Past(2) /\ Past(3)' = Past(3)
        /\ tasks \subseteq Tasks /\ \A i \in Ids : assign[i] \subseteq Tasks
    BY <1>5 DEF CreateTask, TypeOK, Past, scriptVars
  <2> QED BY <2>1 DEF Tasks
<1>6. CASE StatusCompletion
  BY <1>6 DEF StatusCompletion, Past, scriptVars, znodes
<1>7. ASSUME NEW t \in Tasks, NEW i \in Ids, MasterAssign(t, i)
      PROVE  PlacesInv'
  <2>1. /\ Past(2) /\ Past(3) /\ t \in tasks /\ tasks' = tasks \ {t}
        /\ assign' = [assign EXCEPT ![i] = @ \cup {t}] /\ saved' = saved
    BY <1>7 DEF MasterAssign, Moved, Past, adminVars
  <2>2. \A j \in Ids : assign'[j] = IF j = i THEN assign[i] \cup {t} ELSE assign[j]
    BY <2>1 DEF TypeOK
  <2>3. \A j \in Ids : t \notin assign[j]
    BY <2>1
  <2>4. \A j \in Ids : \A u \in assign'[j] : u < saved' /\ u \notin tasks'
    BY <2>1, <2>2, <2>3
  <2>5. \A j, k \in Ids : j # k => assign'[j] \cap assign'[k] = {}
    BY <2>1, <2>2, <2>3
  <2> QED BY <2>1, <2>4, <2>5
<1>8. ASSUME NEW m \in Machines, WorkerStep(m) \/ WorkerGone(m) PROVE PlacesInv'
  BY <1>8, WorkerKeeps DEF Past, adminVars
<1>9. CASE UNCHANGED vars
  BY <1>9 DEF vars, scriptVars, adminVars, znodes, Past
<1> QED
  BY <1>1, <1>2, <1>3, <1>4, <1>5, <1>6, <1>7, <1>8, <1>9
  DEF Next, ScriptStep, AdminStep, MasterStep, ControlStep

-----------------------------------------------------------------------------
(* What a round finds and leaves.                                            *)

\* As many names of batches as there are batches are all of them.
LEMMA AllTasksAreDone ==
  ASSUME TypeOK, AllTasksDone
  PROVE  statusDone = Tasks
<1>1. IsFiniteSet(Tasks) /\ Cardinality(Tasks) = BatchCount
  BY RoundsAssumption, FS_Interval DEF Tasks
<1>2. statusDone \in SUBSET Tasks
  BY DEF TypeOK
<1> QED BY <1>1, <1>2, FS_Subset DEF AllTasksDone

\* A reset counts as quiet when nobody has anything in hand.
LEMMA QuietReset ==
  ASSUME TypeOK, ProcessInv, KillMasterAndAdmin, quiet'
  PROVE  \A m \in Machines : ~ Working(m) /\ todo[m] = {} /\ cur[m] = NoTask
BY DEF KillMasterAndAdmin, Working, ProcessInv, TypeOK

\* No batch is in hand and no status is there yet.
LEMMA RoundInit == Init => RoundInv
BY DEF Init, RoundInv

\* A batch in hand was begun after the reset if no worker was busy at the
\* reset.
LEMMA RoundNext ==
  TypeOK /\ ScriptInv /\ ProcessInv /\ RoundInv /\ [Next]_vars => RoundInv'
<1> SUFFICES ASSUME TypeOK, ScriptInv, ProcessInv, RoundInv, [Next]_vars
             PROVE  RoundInv'
  OBVIOUS
<1> USE DEF RoundInv
<1>1. CASE KillMasterAndAdmin
  <2>1. /\ script' = "clear" /\ cleared' = 0 /\ adminPc' = "off"
        /\ statusDone' = {} /\ cur' = cur
    BY <1>1 DEF KillMasterAndAdmin, workerVars
  <2>2. ~ Past(1)'
    BY <2>1 DEF Past
  <2>3. quiet' => \A m \in Machines : cur[m] = NoTask
    BY <1>1, QuietReset
  <2> QED BY <2>1, <2>2, <2>3
<1>2. CASE Rmr
  <2>1. /\ UNCHANGED <<round, adminVars, workerVars, histories>>
        /\ script = "clear" /\ cleared \in 0 .. 3 /\ cleared' = cleared + 1
        /\ status' = IF cleared = 0 THEN {} ELSE status
    BY <1>2, RmrClears
  <2>2. status' = {} \/ (status' = status /\ Past(1))
    BY <2>1 DEF Past
  <2> QED BY <2>1, <2>2 DEF adminVars, workerVars, histories
<1>3. CASE ControlStep
  <2>1. adminPc' = "finished" => adminPc = "finished" \/ AllTasksDone
    BY <1>3 DEF ControlStep, StartMaster, SleepAfterMaster, StartAdmin,
       AdminReturns, Interrupt, BatchesCreated, AdminFinishes, AdminExpires,
       MasterBootstrap, adminVars
  <2>2. adminPc' = "finished" => adminPc = "finished" \/ statusDone = Tasks
    BY <2>1, AllTasksAreDone
  <2>3. /\ UNCHANGED <<round, statusDone, status, workerVars, rekeyed, quiet>>
        /\ Past(1)' => Past(1)
    BY <1>3, ControlKeeps
  <2> QED BY <2>2, <2>3 DEF workerVars
<1>4. CASE MachineWorkers
  <2>1. PICK m \in Machines, i \in 1 .. nextId + 1 : Restarts(m, i)
    BY <1>4, RestartEffect
  <2> QED BY <2>1 DEF Restarts, adminVars, znodes, Past, TypeOK
<1>5. CASE CreateTask
  BY <1>5 DEF CreateTask, scriptVars, workerVars, histories, Past
<1>6. CASE StatusCompletion
  BY <1>6 DEF StatusCompletion, ScriptInv, scriptVars, znodes, workerVars,
              histories, Past
<1>7. ASSUME NEW t \in Tasks, NEW i \in Ids, MasterAssign(t, i) PROVE RoundInv'
  BY <1>7 DEF MasterAssign, scriptVars, adminVars, workerVars, histories, Past
<1>8. ASSUME NEW m \in Machines, CreateMailbox(m) \/ Announce(m) PROVE RoundInv'
  BY <1>8 DEF CreateMailbox, Announce, Wakes, scriptVars, adminVars, histories, Past
<1>9. ASSUME NEW m \in Machines, TasksCompletion(m) PROVE RoundInv'
  BY <1>9 DEF TasksCompletion, scriptVars, adminVars, znodes, histories, Past
<1>10. ASSUME NEW m \in Machines, NEW t \in Tasks, BeginBatch(m, t)
       PROVE  RoundInv'
  BY <1>10 DEF BeginBatch, scriptVars, adminVars, znodes, histories, Past, TypeOK
<1>11. ASSUME NEW m \in Machines, FinishBatch(m) PROVE RoundInv'
  BY <1>11 DEF FinishBatch, scriptVars, adminVars, Past, TypeOK
<1>12. ASSUME NEW m \in Machines, WorkerGone(m) PROVE RoundInv'
  BY <1>12 DEF WorkerGone, scriptVars, adminVars, znodes, Past, TypeOK
<1>13. CASE UNCHANGED vars
  BY <1>13 DEF vars, scriptVars, adminVars, znodes, workerVars, histories, Past
<1> QED
  BY <1>1, <1>2, <1>3, <1>4, <1>5, <1>6, <1>7, <1>8, <1>9, <1>10, <1>11, <1>12,
     <1>13
  DEF Next, ScriptStep, AdminStep, MasterStep, WorkerStep, ControlStep

\* Only the reset begins to clear znodes, and only there quiet is told anew.
LEMMA OnlyResetsClear ==
  ASSUME [Next]_vars, ~ KillMasterAndAdmin
  PROVE  quiet' = quiet /\ (script' = "clear" => script = "clear")
BY DEF Next, ScriptStep, Rmr, StartMaster, SleepAfterMaster, MachineWorkers,
       StartAdmin, AdminReturns, Interrupt, AdminStep, CreateTask, BatchesCreated,
       StatusCompletion, AdminFinishes, AdminExpires, MasterStep, MasterBootstrap,
       MasterAssign, WorkerStep, CreateMailbox, Announce, Wakes, TasksCompletion,
       BeginBatch, FinishBatch, WorkerGone, scriptVars, histories, vars

\* No script clears yet.
LEMMA IdleInit == Init => IdleInv
BY DEF Init, IdleInv

\* A worker that was idle at the reset gets no batch before the Master is back.
LEMMA IdleNext ==
  TypeOK /\ ScriptInv /\ ProcessInv /\ IdleInv /\ [Next]_vars => IdleInv'
<1> SUFFICES ASSUME TypeOK, ScriptInv, ProcessInv, IdleInv, [Next]_vars,
                    quiet', DistinctIds', script' = "clear"
             PROVE  /\ rekeyed' = {}
                    /\ \A m \in Machines :
                         ~ Working(m)' /\ todo'[m] = {} /\ cur'[m] = NoTask
  BY DEF IdleInv
<1>d. DistinctIds
  BY SharedIdsStay
<1>1. CASE KillMasterAndAdmin
  BY <1>1, QuietReset DEF KillMasterAndAdmin, Working, znodes, workerVars
<1> SUFFICES ASSUME ~ KillMasterAndAdmin
             PROVE  /\ rekeyed' = {}
                    /\ \A m \in Machines :
                         ~ Working(m)' /\ todo'[m] = {} /\ cur'[m] = NoTask
  BY <1>1
<1>i. /\ script = "clear"
      /\ rekeyed = {}
      /\ \A m \in Machines : ~ Working(m) /\ todo[m] = {} /\ cur[m] = NoTask
  BY <1>d, OnlyResetsClear DEF IdleInv
<1>2. CASE Rmr
  <2>1. /\ UNCHANGED <<workerVars, histories>>
        /\ \A i \in Ids : assign'[i] \subseteq assign[i]
    BY <1>2, RmrClears
  <2>2. \A m \in Machines : Used(m) => id[m] \in Ids
    BY WorkerHasId
  <2> QED BY <2>1, <2>2, <1>i DEF workerVars, histories, Working, Used
<1>3. CASE ControlStep
  BY <1>3, <1>i, ControlKeeps DEF workerVars, Working
<1>4. CASE MachineWorkers
  BY <1>4 DEF MachineWorkers
<1>5. CASE CreateTask
  BY <1>5, <1>i DEF CreateTask, workerVars, histories, Working
<1>6. CASE StatusCompletion
  BY <1>6, <1>i DEF StatusCompletion, znodes, workerVars, histories, Working
<1>7. ASSUME NEW t \in Tasks, NEW i \in Ids, MasterAssign(t, i) PROVE FALSE
  BY <1>7 DEF MasterAssign, scriptVars
<1>8. ASSUME NEW m \in Machines, CreateMailbox(m) \/ Announce(m)
      PROVE  /\ rekeyed' = {}
             /\ \A n \in Machines :
                  ~ Working(n)' /\ todo'[n] = {} /\ cur'[n] = NoTask
  <2>1. /\ UNCHANGED <<assign, id, todo, cur, ongoing, rekeyed>>
        /\ \A n \in Machines \ {m} : live'[n] = live[n]
    BY <1>8 DEF CreateMailbox, Announce, Wakes, histories, TypeOK
  <2>2. assign[id[m]] = {}
    BY <1>8, <1>d DEF CreateMailbox, Announce, Wakes, ProcessInv, Starting
  <2> QED BY <2>1, <2>2, <1>i DEF Working
<1>9. ASSUME NEW m \in Machines,
             TasksCompletion(m) \/ (\E t \in Tasks : BeginBatch(m, t))
               \/ FinishBatch(m)
      PROVE  FALSE
  BY <1>9, <1>i DEF TasksCompletion, BeginBatch, FinishBatch, Working
<1>10. ASSUME NEW m \in Machines, WorkerGone(m)
       PROVE  /\ rekeyed' = {}
              /\ \A n \in Machines :
                   ~ Working(n)' /\ todo'[n] = {} /\ cur'[n] = NoTask
  BY <1>10, <1>i DEF WorkerGone, znodes, Working, TypeOK
<1>11. CASE UNCHANGED vars
  BY <1>11, <1>i DEF vars, znodes, workerVars, histories, Working
<1> QED
  BY <1>1, <1>2, <1>3, <1>4, <1>5, <1>6, <1>7, <1>8, <1>9, <1>10, <1>11
  DEF Next, ScriptStep, AdminStep, MasterStep, WorkerStep, ControlStep

-----------------------------------------------------------------------------
(* Mailboxes and memories.                                                   *)

\* MailboxInv of one worker, and of the batches that have been re-keyed.
MailboxOf(m) ==
  /\ todo[m] \subseteq assign[id[m]]
  /\ cur[m] # NoTask => cur[m] \in assign[id[m]] \ rekeyed
  /\ assign[id[m]] \cap rekeyed \subseteq ongoing[m]
  /\ Past(4) /\ id[m] \in registered => ongoing[m] \subseteq assign[id[m]]
  /\ Past(2) => assign[id[m]] \cap ongoing[m] \subseteq rekeyed \cup {cur[m]}

ReKeyedAssigned == \A t \in rekeyed : \E i \in Ids : t \in assign[i]

MailboxGoal ==
  (\A m \in Machines : live[m] = "up" => MailboxOf(m)) /\ ReKeyedAssigned

\* MailboxInv in parts, for the proof of one at a time.
LEMMA MailboxParts == MailboxInv <=> (quiet /\ DistinctIds => MailboxGoal)
BY DEF MailboxInv, MailboxGoal, MailboxOf, ReKeyedAssigned

\* No mailbox is there yet.
LEMMA MailboxInit == Init => MailboxInv
BY DEF Init, MailboxInv

\* A worker has its batches from its mailbox, which nobody shares with it.
LEMMA MailboxNext ==
  IInv /\ [Next]_vars => MailboxInv'
<1> SUFFICES ASSUME IInv, [Next]_vars, quiet', DistinctIds'
             PROVE  MailboxGoal'
  BY MailboxParts DEF MailboxInv, MailboxGoal, MailboxOf, ReKeyedAssigned
<1> USE DEF IInv
<1>d. DistinctIds
  BY SharedIdsStay
<1>1. CASE KillMasterAndAdmin
  <2>1. /\ rekeyed' = {} /\ script' = "clear" /\ cleared' = 0
        /\ UNCHANGED <<znodes, workerVars>>
    BY <1>1 DEF KillMasterAndAdmin
  <2>2. ~ Past(2)' /\ ~ Past(4)'
    BY <2>1 DEF Past
  <2> QED BY <2>1, <2>2, <1>1, QuietReset
          DEF MailboxGoal, MailboxOf, ReKeyedAssigned, znodes, workerVars
<1> SUFFICES ASSUME ~ KillMasterAndAdmin PROVE MailboxGoal'
  BY <1>1
<1>i. quiet /\ MailboxGoal
  BY <1>d, OnlyResetsClear, MailboxParts
<1> USE DEF MailboxGoal
<1>u. \A m \in Machines : live[m] = "up" => id[m] \in Ids
  BY WorkerHasId DEF Used
<1>2. CASE Rmr
  <2>1. /\ script = "clear" /\ cleared \in 0 .. 3 /\ cleared' = cleared + 1
        /\ script' = "clear"
        /\ assign' = IF cleared = 1 THEN [i \in Ids |-> {}] ELSE assign
        /\ registered' = IF cleared = 3 THEN {} ELSE registered
        /\ UNCHANGED <<workerVars, rekeyed>>
    BY <1>2, RmrClears DEF histories
  <2>2. /\ rekeyed = {}
        /\ \A m \in Machines : todo[m] = {} /\ cur[m] = NoTask
    BY <2>1, <1>i, <1>d DEF IdleInv
  <2>3. Past(4)' => registered' = {}
    BY <2>1 DEF Past
  <2>4. Past(2)' => assign' = [i \in Ids |-> {}] \/ (Past(2) /\ assign' = assign)
    BY <2>1 DEF Past
  <2> QED BY <2>1, <2>2, <2>3, <2>4, <1>i, <1>u
          DEF MailboxOf, ReKeyedAssigned, workerVars
<1>3. CASE ControlStep
  <2>1. /\ UNCHANGED <<assign, registered, workerVars, rekeyed>>
        /\ Past(2)' => Past(2)
        /\ Past(4)' => Past(4)
    BY <1>3, ControlKeeps
  <2> QED BY <2>1, <1>i DEF MailboxOf, ReKeyedAssigned, workerVars
<1>4. CASE MachineWorkers
  <2>1. PICK m \in Machines, i \in 1 .. nextId + 1 : Restarts(m, i)
    BY <1>4, RestartEffect
  <2> QED BY <2>1, <1>i
          DEF Restarts, MailboxOf, ReKeyedAssigned, Past, znodes, TypeOK
<1>5. CASE CreateTask
  BY <1>5, <1>i DEF CreateTask, MailboxOf, ReKeyedAssigned, Past, scriptVars,
                    workerVars, histories
<1>6. CASE StatusCompletion
  BY <1>6, <1>i DEF StatusCompletion, MailboxOf, ReKeyedAssigned, Past,
                    scriptVars, znodes, workerVars, histories
<1>7. ASSUME NEW t \in Tasks, NEW i \in Ids, MasterAssign(t, i)
      PROVE  MailboxGoal'
  <2>1. /\ Past(2) /\ Past(4) /\ t \in tasks /\ i \in registered
        /\ UNCHANGED <<script, cleared, registered, workerVars, rekeyed>>
    BY <1>7 DEF MasterAssign, Past, scriptVars, histories
  <2>2. \A j \in Ids : assign'[j] = IF j = i THEN assign[i] \cup {t} ELSE assign[j]
    BY <1>7 DEF MasterAssign, TypeOK
  <2>3. \A j \in Ids : t \notin assign[j]
    BY <2>1 DEF PlacesInv
  <2>4. t \notin rekeyed
    BY <2>3, <1>i DEF ReKeyedAssigned
  <2>5. ReKeyedAssigned'
    BY <2>1, <2>2, <1>i DEF ReKeyedAssigned
  <2>6. ASSUME NEW m \in Machines, live[m] = "up" PROVE MailboxOf(m)'
    <3>1. MailboxOf(m) /\ id[m] \in Ids
      BY <2>6, <1>i, <1>u
    <3>2. id[m] = i => t \notin ongoing[m]
      BY <3>1, <2>1, <2>3 DEF MailboxOf
    <3> QED BY <3>1, <3>2, <2>1, <2>2, <2>4 DEF MailboxOf, workerVars, Past
  <2> QED BY <2>1, <2>5, <2>6 DEF workerVars
<1>8. ASSUME NEW m \in Machines, CreateMailbox(m) PROVE MailboxGoal'
  BY <1>8, <1>i DEF CreateMailbox, Wakes, MailboxOf, ReKeyedAssigned, Past,
                    scriptVars, histories, TypeOK
<1>9. ASSUME NEW m \in Machines, Announce(m) PROVE MailboxGoal'
  <2>1. /\ Starting(m) /\ live' = [live EXCEPT ![m] = "up"]
        /\ registered' \subseteq registered \cup {id[m]}
        /\ UNCHANGED <<script, cleared, assign, id, ongoing, todo, cur, rekeyed>>
    BY <1>9 DEF Announce, Wakes, Starting, scriptVars, histories
  <2>2. /\ todo[m] = {} /\ cur[m] = NoTask /\ ongoing[m] = {}
        /\ assign[id[m]] = {}
    BY <2>1, <1>d DEF ProcessInv, Starting
  <2>3. \A n \in Machines \ {m} : live[n] = "up" => id[n] # id[m]
    BY <2>1, <1>d DEF ProcessInv, Starting, Used
  <2> QED BY <2>1, <2>2, <2>3, <1>i DEF MailboxOf, ReKeyedAssigned, Past, TypeOK
<1>10. ASSUME NEW m \in Machines, TasksCompletion(m) PROVE MailboxGoal'
  BY <1>10, <1>i, <1>u DEF TasksCompletion, MailboxOf, ReKeyedAssigned, Past,
                       scriptVars, znodes, histories, TypeOK
<1>11. ASSUME NEW m \in Machines, NEW t \in Tasks, BeginBatch(m, t)
       PROVE  MailboxGoal'
  <2>1. /\ live[m] = "up" /\ cur[m] = NoTask /\ t \in todo[m] /\ t # NoTask
        /\ todo' = [todo EXCEPT ![m] = @ \ {t}]
        /\ ongoing' = [ongoing EXCEPT ![m] = @ \cup {t}]
        /\ cur' = [cur EXCEPT ![m] = t]
        /\ UNCHANGED <<script, cleared, assign, registered, id, live, rekeyed>>
    BY <1>11 DEF BeginBatch, scriptVars, znodes, histories, Tasks, NoTask
  <2>2. MailboxOf(m) /\ id[m] \in Ids /\ t \notin ongoing[m]
    BY <2>1, <1>i, <1>u DEF ProcessInv
  <2>3. t \in assign[id[m]] \ rekeyed
    BY <2>1, <2>2 DEF MailboxOf
  <2>4. NoTask \notin assign[id[m]]
    BY <2>2 DEF TypeOK, Tasks, NoTask
  <2>5. MailboxOf(m)'
    BY <2>1, <2>2, <2>3, <2>4 DEF MailboxOf, Past, TypeOK
  <2>6. \A n \in Machines \ {m} : live[n] = "up" => MailboxOf(n)'
    BY <2>1, <1>i DEF MailboxOf, Past, TypeOK
  <2> QED BY <2>1, <2>5, <2>6, <1>i DEF ReKeyedAssigned
<1>12. ASSUME NEW m \in Machines, FinishBatch(m) PROVE MailboxGoal'
  <2> DEFINE t == cur[m]
  <2>1. /\ live[m] = "up" /\ t # NoTask
        /\ cur' = [cur EXCEPT ![m] = NoTask]
        /\ UNCHANGED <<script, cleared, assign, registered, id, live, todo, ongoing>>
    BY <1>12 DEF FinishBatch, scriptVars
  <2>2. rekeyed' = rekeyed \cup {t}
    BY <1>12, <1>i DEF FinishBatch, RoundInv
  <2>3. Past(2)
    BY <2>1, <1>i, <1>d DEF IdleInv, Past
  <2>4. MailboxOf(m) /\ id[m] \in Ids /\ t \in assign[id[m]] /\ t \in ongoing[m]
    BY <2>1, <1>i, <1>u DEF MailboxOf, ProcessInv
  <2>5. MailboxOf(m)'
    BY <2>1, <2>2, <2>4 DEF MailboxOf, Past, TypeOK
  <2>6. ASSUME NEW n \in Machines \ {m}, live[n] = "up" PROVE MailboxOf(n)'
    <3>1. MailboxOf(n) /\ id[n] \in Ids /\ id[n] # id[m]
      BY <2>1, <2>6, <1>d, <1>i, <1>u DEF ProcessInv, Used
    <3>2. t \notin assign[id[n]]
      BY <2>3, <2>4, <3>1 DEF PlacesInv
    <3> QED BY <2>1, <2>2, <3>1, <3>2 DEF MailboxOf, Past, TypeOK
  <2> QED BY <2>1, <2>2, <2>4, <2>5, <2>6, <1>i DEF ReKeyedAssigned
<1>13. ASSUME NEW m \in Machines, WorkerGone(m) PROVE MailboxGoal'
  BY <1>13, <1>i DEF WorkerGone, MailboxOf, ReKeyedAssigned, Past, scriptVars,
                     znodes, TypeOK
<1>14. CASE UNCHANGED vars
  BY <1>14, <1>i DEF vars, scriptVars, znodes, workerVars, histories, MailboxOf,
                     ReKeyedAssigned, Past
<1> QED
  BY <1>2, <1>3, <1>4, <1>5, <1>6, <1>7, <1>8, <1>9, <1>10, <1>11, <1>12,
     <1>13, <1>14
  DEF Next, ScriptStep, AdminStep, MasterStep, WorkerStep, ControlStep

-----------------------------------------------------------------------------
(* Rounds that follow each other.                                            *)

\* Nobody has a batch in hand, is on the way to one or is to get one, once the
\* admin of a quiet round has finished; and every batch is re-keyed.
LEMMA FinishedIsQuiet ==
  ASSUME TypeOK, ScriptInv, ProcessInv, RoundInv, MailboxInv,
         quiet, DistinctIds, adminPc = "finished"
  PROVE  /\ rekeyed = Tasks
         /\ \A m \in Machines : cur[m] = NoTask /\ ~ Working(m)
<1>1. rekeyed = Tasks
  BY DEF RoundInv, TypeOK
<1> SUFFICES ASSUME NEW m \in Machines PROVE cur[m] = NoTask /\ ~ Working(m)
  BY <1>1
<1>2. CASE live[m] # "up"
  BY <1>2 DEF ProcessInv, Working
<1>3. CASE live[m] = "up"
  <2>1. id[m] \in Ids /\ assign[id[m]] \subseteq Tasks
    BY <1>3, WorkerHasId DEF Used, TypeOK
  <2> QED BY <1>1, <1>3, <2>1 DEF MailboxInv, ProcessInv, Working
<1> QED BY <1>2, <1>3

\* The first round finds no worker at all.
LEMMA NobodyAtFirst ==
  ASSUME TypeOK, ScriptInv, ProcessInv, round = 0
  PROVE  \A m \in Machines : cur[m] = NoTask /\ ~ Working(m)
<1> SUFFICES ASSUME NEW m \in Machines PROVE cur[m] = NoTask /\ ~ Working(m)
  OBVIOUS
<1>1. nextId = 0 /\ 1 .. nextId = {}
  BY DEF ScriptInv
<1>2. live[m] = "off"
  BY <1>1, WorkerHasId DEF Used
<1> QED BY <1>2 DEF ProcessInv, Working

\* A fault that has happened has happened.
LEMMA FaultsStay == [Next]_vars => faults \subseteq faults'
BY DEF Next, ScriptStep, KillMasterAndAdmin, Rmr, StartMaster,
       SleepAfterMaster, MachineWorkers, StartAdmin, AdminReturns, Interrupt,
       AdminStep, CreateTask, BatchesCreated, StatusCompletion, AdminFinishes,
       AdminExpires, MasterStep, MasterBootstrap, MasterAssign, WorkerStep,
       CreateMailbox, Announce, Wakes, TasksCompletion, BeginBatch, FinishBatch,
       WorkerGone, Strike, histories, vars

\* Which steps move the script and the admin to where JobsInv looks.
LEMMA WhereTheRoundEnds ==
  ASSUME [Next]_vars
  PROVE  /\ adminPc' = "expired" => adminPc = "expired" \/ "expire" \in faults'
         /\ script' = "reset" => \/ AdminReturns
                                 \/ "interrupt" \in faults'
                                 \/ script = "reset" /\ round' = round
         /\ adminPc = "finished" => adminPc' = "finished" \/ KillMasterAndAdmin
                                      \/ StartAdmin
BY DEF Next, ScriptStep, KillMasterAndAdmin, Rmr, StartMaster,
       SleepAfterMaster, MachineWorkers, StartAdmin, AdminReturns, Interrupt,
       AdminStep, CreateTask, BatchesCreated, StatusCompletion, AdminFinishes,
       AdminExpires, MasterStep, MasterBootstrap, MasterAssign, WorkerStep,
       CreateMailbox, Announce, Wakes, TasksCompletion, BeginBatch, FinishBatch,
       WorkerGone, Strike, scriptVars, adminVars, histories, vars

\* Nothing has happened before the first round.
LEMMA JobsInit == Init => JobsInv
BY DEF Init, JobsInv

\* The reset of a sound sequence finds the workers idle, because the admin of
\* the round before has finished.
LEMMA JobsNext == IInv /\ [Next]_vars => JobsInv'
<1> SUFFICES ASSUME IInv, [Next]_vars PROVE JobsInv'
  OBVIOUS
<1> USE DEF IInv
<1>1. faults \subseteq faults'
  BY FaultsStay
<1>2. adminPc' = "expired" => "expire" \in faults'
  BY <1>1, WhereTheRoundEnds DEF JobsInv
<1>3. ASSUME Sound' PROVE quiet' /\ (script' = "reset" => round' = 0 \/ adminPc' = "finished")
  <2>1. /\ Sound /\ DistinctIds
        /\ "expire" \notin faults /\ "interrupt" \notin faults'
    BY <1>1, <1>3 DEF Sound, DistinctIds
  <2>2. /\ quiet /\ adminPc # "expired"
        /\ script = "reset" => round = 0 \/ adminPc = "finished"
    BY <2>1 DEF JobsInv
  <2>3. CASE KillMasterAndAdmin
    <3>1. \A m \in Machines : ~ Working(m)
      BY <2>1, <2>2, <2>3, FinishedIsQuiet, NobodyAtFirst DEF KillMasterAndAdmin
    <3> QED BY <2>3, <3>1 DEF KillMasterAndAdmin
  <2>4. CASE ~ KillMasterAndAdmin
    <3>1. quiet'
      BY <2>2, <2>4, OnlyResetsClear
    <3>2. AdminReturns => adminPc' = "finished"
      BY <2>2 DEF AdminReturns, adminVars
    <3>3. script = "reset" => ~ StartAdmin
      BY DEF StartAdmin
    <3> QED BY <2>1, <2>2, <2>4, <3>1, <3>2, <3>3, WhereTheRoundEnds
  <2> QED BY <2>3, <2>4
<1> QED BY <1>2, <1>3 DEF JobsInv

\* Workers of different mailboxes have different batches.
LEMMA OneWorker == IInv => OneWorkerPerBatch
<1> SUFFICES ASSUME IInv, quiet, DistinctIds, NEW m \in Machines,
                    NEW n \in Machines, m # n, cur[m] # NoTask,
                    cur[m] = cur[n]
             PROVE  FALSE
  BY DEF OneWorkerPerBatch
<1>1. live[m] = "up" /\ live[n] = "up"
  BY DEF IInv, ProcessInv
<1>2. /\ id[m] \in Ids /\ id[n] \in Ids /\ id[m] # id[n]
  BY <1>1, WorkerHasId DEF IInv, ProcessInv, Used
<1>3. cur[m] \in assign[id[m]] \cap assign[id[n]]
  BY <1>1 DEF IInv, MailboxInv
<1>4. Past(2)
  BY DEF IInv, IdleInv, Past
<1> QED BY <1>2, <1>3, <1>4 DEF IInv, PlacesInv

\* What FinishedIsQuiet says, after a step.
LEMMA FinishedIsQuietNext ==
  (IInv /\ quiet /\ DistinctIds /\ adminPc = "finished" =>
     rekeyed = Tasks /\ \A m \in Machines : cur[m] = NoTask)'
<1>1. IInv /\ quiet /\ DistinctIds /\ adminPc = "finished" =>
        rekeyed = Tasks /\ \A m \in Machines : cur[m] = NoTask
  BY FinishedIsQuiet DEF IInv
<1> QED BY <1>1, PTL

\* Before the first round no worker is up.
LEMMA NobodyWorksAtFirst ==
  ASSUME IInv, NEW m \in Machines, live[m] = "up", round \in Nat
  PROVE  round > 0
<1>1. CASE round = 0
  <2>1. 1 .. nextId = {}
    BY <1>1 DEF IInv, ScriptInv
  <2> QED BY <2>1, WorkerHasId DEF IInv, Used
<1> QED BY <1>1

\* The other steps are none of the jobs.
LEMMA OtherSteps ==
  ASSUME ScriptInv, [Next]_vars
  PROVE  \/ KillMasterAndAdmin \/ AdminFinishes \/ MachineWorkers
         \/ \E m \in Machines : FinishBatch(m) \/ WorkerGone(m)
                                  \/ \E t \in Tasks : BeginBatch(m, t)
         \/ /\ UNCHANGED <<round, rekeyed, cur>>
            /\ (adminPc' = "finished") = (adminPc = "finished")
<1>1. CASE ScriptStep \/ Interrupt
  BY <1>1 DEF ScriptInv, ScriptStep, Rmr, StartMaster, SleepAfterMaster, StartAdmin,
              AdminReturns, Interrupt, adminVars, workerVars, histories
<1>2. CASE AdminStep \/ AdminExpires
  BY <1>2 DEF AdminStep, CreateTask, BatchesCreated, StatusCompletion, AdminExpires,
              scriptVars, workerVars, histories
<1>3. CASE MasterStep
  BY <1>3 DEF MasterStep, MasterBootstrap, MasterAssign, scriptVars, adminVars,
              workerVars, histories
<1>4. ASSUME NEW m \in Machines, WorkerStep(m) \/ WorkerGone(m)
      PROVE  \/ FinishBatch(m) \/ WorkerGone(m) \/ \E t \in Tasks : BeginBatch(m, t)
             \/ UNCHANGED <<round, rekeyed, cur, adminPc>>
  BY <1>4 DEF WorkerStep, CreateMailbox, Announce, Wakes, TasksCompletion,
              scriptVars, adminVars, histories
<1>5. CASE UNCHANGED vars
  BY <1>5 DEF vars, scriptVars, adminVars, workerVars, histories
<1> QED BY <1>1, <1>2, <1>3, <1>4, <1>5 DEF Next

-----------------------------------------------------------------------------
(* The theorems.                                                             *)

\* Every variable keeps its type; in particular the ids suffice.
THEOREM TypeCorrect == Spec => []TypeOK
<1>1. Init => TypeOK /\ ScriptInv
  BY TypeInit
<1>2. TypeOK /\ ScriptInv /\ [Next]_vars => (TypeOK /\ ScriptInv)'
  BY TypeNext
<1> QED BY <1>1, <1>2, PTL DEF Spec

\* The inductive invariant: what a round's znodes say of its workers and what
\* workers of earlier rounds can still hold.
THEOREM Inductive == Spec => []IInv
<1>1. Init => IInv
  BY TypeInit, ProcessInit, PlacesInit, RoundInit, IdleInit, MailboxInit, JobsInit
  DEF IInv
<1>2. IInv /\ [Next]_vars => IInv'
  BY TypeNext, ProcessNext, PlacesNext, RoundNext, IdleNext, MailboxNext, JobsNext
  DEF IInv
<1> QED BY <1>1, <1>2, PTL DEF Spec

\* A status znode never stands for a batch of an earlier round, if the workers
\* were idle at the reset.
THEOREM StatusCorrect == Spec => []StatusOfThisRound
<1>1. IInv => StatusOfThisRound
  BY DEF IInv, RoundInv, StatusOfThisRound, Cleared, Past
<1> QED BY <1>1, Inductive, PTL

\* An admin of such a round that ends its loop has had every batch re-keyed.
THEOREM FinishedComplete == Spec => []FinishedRoundComplete
<1>1. IInv => FinishedRoundComplete
  BY DEF IInv, RoundInv, FinishedRoundComplete, TypeOK
<1> QED BY <1>1, Inductive, PTL

\* It leaves idle workers to the next round.
THEOREM FinishedQuiet == Spec => []FinishedLeavesQuiet
<1>1. IInv => FinishedLeavesQuiet
  BY FinishedIsQuiet DEF IInv, FinishedLeavesQuiet
<1> QED BY <1>1, Inductive, PTL

\* No batch waits for a worker that takes it for one it has had.
THEOREM BatchesNotSkipped == Spec => []NotSkipped
<1>1. IInv => NotSkipped
  BY DEF IInv, MailboxInv, NotSkipped, Cleared, Past
<1> QED BY <1>1, Inductive, PTL

\* No two processes re-key the same batch at a time.
THEOREM BatchHasOneWorker == Spec => []OneWorkerPerBatch
BY OneWorker, Inductive, PTL

\* Each round is a job that follows the one before, until the admin expires, the
\* script is stopped or two workers draw one id: crashes, a slow Master and what
\* earlier rounds have left do not change that.
THEOREM Refinement == Spec => ImplementsJobs
<1> USE DEF Jobs!vars, Jobs!Idle
<1>1. Init => Jobs!Init
  BY DEF Init, Jobs!Init, Sound
<1>2. ASSUME IInv, IInv', [Next]_vars
      PROVE  [Jobs!Next]_(Jobs!vars)
  <2> SUFFICES ASSUME Sound, Sound' PROVE [Jobs!Next]_(Jobs!vars)
    <3>1. ~ Sound => ~ Sound'
      BY <1>2, FaultsStay DEF Sound
    <3>2. ~ Sound' => Jobs!Next
      BY DEF Jobs!Next, Sound
    <3> QED BY <3>1, <3>2
  <2>0. quiet /\ DistinctIds /\ quiet' /\ DistinctIds'
    BY <1>2 DEF IInv, JobsInv, Sound, DistinctIds
  <2>t. /\ cur \in [Machines -> Tasks \cup {NoTask}] /\ NoTask \notin Tasks
        /\ round \in Nat
        /\ Sound' = Sound
    <3>1. cur \in [Machines -> Tasks \cup {NoTask}] /\ round \in 0 .. MaxRounds
      BY <1>2 DEF IInv, TypeOK
    <3>2. NoTask \notin Tasks
      BY DEF Tasks, NoTask
    <3>3. Sound' = Sound
      BY DEF Sound
    <3> QED BY <3>1, <3>2, <3>3, IdsBound
  <2>1. CASE KillMasterAndAdmin
    <3>1. /\ round < MaxRounds /\ round' = round + 1
          /\ rekeyed' = {} /\ adminPc' = "off" /\ cur' = cur
      BY <2>1 DEF KillMasterAndAdmin, workerVars
    <3>2. round = 0 \/ adminPc = "finished"
      BY <1>2, <2>1 DEF IInv, JobsInv, KillMasterAndAdmin
    <3>3. \A m \in Machines : cur[m] = NoTask
      BY <1>2, <2>0, <3>2, FinishedIsQuiet, NobodyAtFirst DEF IInv
    <3> QED BY <2>t, <3>1, <3>2, <3>3 DEF Jobs!Next, Jobs!Start
  <2>2. CASE AdminFinishes
    <3>1. /\ adminPc = "watch" /\ adminPc' = "finished"
          /\ UNCHANGED <<round, cur, rekeyed>>
      BY <2>2 DEF AdminFinishes, scriptVars, workerVars, histories
    <3>2. /\ rekeyed' = Tasks
          /\ \A m \in Machines : cur'[m] = NoTask
      BY <1>2, <2>0, <3>1, FinishedIsQuietNext
    <3> QED BY <2>t, <3>1, <3>2 DEF Jobs!Next, Jobs!Report
  <2>3. ASSUME NEW m \in Machines, NEW t \in Tasks, BeginBatch(m, t)
        PROVE  Jobs!Next
    <3>1. /\ cur[m] = NoTask /\ t \in todo[m] /\ live[m] = "up"
          /\ cur' = [cur EXCEPT ![m] = t]
          /\ UNCHANGED <<round, rekeyed, adminPc>>
      BY <2>3 DEF BeginBatch, scriptVars, adminVars, histories
    <3>2. t \notin rekeyed
      BY <1>2, <2>0, <3>1 DEF IInv, ProcessInv, MailboxInv
    <3>3. adminPc # "finished"
      BY <1>2, <2>0, <3>2 DEF IInv, RoundInv
    <3>4. round > 0
      BY <1>2, <2>t, <3>1, NobodyWorksAtFirst
    <3>5. \A n \in Machines : cur[n] # t
      <4>1. OneWorkerPerBatch'
        BY <1>2, OneWorker, PTL
      <4>2. cur'[m] = t /\ \A n \in Machines \ {m} : cur'[n] = cur[n]
        BY <2>t, <3>1
      <4> QED BY <2>0, <2>t, <3>1, <4>1, <4>2 DEF OneWorkerPerBatch
    <3> QED BY <2>t, <3>1, <3>2, <3>3, <3>4, <3>5 DEF Jobs!Next, Jobs!Take
  <2>4. ASSUME NEW m \in Machines, FinishBatch(m)
        PROVE  Jobs!Next
    <3>1. /\ cur[m] # NoTask
          /\ cur' = [cur EXCEPT ![m] = NoTask]
          /\ rekeyed' = IF born[m] = round THEN rekeyed \cup {cur[m]} ELSE rekeyed
          /\ UNCHANGED <<round, adminPc>>
      BY <2>4 DEF FinishBatch, scriptVars, adminVars
    <3>2. born[m] = round
      BY <1>2, <2>0, <3>1 DEF IInv, RoundInv
    <3>3. adminPc # "finished"
      BY <1>2, <2>0, <3>1, FinishedIsQuiet DEF IInv
    <3> QED BY <2>t, <3>1, <3>2, <3>3 DEF Jobs!Next, Jobs!Finish
  <2>5. CASE /\ UNCHANGED <<round, rekeyed>>
             /\ (adminPc' = "finished") = (adminPc = "finished")
             /\ \/ UNCHANGED cur
                \/ \E m \in Machines : cur' = [cur EXCEPT ![m] = NoTask]
    <3>1. CASE UNCHANGED cur
      BY <2>5, <2>t, <3>1
    <3>2. ASSUME NEW m \in Machines, cur' = [cur EXCEPT ![m] = NoTask]
          PROVE  [Jobs!Next]_(Jobs!vars)
      <4>1. CASE cur[m] = NoTask
        <5>1. cur' = cur
          BY <2>t, <3>2, <4>1
        <5> QED BY <3>1, <5>1
      <4>2. CASE cur[m] # NoTask
        BY <2>5, <2>t, <3>2, <4>2 DEF Jobs!Next, Jobs!Drop
      <4> QED BY <4>1, <4>2
    <3> QED BY <2>5, <3>1, <3>2
  <2>6. ASSUME NEW m \in Machines, WorkerGone(m)
        PROVE  /\ UNCHANGED <<round, rekeyed, adminPc>>
               /\ cur' = [cur EXCEPT ![m] = NoTask]
    BY <2>6 DEF WorkerGone, scriptVars, adminVars
  <2>7. CASE MachineWorkers
    <3>1. PICK m \in Machines, i \in 1 .. nextId + 1 : Restarts(m, i)
      BY <1>2, <2>7, RestartEffect DEF IInv
    <3> QED BY <2>5, <3>1 DEF Restarts, adminVars
  <2>8. \/ KillMasterAndAdmin \/ AdminFinishes \/ MachineWorkers
        \/ \E m \in Machines : FinishBatch(m) \/ WorkerGone(m)
                                 \/ \E t \in Tasks : BeginBatch(m, t)
        \/ /\ UNCHANGED <<round, rekeyed, cur>>
           /\ (adminPc' = "finished") = (adminPc = "finished")
    BY <1>2, OtherSteps DEF IInv
  <2> QED BY <2>1, <2>2, <2>3, <2>4, <2>5, <2>6, <2>7, <2>8
<1> QED BY <1>1, <1>2, Inductive, PTL DEF Spec, ImplementsJobs, Jobs!Spec

=============================================================================
