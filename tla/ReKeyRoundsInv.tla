---------------------------- MODULE ReKeyRoundsInv ----------------------------
(***************************************************************************)
(* The inductive invariant of ReKeyRounds: what ties the znodes of a round  *)
(* to the processes that are left of the rounds before it.  It holds in     *)
(* every state, under all faults; its parts are conditional on what the     *)
(* faults leave true.                                                       *)
(***************************************************************************)
EXTENDS ReKeyRounds

\* The script is not clearing znodes, or has come past the first k of them.
Past(k) == script = "clear" => cleared >= k

\* Machine m has a worker, perhaps a dead one.
Used(m) == live[m] # "off"

Starting(m) == live[m] \in {"mailbox", "announce"}

\* How the script bounds the ids: one for each machine restarted.  A process has
\* one of them.
ScriptInv ==
  /\ round = 0 => nextId = 0 /\ script = "reset"
  /\ round > 0 => nextId <= (round - 1) * NMachines + started
  /\ script \in {"clear", "master", "workers"} => adminPc = "off"
  /\ \A m \in Machines : Used(m) => id[m] \in 1 .. nextId

\* What a process has in hand is its own business and nobody else's.
ProcessInv ==
  /\ \A m \in Machines :
       /\ live[m] # "up" => cur[m] = NoTask /\ todo[m] = {}
       /\ todo[m] \cap ongoing[m] = {}
       /\ cur[m] # NoTask => cur[m] \in ongoing[m]
       /\ Starting(m) => ongoing[m] = {}
  /\ registered \cup mailboxes \subseteq 1 .. nextId
  /\ \A i \in Ids : assign[i] # {} => i \in 1 .. nextId
  /\ DistinctIds => \A m, n \in Machines :
       m # n /\ Used(m) /\ Used(n) => id[m] # id[n]
  /\ DistinctIds => \A m \in Machines :
       Starting(m) => id[m] \notin registered /\ assign[id[m]] = {}

\* Once the rmr of a parent has passed, a task is in one place.
PlacesInv ==
  /\ Past(3) => \A t \in tasks : t < saved
  /\ Past(2) => /\ \A i \in Ids : \A t \in assign[i] : t < saved /\ t \notin tasks
                /\ \A i, j \in Ids : i # j => assign[i] \cap assign[j] = {}

\* Which round a batch in hand, a status znode and the admin's names are of.
RoundInv ==
  quiet =>
    /\ \A m \in Machines : cur[m] # NoTask => born[m] = round
    /\ Past(1) => status \subseteq rekeyed
    /\ statusDone \subseteq rekeyed
    /\ adminPc = "finished" => statusDone = Tasks

\* While the script clears, the workers of earlier rounds stay idle.
IdleInv ==
  quiet /\ DistinctIds /\ script = "clear" =>
    /\ rekeyed = {}
    /\ \A m \in Machines : ~ Working(m) /\ todo[m] = {} /\ cur[m] = NoTask

\* A worker takes its batches from its own mailbox; one that is registered in
\* this round has had no batches but those of this round, and what has been
\* re-keyed is in the memory of the worker that has it in its mailbox.
MailboxInv ==
  quiet /\ DistinctIds =>
    /\ \A m \in Machines : live[m] = "up" =>
         /\ todo[m] \subseteq assign[id[m]]
         /\ cur[m] # NoTask => cur[m] \in assign[id[m]] \ rekeyed
         /\ assign[id[m]] \cap rekeyed \subseteq ongoing[m]
         /\ Past(4) /\ id[m] \in registered => ongoing[m] \subseteq assign[id[m]]
         /\ Past(2) => assign[id[m]] \cap ongoing[m] \subseteq rekeyed \cup {cur[m]}
    /\ \A t \in rekeyed : \E i \in Ids : t \in assign[i]

\* As long as the sequence is sound, a round follows one that has finished, and
\* so begins with idle workers.
JobsInv ==
  /\ adminPc = "expired" => "expire" \in faults
  /\ Sound => /\ quiet
              /\ script = "reset" => round = 0 \/ adminPc = "finished"

IInv ==
  /\ TypeOK
  /\ ScriptInv
  /\ ProcessInv
  /\ PlacesInv
  /\ RoundInv
  /\ IdleInv
  /\ MailboxInv
  /\ JobsInv

=============================================================================
