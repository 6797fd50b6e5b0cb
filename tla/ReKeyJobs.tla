------------------------------ MODULE ReKeyJobs ------------------------------
(***************************************************************************)
(* What a sequence of re-key jobs promises to whoever runs test.sh: a job   *)
(* starts after the report of the one before, with idle workers; a worker   *)
(* takes a batch that is neither done nor in another worker's hands, and    *)
(* the admin reports when all batches are done and no worker is in one.     *)
(* The promise lasts as long as the sequence is sound: the last disjunct of *)
(* Next is the step at which it is broken off.                              *)
(***************************************************************************)
EXTENDS Naturals

CONSTANTS
  Workers,   \* processes that re-key
  Batches,   \* batches of every job
  None,      \* no batch
  MaxJobs    \* jobs that are run

VARIABLES
  job,       \* jobs started so far
  hand,      \* hand[w]: the batch that w re-keys, or None
  done,      \* batches of this job that are re-keyed
  reported,  \* the admin of this job has finished
  sound      \* nothing has happened under which nothing is promised

vars == <<job, hand, done, reported, sound>>

Idle == \A w \in Workers : hand[w] = None

Init ==
  /\ job = 0 /\ done = {} /\ reported = FALSE /\ sound = TRUE
  /\ hand = [w \in Workers |-> None]

Start ==
  /\ job < MaxJobs
  /\ job = 0 \/ reported
  /\ Idle
  /\ job' = job + 1 /\ done' = {} /\ reported' = FALSE
  /\ UNCHANGED hand

Take(w, b) ==
  /\ job > 0 /\ ~ reported
  /\ hand[w] = None
  /\ b \notin done /\ \A v \in Workers : hand[v] # b
  /\ hand' = [hand EXCEPT ![w] = b]
  /\ UNCHANGED <<job, done, reported>>

Finish(w) ==
  /\ ~ reported
  /\ hand[w] # None
  /\ done' = done \cup {hand[w]}
  /\ hand' = [hand EXCEPT ![w] = None]
  /\ UNCHANGED <<job, reported>>

\* The worker dies.
Drop(w) ==
  /\ hand[w] # None
  /\ hand' = [hand EXCEPT ![w] = None]
  /\ UNCHANGED <<job, done, reported>>

Report ==
  /\ ~ reported
  /\ done = Batches
  /\ Idle
  /\ reported' = TRUE
  /\ UNCHANGED <<job, hand, done>>

Next ==
  \/ /\ \/ Start \/ Report
        \/ \E w \in Workers : Finish(w) \/ Drop(w) \/ \E b \in Batches : Take(w, b)
     /\ UNCHANGED sound
  \/ sound' = FALSE

Spec == Init /\ [][Next]_vars

=============================================================================
