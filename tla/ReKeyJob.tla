------------------------------ MODULE ReKeyJob ------------------------------
(***************************************************************************)
(* What the re-key job promises to the operator who starts the admin:      *)
(* every file of the job is re-keyed exactly once, and the admin reports   *)
(* only after the last of them.                                            *)
(***************************************************************************)
EXTENDS Naturals

CONSTANTS
  Files,     \* all files of the store
  JobFiles   \* the files this job is about

VARIABLES
  count,     \* count[f]: how often f was re-keyed
  reported   \* the admin has printed its time and left

Init ==
  /\ count = [f \in Files |-> 0]
  /\ reported = FALSE

ReKey(f) ==
  /\ ~ reported
  /\ f \in JobFiles
  /\ count[f] = 0
  /\ count' = [count EXCEPT ![f] = 1]
  /\ UNCHANGED reported

Report ==
  /\ ~ reported
  /\ \A f \in JobFiles : count[f] = 1
  /\ reported' = TRUE
  /\ UNCHANGED count

Next == (\E f \in JobFiles : ReKey(f)) \/ Report

Spec == Init /\ [][Next]_<<count, reported>>

=============================================================================
