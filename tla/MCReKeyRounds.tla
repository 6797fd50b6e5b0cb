---------------------------- MODULE MCReKeyRounds ----------------------------
(***************************************************************************)
(* Model-checking side of ReKeyRounds: three rounds, the second of which   *)
(* leaves the worker of one machine alive and without work, and the third  *)
(* restarts it.                                                            *)
(***************************************************************************)
EXTENDS ReKeyRoundsInv

TwoOneTwo == <<2, 1, 2>>

=============================================================================
