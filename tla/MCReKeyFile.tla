----------------------------- MODULE MCReKeyFile -----------------------------
(***************************************************************************)
(* Model-checking side of ReKeyFile: what write_file super-encrypts.  A     *)
(* file of two blocks: nothing (AES mode) or its last block; a file of four *)
(* blocks: nothing, its last block or its last two.                         *)
(***************************************************************************)
EXTENDS ReKeyFileInv

LastOfTwo == { {}, {1} }
LastOfFour == { {}, {3}, {2, 3} }

=============================================================================
