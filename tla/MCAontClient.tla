---------------------------- MODULE MCAontClient ----------------------------
(***************************************************************************)
(* Model-checking side of AontClient: files of different lengths, among     *)
(* them one with the same block twice.                                      *)
(***************************************************************************)
EXTENDS AontClientInv, TLC

ShortContents == { <<"a">>, <<"b", "a">>, <<"a", "a">> }

\* Keys are only ever compared with each other.
KeySymmetry == Permutations(KeyNames)

=============================================================================
