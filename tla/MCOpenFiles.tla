---------------------------- MODULE MCOpenFiles ----------------------------
(* Instances of OpenFiles for TLC.  Calls and representations are only ever *)
(* compared, so that both may be permuted.                                  *)
EXTENDS OpenFiles, TLC

Symmetry == Permutations(Opens) \cup Permutations(Reps)
=============================================================================
