------------------------------ MODULE MCChain ------------------------------
(* The chain for TLC: the calls, their kinds and the layers are the cfg's.  *)
EXTENDS Chain
=============================================================================
