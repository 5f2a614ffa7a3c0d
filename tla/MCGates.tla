------------------------------ MODULE MCGates ------------------------------
(***************************************************************************)
(* The linkers of Gates.  Gates that differ only in their names have the   *)
(* same behaviours, and one of each kind is enough.                        *)
(***************************************************************************)
EXTENDS Gates, GateLinkers, TLC

CONSTANT r1, r2, r3, r4, c1

Kinds(gates) == {[g EXCEPT !.name = "any"] : g \in gates}
TypesOf(gates) ==
  UNION {Range(g.takes) \cup Range(g.owns) \cup UNION {Range(ts) : ts \in g.gives} : g \in gates}

OneOfEach(offering) == [offering EXCEPT !.gates = Kinds(@)]

MCOffer ==
  "p2" :> OneOfEach(SyncP2) @@
  "p2-async" :> OneOfEach(AsyncP2) @@
  "p3" :> OneOfEach(RelayedP3) @@
  "http-p2" :> OneOfEach(AsyncHttpP2) @@
  "http-p3" :> OneOfEach(OnlyHttpP3)

MCLinkers == DOMAIN MCOffer
MCTypes == UNION {TypesOf(MCOffer[l].gates) : l \in MCLinkers}

FourReps == {r1, r2, r3, r4}
OneCall == {c1}

Symmetry == Permutations(FourReps)
=============================================================================
