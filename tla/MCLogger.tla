------------------------------ MODULE MCLogger ------------------------------
EXTENDS Logger, TLC

CONSTANTS a1, a2, a3, b1, b2, plugin, other

FiveCalls == {a1, a2, a3, b1, b2}
TwoInvocations == {plugin, other}
Owner == [c \in FiveCalls |-> IF c \in {a1, a2, a3} THEN plugin ELSE other]

Symmetry == Permutations({a1, a2, a3}) \cup Permutations({b1, b2})
=============================================================================
