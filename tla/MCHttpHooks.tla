---------------------------- MODULE MCHttpHooks ----------------------------
EXTENDS HttpHooks

CONSTANTS h1, s1, s2

Mixed == {h1, s1, s2}
PreviewOf == [r \in Mixed |-> IF r = h1 THEN 2 ELSE 3]
Pair == {h1, s1}
PairPreview == [r \in Pair |-> PreviewOf[r]]
=============================================================================
