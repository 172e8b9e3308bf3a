------------------------- MODULE MCCollectionService -------------------------
EXTENDS CollectionService, TLC

CONSTANTS p1, p2, s1, s2, g1, g2, g12

\* Sources with different contents: the segments of s1, of s2 and of both.
Distinct == (({s1} :> g1) @@ ({s2} :> g2)) @@ ({s1, s2} :> g12)

Single == {s1} :> g1

\* The same content added twice.
Twins == (({s1} :> g1) @@ ({s2} :> g1)) @@ ({s1, s2} :> g12)
=============================================================================
