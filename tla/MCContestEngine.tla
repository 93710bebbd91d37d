--------------------------- MODULE MCContestEngine ---------------------------
(* Small instances of ContestEngine.                                        *)
EXTENDS ContestEngine, TLC

CONSTANTS p1, p2, e1, e2, s1, s2, i1, i2, a1

\* More than the source cap leaves.
WorthThree == e1 :> 3 @@ e2 :> 3

\* One participant, two interactions with different content.
EarnerOne == e1 :> p1 @@ e2 :> p1
SourceSplit == e1 :> s1 @@ e2 :> s2
=============================================================================
