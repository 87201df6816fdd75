----------------------------- MODULE MCGraphBuild -----------------------------
(* A small instance of GraphBuild for TLC: the path that sinks "a" add sorts *)
(* before the others, the one that "b" adds after them.                      *)
EXTENDS GraphBuild, TLC

MCRank == [v \in Variants |-> CASE v = "a" -> 1 [] v = Parsed -> 2 [] OTHER -> 3]
BuilderSymmetry == Permutations(Builders)
=============================================================================
