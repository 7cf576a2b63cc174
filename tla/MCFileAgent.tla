---------------------------- MODULE MCFileAgent -----------------------------
(* A small watched folder for TLC: two names and a temporary one that is    *)
(* ignored.                                                                  *)
EXTENDS FileAgent, TLC

CONSTANTS a, b, tmp, c, d

MCPaths == {a, b, tmp}
MCIgnored == {tmp}
MCContents == {c, d}
MCTwoPaths == {a, b}
MCNone == {}
MCOneContent == {c}
MCSymmetry == Permutations({a, b}) \cup Permutations({c, d})
=============================================================================
