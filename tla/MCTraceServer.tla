--------------------------- MODULE MCTraceServer ----------------------------
(* A small server for TLC.  The two contents have the same ssdeep hash, as   *)
(* files that differ in a few bytes may have; clients also send a digest     *)
(* without one, as the connector's fallback does, and one that is none.      *)
EXTENDS TraceServer, TLC

CONSTANTS r1, r2, r3, m, n, s1, s2, empty, fuzzy, garbled, url1, url2

MCRequests == {r1, r2, r3}
MCNames == {m, n}
MCFiles == {s1, s2}
MCFilesAndEmpty == {s1, s2, empty}
MCSsdeep(data) == fuzzy
P1 == [sha256 |-> s1, fuzzy_hash |-> fuzzy]
P2 == [sha256 |-> s2, fuzzy_hash |-> fuzzy]
Digest == [sha256 |-> s1, fuzzy_hash |-> NoFuzzy]
Garbled == [sha256 |-> s2, fuzzy_hash |-> garbled]

MCEventInputs ==
    {[print |-> P1, web |-> FALSE, meta |-> NoMeta],
     [print |-> P1, web |-> FALSE, meta |-> EmptyMeta],
     [print |-> Digest, web |-> FALSE, meta |-> NoMeta],
     [print |-> P2, web |-> TRUE, meta |-> url1],
     [print |-> P2, web |-> TRUE, meta |-> url2],
     [print |-> P2, web |-> TRUE, meta |-> Junk],
     [print |-> Garbled, web |-> TRUE, meta |-> url2]}

MCIsSsdeep(hash) == hash = fuzzy
MCSimilarity(a, b) == IF a = b THEN 100 ELSE 0

MCSymmetry == Permutations({r1, r2, r3}) \cup Permutations({m, n})
=============================================================================
