------------------------------ MODULE Matching ------------------------------
(***************************************************************************)
(* server/app/domain/matching.py: an event's fingerprint against the       *)
(* baselines, and the order in which matches are returned and best_trace_  *)
(* match picks one.  A match list is the set of its members; Before is its *)
(* sort key.  ssdeep's comparison is a parameter.                          *)
(***************************************************************************)
EXTENDS Naturals, Sequences

CONSTANTS
    NoFuzzy,             \* fuzzy_hash: None
    IsSsdeep(_),         \* ppdeep.compare can parse it
    Similarity(_, _)     \* ppdeep.compare, 0 .. 100

FUZZY_MATCH_THRESHOLD == 50

Exact(i) == [supervise_file |-> i, match_type |-> "exact", similarity |-> 100]
Fuzzy(i, s) == [supervise_file |-> i, match_type |-> "fuzzy", similarity |-> s]

Same(ev, baselines) == {i \in DOMAIN baselines : baselines[i].sha256 = ev.sha256}

\* The baselines of other contents that are compared: both sides have a fuzzy hash.
Rated(ev, baselines) ==
    {i \in DOMAIN baselines \ Same(ev, baselines) :
        ev.fuzzy_hash # NoFuzzy /\ baselines[i].fuzzy_hash # NoFuzzy}

\* find_matches: exact by SHA, else fuzzy from the threshold on.
FindMatches(ev, baselines) ==
    LET score(i) == Similarity(ev.fuzzy_hash, baselines[i].fuzzy_hash)
    IN  {Exact(i) : i \in Same(ev, baselines)}
        \cup {Fuzzy(i, score(i)) :
                i \in {j \in Rated(ev, baselines) : score(j) >= FUZZY_MATCH_THRESHOLD}}

\* It raises if there is something to compare and the event's fuzzy hash is none.
FindRaises(ev, baselines) == Rated(ev, baselines) # {} /\ ~IsSsdeep(ev.fuzzy_hash)

\* key=lambda m: (-m.similarity, m.supervise_file_id); also ORDER BY similarity
\* DESC, id ASC over rows inserted in that order.
Before(m, n) ==
    \/ m.similarity > n.similarity
    \/ m.similarity = n.similarity /\ m.supervise_file < n.supervise_file

\* best_trace_match among the matches of one event.
Best(matches) == CHOOSE m \in matches : \A n \in matches \ {m} : Before(m, n)

=============================================================================
