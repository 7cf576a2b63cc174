------------------------- MODULE TraceServerProofs --------------------------
(***************************************************************************)
(* What the server guarantees for every set of requests, of contents and   *)
(* of names, whatever fails between two statements and whenever it crashes.*)
(*                                                                         *)
(* The argument: what the connection sees (db) and what a restart would    *)
(* find (durable) differ after a failed call, and a later commit of any    *)
(* request makes the failed call's statements durable.  So everything is   *)
(* stated of both views, and every table state a call goes through, not    *)
(* only its last one, must keep it: then it does not matter which of them  *)
(* stays behind.  While a handler is between two calls both views are the  *)
(* same and no other handler runs (Underway), so it goes on from what its  *)
(* last call committed.                                                    *)
(***************************************************************************)
EXTENDS TraceServer, HashChainProofs

Hashes == {p.sha256 : p \in Prints}

BaselineRows == [name : Names, sha256 : Hashes, fuzzy_hash : {p.fuzzy_hash : p \in Prints}]

\* The tables of a view, but for the hashes of events.
Tables(d) ==
    /\ DOMAIN d = {"baselines", "history", "events", "details", "traces"}
    /\ d.baselines \in Seq(BaselineRows)
    /\ \A i, j \in DOMAIN d.baselines : d.baselines[i].name = d.baselines[j].name => i = j
    /\ d.history \in Seq([supervise_file : DOMAIN d.baselines, sha256 : Hashes])
    /\ IsRows(d.events)
    /\ \A i \in DOMAIN d.events : d.events[i].data \in EventPrints
    /\ \A t \in d.traces : t.match.supervise_file \in DOMAIN d.baselines

\* Version sha256 of baseline i is its current one, or kept.
Kept(d, i, sha256) ==
    \/ d.baselines[i].sha256 = sha256
    \/ \E h \in DOMAIN d.history :
           d.history[h] = [supervise_file |-> i, sha256 |-> sha256]

\* ExactMatchBacked in one view.
Backed(d) ==
    \A t \in d.traces : t.match.match_type = "exact" =>
        Kept(d, t.match.supervise_file, d.events[t.event].data.sha256)

\* A view of a database file that was not edited by hand.
Sound(d) ==
    /\ Chain(d.events)
    /\ \A x \in d.details \cup d.traces : x.event \in DOMAIN d.events
    /\ Backed(d)

Replacements(d, i) == {h \in DOMAIN d.history : d.history[h].supervise_file = i}

\* Requests that were answered with 200 for a registration (of a name), in a table
\* of requests.
Registered(reqs, r) == reqs[r].at = "done" /\ reqs[r].id = 0

Acked(reqs, name) == {q \in Requests : Registered(reqs, q) /\ reqs[q].input.name = name}

\* AckedVersionKept in one view.
VersionsKept(d, reqs) ==
    \A r \in Requests : Registered(reqs, r) =>
        \E i \in DOMAIN d.baselines :
            /\ d.baselines[i].name = reqs[r].input.name
            /\ Kept(d, i, reqs[r].input.sha256)
            /\ Cardinality(Replacements(d, i)) >= Cardinality(Acked(reqs, reqs[r].input.name)) - 1

\* A view shows what request q, of mode b, has recorded so far.
EventShown(d, q) ==
    q.id # 0 /\ q.at # "failed" =>
        /\ q.id \in DOMAIN d.events /\ d.events[q.id].data = q.input.print
        /\ Urls(d, q.id) = IF q.at # "added" /\ q.input.web
                           THEN {q.input.meta} \ {NoMeta, EmptyMeta} ELSE {}
        /\ MatchesOf(d, q.id) = IF q.at = "done" THEN q.matches ELSE {}

\* A match list: one match a baseline, rated in per cent.
Ranked(matches) ==
    /\ IsFiniteSet(matches)
    /\ \A m \in matches : m.supervise_file \in Nat /\ m.similarity \in 0 .. 100
    /\ \A m, n \in matches : m.supervise_file = n.supervise_file => m = n

RequestOK(q) ==
    /\ DOMAIN q = {"at", "input", "id", "matches"}
    /\ q.at \in {"new", "added", "detailed", "matched", "done", "failed"}
    /\ q.id \in Nat
    /\ q.at = "new" => q.id = 0
    /\ q.at \in {"added", "detailed", "matched"} => q.id # 0 /\ q.input \in EventInputs
    /\ q.at \in {"matched", "done"} /\ q.id # 0 => Ranked(q.matches)

\* Finitely many requests were made so far.
RequestsOK ==
    /\ DOMAIN req = Requests /\ \A r \in Requests : RequestOK(req[r])
    /\ IsFiniteSet({r \in Requests : req[r].at # "new"})

\* An id of an event belongs to one request.
IdsDiffer ==
    \A q, r \in Requests :
        req[q].id = req[r].id /\ req[q].id # 0 /\ "failed" \notin {req[q].at, req[r].at}
            => q = r

\* The handler between two calls is alone and goes on from what it committed.
Underway ==
    \A r \in Requests : req[r].at \in {"added", "detailed", "matched"} =>
        /\ Turn(r) /\ db = durable
        /\ req[r].at = "matched" =>
              req[r].matches = FindMatches(req[r].input.print, db.baselines)

\* In a view of the tables everything acknowledged is there.
ViewOK(d, reqs) ==
    /\ Tables(d) /\ VersionsKept(d, reqs)
    /\ ~edited => Sound(d) /\ \A r \in Requests : EventShown(d, reqs[r])

IInv ==
    /\ RequestsOK /\ IdsDiffer /\ Underway
    /\ ViewOK(db, req) /\ ViewOK(durable, req)
    /\ edited \in BOOLEAN
    /\ edited => Finished /\ db = durable
    /\ RowEditDetected

-----------------------------------------------------------------------------
(* Requests *)

\* A table state that a call of r may leave: it keeps what the other requests were
\* promised.
StageOK(d, r) ==
    /\ Tables(d) /\ Sound(d) /\ VersionsKept(d, req)
    /\ \A q \in Requests \ {r} : EventShown(d, req[q])

\* Nobody edits the file while a request is not finished.
LEMMA NotEdited ==
    ASSUME IInv, NEW r \in Requests, req[r].at \notin {"done", "failed"}
    PROVE  ~edited
  BY DEF IInv, Finished

\* Both views are such states.
LEMMA ViewsAreStages ==
    ASSUME IInv, NEW r \in Requests, req[r].at \notin {"done", "failed"}
    PROVE  StageOK(db, r) /\ StageOK(durable, r)
  BY NotEdited DEF IInv, ViewOK, StageOK

\* A registration stays kept as long as nobody is registered.
LEMMA SameRegistrations ==
    ASSUME NEW d, NEW reqs, NEW other, VersionsKept(d, reqs),
           \A q \in Requests : Registered(other, q) => Registered(reqs, q),
           \A q \in Requests : Registered(reqs, q) => Registered(other, q),
           \A q \in Requests : Registered(reqs, q) => other[q].input = reqs[q].input
    PROVE  VersionsKept(d, other)
  <1>1. \A name : Acked(other, name) = Acked(reqs, name)
    BY DEF Acked
  <1> QED
    BY <1>1 DEF VersionsKept

\* A request that fails and leaves the tables alone, or as a stage of its call.
LEMMA FailStep ==
    ASSUME IInv, NEW r \in Requests, req[r].at \notin {"done", "failed"},
           req' = [req EXCEPT ![r].at = "failed"], UNCHANGED <<durable, edited>>,
           StageOK(db', r), db' = db \/ Turn(r)
    PROVE  IInv'
  <1>1. ~edited /\ ~edited'
    BY NotEdited
  <1>2. /\ DOMAIN req = Requests /\ \A q \in Requests : RequestOK(req[q])
        /\ IsFiniteSet({q \in Requests : req[q].at # "new"})
    BY DEF IInv, RequestsOK
  <1>3. /\ DOMAIN req' = Requests /\ req'[r] = [req[r] EXCEPT !.at = "failed"]
        /\ \A q \in Requests \ {r} : req'[q] = req[q]
    BY <1>2
  <1>4. /\ DOMAIN req'[r] = {"at", "input", "id", "matches"}
        /\ req'[r].at = "failed" /\ req'[r].id = req[r].id
    BY <1>2, <1>3 DEF RequestOK
  <1>5. RequestsOK'
    <2>1. \A q \in Requests : RequestOK(req'[q])
      BY <1>2, <1>3, <1>4 DEF RequestOK
    <2>2. {q \in Requests : req'[q].at # "new"} \in SUBSET ({q \in Requests : req[q].at # "new"} \cup {r})
      BY <1>3
    <2>3. IsFiniteSet({q \in Requests : req'[q].at # "new"})
      BY <1>2, <2>2, FS_AddElement, FS_Subset
    <2> QED
      BY <1>3, <2>1, <2>3 DEF RequestsOK
  <1>6. Underway'
    <2> SUFFICES ASSUME NEW q \in Requests, req'[q].at \in {"added", "detailed", "matched"}
                 PROVE  /\ Turn(q)' /\ db' = durable'
                        /\ req'[q].at = "matched" =>
                              req'[q].matches = FindMatches(req'[q].input.print, db'.baselines)
      BY DEF Underway
    <2>1. q # r /\ req'[q] = req[q]
      BY <1>3, <1>4
    <2>2. /\ Turn(q) /\ db = durable
          /\ req[q].at = "matched" =>
                req[q].matches = FindMatches(req[q].input.print, db.baselines)
      BY <2>1 DEF IInv, Underway
    <2>3. db' = db
      BY <2>1 DEF Turn
    <2>4. Turn(q)'
      BY <1>3, <1>4, <2>2 DEF Turn
    <2> QED
      BY <2>1, <2>2, <2>3, <2>4
  <1>7. ASSUME NEW d, StageOK(d, r)
        PROVE  Tables(d) /\ VersionsKept(d, req') /\ Sound(d)
               /\ \A q \in Requests : EventShown(d, req'[q])
    <2>1. VersionsKept(d, req')
      <3>1. ~Registered(req, r) /\ ~Registered(req', r)
        BY <1>4 DEF Registered
      <3>2. \A q \in Requests :
               /\ Registered(req', q) <=> Registered(req, q)
               /\ Registered(req, q) => req'[q].input = req[q].input
        BY <1>3, <3>1 DEF Registered
      <3>3. VersionsKept(d, req)
        BY <1>7 DEF StageOK
      <3> QED
        BY <3>2, <3>3, SameRegistrations
    <2>2. \A q \in Requests : EventShown(d, req'[q])
      BY <1>3, <1>4, <1>7 DEF StageOK, EventShown
    <2> QED
      BY <1>7, <2>1, <2>2 DEF StageOK
  <1>8. ViewOK(db, req)' /\ ViewOK(durable, req)'
    BY <1>7, ViewsAreStages DEF ViewOK
  <1>9. IdsDiffer'
    BY <1>3, <1>4 DEF IInv, IdsDiffer
  <1> QED
    BY <1>1, <1>5, <1>6, <1>8, <1>9 DEF IInv, RowEditDetected

\* A call that goes through or raises, when all its stages keep what others have and
\* the last one what r is promised.
LEMMA CallStep ==
    ASSUME IInv, NEW r \in Requests, req[r].at \notin {"done", "failed"}, Turn(r),
           NEW stages, DOMAIN stages = 1 .. Len(stages), Len(stages) \in Nat,
           \A i \in DOMAIN stages : StageOK(stages[i], r),
           NEW next, RequestOK(next), next.at \in {"added", "detailed", "done"},
           NEW last, last = IF stages = <<>> THEN db ELSE stages[Len(stages)],
           stages # <<>> => Len(stages) # 0,
           \A q \in Requests \ {r} :
              req[q].id = next.id /\ next.id # 0 => req[q].at = "failed",
           EventShown(last, next), VersionsKept(last, [req EXCEPT ![r] = next]),
           Call(r, stages, next), UNCHANGED edited
    PROVE  IInv'
  <1>1. ~edited /\ ~edited'
    BY NotEdited
  <1>2. StageOK(db, r) /\ StageOK(durable, r) /\ StageOK(last, r)
    <2>1. stages # <<>> => Len(stages) \in DOMAIN stages
      OBVIOUS
    <2> QED
      BY <2>1, ViewsAreStages
  <1>3. CASE Commits(last) /\ req' = [req EXCEPT ![r] = next]
    <2>1. db' = last /\ durable' = last
      BY <1>3 DEF Commits
    <2>2. /\ DOMAIN req = Requests /\ \A q \in Requests : RequestOK(req[q])
          /\ IsFiniteSet({q \in Requests : req[q].at # "new"})
      BY DEF IInv, RequestsOK
    <2>3. /\ DOMAIN req' = Requests /\ req'[r] = next
          /\ \A q \in Requests \ {r} : req'[q] = req[q]
      BY <1>3, <2>2
    <2>4. RequestsOK'
      <3>1. \A q \in Requests : RequestOK(req'[q])
        BY <2>2, <2>3
      <3>2. {q \in Requests : req'[q].at # "new"}
              \in SUBSET ({q \in Requests : req[q].at # "new"} \cup {r})
        BY <2>3
      <3>3. IsFiniteSet({q \in Requests : req'[q].at # "new"})
        BY <2>2, <3>2, FS_AddElement, FS_Subset
      <3> QED
        BY <2>3, <3>1, <3>3 DEF RequestsOK
    <2>5. Underway'
      <3>1. \A q \in Requests \ {r} : req'[q].at \in {"new", "done", "failed"}
        BY <2>3 DEF Turn
      <3> QED
        BY <2>1, <2>3, <3>1 DEF Underway, Turn
    <2>6. \A q \in Requests : EventShown(last, req'[q])
      BY <1>2, <2>3 DEF StageOK
    <2>7. ViewOK(db, req)' /\ ViewOK(durable, req)'
      BY <1>2, <1>3, <2>1, <2>6 DEF ViewOK, StageOK
    <2>8. IdsDiffer'
      BY <2>3 DEF IInv, IdsDiffer
    <2> QED
      BY <1>1, <2>1, <2>4, <2>5, <2>7, <2>8 DEF IInv, RowEditDetected
  <1>4. CASE /\ Raises({stages[i] : i \in DOMAIN stages})
             /\ req' = [req EXCEPT ![r].at = "failed"]
    <2>1. StageOK(db', r)
      BY <1>2, <1>4 DEF Raises
    <2> QED
      BY <1>4, <2>1, FailStep DEF Raises
  <1> QED
    BY <1>3, <1>4 DEF Call

-----------------------------------------------------------------------------
(* Matches *)

\* find_matches names baselines, an exact match one that has the event's content.
LEMMA MatchesHit ==
    ASSUME NEW d, NEW print, NEW m \in FindMatches(print, d.baselines)
    PROVE  /\ m.supervise_file \in DOMAIN d.baselines
           /\ m.match_type = "exact" => d.baselines[m.supervise_file].sha256 = print.sha256
  BY DEF FindMatches, Exact, Fuzzy, Same, Rated

\* If it does not raise it gives at most one match a baseline, and they have an order.
LEMMA FindMatchesFacts ==
    ASSUME NEW d, Tables(d), NEW print \in EventPrints, ~FindRaises(print, d.baselines)
    PROVE  Ranked(FindMatches(print, d.baselines))
  <1> DEFINE ids == DOMAIN d.baselines
             same == Same(print, d.baselines)
             rated == Rated(print, d.baselines)
             score(i) == Similarity(print.fuzzy_hash, d.baselines[i].fuzzy_hash)
             near == {j \in rated : score(j) >= FUZZY_MATCH_THRESHOLD}
             matches == FindMatches(print, d.baselines)
  <1>1. /\ d.baselines \in Seq(BaselineRows) /\ ids = 1 .. Len(d.baselines)
        /\ Len(d.baselines) \in Nat
    BY DEF Tables
  <1>2. \A i \in rated : score(i) \in 0 .. 100
    <2> SUFFICES ASSUME NEW i \in rated PROVE score(i) \in 0 .. 100
      OBVIOUS
    <2>1. i \in ids /\ d.baselines[i].fuzzy_hash # NoFuzzy
      BY DEF Rated
    <2>4. IsSsdeep(print.fuzzy_hash)
      BY DEF FindRaises
    <2>2. d.baselines[i] \in BaselineRows
      BY <1>1, <2>1
    <2>3. PICK p \in Prints : p.fuzzy_hash = d.baselines[i].fuzzy_hash
      BY <2>2 DEF BaselineRows
    <2> QED
      BY <2>1, <2>3, <2>4, SimilarityAssumption
  <1>3. matches = {Exact(i) : i \in same} \cup {Fuzzy(i, score(i)) : i \in near}
    BY DEF FindMatches
  <1>4. same \subseteq ids /\ near \subseteq ids /\ \A i \in same : i \notin near
    BY DEF Same, Rated
  <1>5. \A i \in near : score(i) \in 0 .. 100
    BY <1>2
  <1> HIDE DEF same, near, matches, score
  <1>7. \A m \in matches :
           \/ \E i \in same : m = Exact(i)
           \/ \E i \in near : m = Fuzzy(i, score(i))
    BY <1>3
  <1>8. \A m \in matches :
           /\ m.supervise_file \in ids /\ m.similarity \in 0 .. 100
           /\ m.match_type = "exact" => m.supervise_file \in same
           /\ m.supervise_file \in same => m = Exact(m.supervise_file)
           /\ m.supervise_file \notin same => m = Fuzzy(m.supervise_file, score(m.supervise_file))
    BY <1>4, <1>5, <1>7 DEF Exact, Fuzzy
  <1>9. \A m, n \in matches : m.supervise_file = n.supervise_file => m = n
    BY <1>8
  <1>10. IsFiniteSet(matches)
    <2> DEFINE file == [m \in matches |-> m.supervise_file]
    <2>1. file \in Injection(matches, ids)
      BY <1>8, <1>9 DEF Injection, IsInjective
    <2>2. IsFiniteSet(ids)
      BY <1>1, FS_Interval
    <2> QED
      BY <2>1, <2>2, FS_Injection
  <1>11. \A m \in matches : m.supervise_file \in Nat
    BY <1>1, <1>8
  <1> QED
    BY <1>8, <1>9, <1>10, <1>11 DEF Ranked, matches

-----------------------------------------------------------------------------
(* The inductive invariant: the steps without a call *)

\* Nothing is recorded at the start.
LEMMA InitIInv == Init => IInv
  <1> SUFFICES ASSUME Init PROVE IInv
    OBVIOUS
  <1>1. /\ DOMAIN req = Requests
        /\ \A r \in Requests : req[r] = [at |-> "new", input |-> <<>>, id |-> 0, matches |-> {}]
    BY DEF Init, NewRequest
  <1>2. RequestsOK
    <2>1. \A r \in Requests : RequestOK(req[r])
      BY <1>1 DEF RequestOK
    <2>2. {r \in Requests : req[r].at # "new"} = {}
      BY <1>1
    <2> QED
      BY <1>1, <2>1, <2>2, FS_EmptySet DEF RequestsOK
  <1>3. Underway
    BY <1>1 DEF Underway
  <1>4. Tables(EmptyDb)
    <2>1. /\ DOMAIN EmptyDb = {"baselines", "history", "events", "details", "traces"}
          /\ EmptyDb.baselines = <<>> /\ EmptyDb.history = <<>> /\ EmptyDb.events = <<>>
          /\ EmptyDb.traces = {}
      BY DEF EmptyDb
    <2>2. /\ <<>> \in Seq(BaselineRows) /\ \A S : <<>> \in Seq(S)
          /\ DOMAIN <<>> = {}
      OBVIOUS
    <2> QED
      BY <2>1, <2>2 DEF Tables, IsRows
  <1>5. Sound(EmptyDb)
    BY EmptyChain DEF Sound, EmptyDb, Backed
  <1>6. VersionsKept(EmptyDb, req) /\ \A r \in Requests : EventShown(EmptyDb, req[r])
    BY <1>1 DEF VersionsKept, Registered, EventShown
  <1>7. IdsDiffer
    BY <1>1 DEF IdsDiffer
  <1> QED
    BY <1>2, <1>3, <1>4, <1>5, <1>6, <1>7
       DEF Init, IInv, ViewOK, RowEditDetected

\* An answer of 4xx.
LEMMA RefuseStep ==
    ASSUME IInv, NEW r \in Requests, Refuse(r)
    PROVE  IInv'
  BY FailStep, ViewsAreStages DEF Refuse

\* The handler goes on without a call, and what it was promised stays shown.
LEMMA MoveStep ==
    ASSUME IInv, NEW r \in Requests, req[r].at \in {"added", "detailed"},
           NEW next, RequestOK(next), next.id = req[r].id, next.input = req[r].input,
           next.at \in {"detailed", "matched"},
           next.at = "matched" => next.matches = FindMatches(next.input.print, db.baselines),
           \A d : EventShown(d, req[r]) => EventShown(d, next),
           req' = [req EXCEPT ![r] = next], UNCHANGED <<db, durable, edited>>
    PROVE  IInv'
  <1>1. /\ DOMAIN req = Requests /\ \A q \in Requests : RequestOK(req[q])
        /\ IsFiniteSet({q \in Requests : req[q].at # "new"})
    BY DEF IInv, RequestsOK
  <1>2. /\ DOMAIN req' = Requests /\ req'[r] = next
        /\ \A q \in Requests \ {r} : req'[q] = req[q]
    BY <1>1
  <1>3. RequestsOK'
    <2>1. {q \in Requests : req'[q].at # "new"} = {q \in Requests : req[q].at # "new"}
      BY <1>2
    <2> QED
      BY <1>1, <1>2, <2>1 DEF RequestsOK
  <1>4. Underway'
    <2>1. Turn(r) /\ db = durable
      BY DEF IInv, Underway
    <2>2. \A q \in Requests \ {r} : req'[q].at \in {"new", "done", "failed"}
      BY <1>2, <2>1 DEF Turn
    <2> QED
      BY <1>2, <2>1, <2>2 DEF Underway, Turn
  <1>5. \A d : VersionsKept(d, req) => VersionsKept(d, req')
    <2>1. \A q \in Requests :
             /\ Registered(req', q) <=> Registered(req, q)
             /\ Registered(req, q) => req'[q].input = req[q].input
      BY <1>2 DEF Registered
    <2> QED
      BY <2>1, SameRegistrations
  <1>6. \A d : \A q \in Requests : EventShown(d, req[q]) => EventShown(d, req'[q])
    BY <1>2
  <1>7. ViewOK(db, req)' /\ ViewOK(durable, req)'
    BY <1>5, <1>6 DEF IInv, ViewOK
  <1>8. Finished' <=> Finished
    BY <1>2 DEF Finished
  <1>9. IdsDiffer'
    <2>1. \A q \in Requests : req'[q].id = req[q].id /\ (req'[q].at = "failed" <=> req[q].at = "failed")
      BY <1>2
    <2> QED
      BY <2>1 DEF IInv, IdsDiffer
  <1> QED
    BY <1>3, <1>4, <1>7, <1>8, <1>9 DEF IInv, RowEditDetected

\* find_matches reads the baselines that the handler's last call left.
LEMMA MatchBaselinesStep ==
    ASSUME IInv, NEW r \in Requests, MatchBaselines(r)
    PROVE  IInv'
  <1> DEFINE print == req[r].input.print
             found == FindMatches(print, db.baselines)
             next == [req[r] EXCEPT !.at = "matched", !.matches = found]
  <1>9. CASE FindRaises(print, db.baselines)
    BY <1>9, FailStep, ViewsAreStages DEF MatchBaselines
  <1>1. SUFFICES ASSUME /\ req[r].at = "detailed" /\ UNCHANGED <<db, durable, edited>>
                        /\ req' = [req EXCEPT ![r].at = "matched", ![r].matches = found]
                        /\ ~FindRaises(print, db.baselines)
                 PROVE  IInv'
    BY <1>9 DEF MatchBaselines
  <1>2. DOMAIN req = Requests /\ RequestOK(req[r])
    BY DEF IInv, RequestsOK
  <1>3. Ranked(found)
    <2>1. print \in EventPrints
      BY <1>1, <1>2 DEF RequestOK, EventPrints
    <2>2. Tables(db)
      BY DEF IInv, ViewOK
    <2> QED
      BY <1>1, <2>1, <2>2, FindMatchesFacts
  <1>4. /\ DOMAIN next = {"at", "input", "id", "matches"}
        /\ next.at = "matched" /\ next.id = req[r].id /\ next.input = req[r].input
        /\ next.matches = found
    BY <1>2 DEF RequestOK
  <1>5. req' = [req EXCEPT ![r] = next]
    BY <1>1, <1>2
  <1> HIDE DEF next
  <1>6. next.matches = FindMatches(next.input.print, db.baselines)
    BY <1>4
  <1> HIDE DEF found
  <1>7. RequestOK(next)
    BY <1>1, <1>2, <1>3, <1>4 DEF RequestOK
  <1>8. \A d : EventShown(d, req[r]) => EventShown(d, next)
    BY <1>1, <1>4 DEF EventShown
  <1> QED
    BY <1>1, <1>4, <1>5, <1>6, <1>7, <1>8, MoveStep

\* A restart finds the durable view; handlers that were under way are gone.
LEMMA CrashStep ==
    ASSUME IInv, Crash
    PROVE  IInv'
  <1>1. /\ db' = durable /\ UNCHANGED <<durable, edited>>
        /\ DOMAIN req' = Requests
        /\ \A r \in Requests :
              req'[r] = IF req[r].at \in {"new", "done"} THEN req[r]
                        ELSE [req[r] EXCEPT !.at = "failed"]
    BY DEF Crash
  <1>2. /\ \A q \in Requests : RequestOK(req[q])
        /\ IsFiniteSet({q \in Requests : req[q].at # "new"})
    BY DEF IInv, RequestsOK
  <1>3. \A r \in Requests :
           \/ req[r].at \in {"new", "done"} /\ req'[r] = req[r]
           \/ /\ req[r].at \notin {"new", "done"}
              /\ DOMAIN req'[r] = {"at", "input", "id", "matches"}
              /\ req'[r].at = "failed" /\ req'[r].id = req[r].id
    BY <1>1, <1>2 DEF RequestOK
  <1>4. RequestsOK'
    <2>1. \A q \in Requests : RequestOK(req'[q])
      BY <1>2, <1>3 DEF RequestOK
    <2>2. {q \in Requests : req'[q].at # "new"} = {q \in Requests : req[q].at # "new"}
      BY <1>3
    <2> QED
      BY <1>1, <1>2, <2>1, <2>2 DEF RequestsOK
  <1>5. Underway'
    BY <1>3 DEF Underway
  <1>6. VersionsKept(durable, req')
    <2>1. \A q \in Requests :
             /\ Registered(req', q) <=> Registered(req, q)
             /\ Registered(req, q) => req'[q].input = req[q].input
      BY <1>3 DEF Registered
    <2> QED
      BY <2>1, SameRegistrations DEF IInv, ViewOK
  <1>7. ~edited => \A q \in Requests : EventShown(durable, req'[q])
    BY <1>3 DEF IInv, ViewOK, EventShown
  <1>8. ViewOK(db, req)' /\ ViewOK(durable, req)'
    BY <1>1, <1>6, <1>7 DEF IInv, ViewOK
  <1>9. Finished => Finished'
    BY <1>3 DEF Finished
  <1>10. edited => db = durable
    BY DEF IInv
  <1>11. IdsDiffer'
    BY <1>3 DEF IInv, IdsDiffer
  <1> QED
    BY <1>1, <1>4, <1>5, <1>8, <1>9, <1>10, <1>11 DEF IInv, RowEditDetected

\* Somebody edits the events, and the chain tells.
LEMMA EditStep ==
    ASSUME IInv, NEW events, Edit(events), IsRows(events),
           \A k \in DOMAIN events : events[k].data \in EventPrints,
           VerifyChain(events) # 0
    PROVE  IInv'
  <1> DEFINE new == [db EXCEPT !.events = events]
  <1>1. /\ Finished /\ edited' = TRUE
        /\ db' = new /\ durable' = new /\ req' = req
    BY DEF Edit
  <1>2. Tables(db)
    BY DEF IInv, ViewOK
  <1>3. /\ DOMAIN new = DOMAIN db /\ new.events = events
        /\ new.baselines = db.baselines /\ new.history = db.history /\ new.traces = db.traces
    BY <1>2 DEF Tables
  <1> HIDE DEF new
  <1>4. Tables(new)
    BY <1>2, <1>3 DEF Tables
  <1>5. RequestsOK' /\ IdsDiffer' /\ Finished'
    BY <1>1 DEF IInv, RequestsOK, IdsDiffer, Finished
  <1>6. Underway'
    BY <1>1 DEF Finished, Underway
  <1>7. VersionsKept(new, req)
    <2>1. VersionsKept(db, req)
      BY DEF IInv, ViewOK
    <2>2. \A i : Replacements(new, i) = Replacements(db, i)
      BY <1>3 DEF Replacements
    <2>3. \A i, s : Kept(new, i, s) <=> Kept(db, i, s)
      BY <1>3 DEF Kept
    <2> QED
      BY <1>3, <2>1, <2>2, <2>3 DEF VersionsKept
  <1>8. ViewOK(db, req)' /\ ViewOK(durable, req)'
    BY <1>1, <1>4, <1>7 DEF ViewOK
  <1> QED
    BY <1>1, <1>3, <1>5, <1>6, <1>8 DEF IInv, RowEditDetected

\* A protected field of a row, or a row that has a successor.
LEMMA EditEventsStep ==
    ASSUME IInv, NEW i \in DOMAIN db.events, EditRow(i) \/ DeleteRow(i)
    PROVE  IInv'
  <1> DEFINE rows == db.events
  <1>1. Tables(db)
    BY DEF IInv, ViewOK
  <1>2. /\ DOMAIN db = {"baselines", "history", "events", "details", "traces"}
        /\ IsRows(rows)
        /\ DOMAIN rows = 1 .. Len(rows) /\ Len(rows) \in Nat
        /\ \A k \in DOMAIN rows : rows[k].data \in EventPrints
    BY <1>1, RowsFacts DEF Tables
  <1>3. ~edited
    BY DEF EditRow, DeleteRow, Edit
  <1>4. Chain(rows)
    BY <1>3 DEF IInv, ViewOK, Sound
  <1>5. DOMAIN rows[i] = {"data", "metadata", "prev_hash", "record_hash"}
    BY <1>4 DEF Chain, AsWritten
  <1>6. ASSUME NEW row, row.record_hash = rows[i].record_hash, row.data \in EventPrints,
               \/ row.data # rows[i].data
               \/ /\ row.metadata # rows[i].metadata
                  /\ \E meta : row.metadata = Stored(meta),
               Edit([rows EXCEPT ![i] = row])
        PROVE  IInv'
    <2> DEFINE changed == [rows EXCEPT ![i] = row]
    <2>1. /\ DOMAIN changed = DOMAIN rows /\ changed[i] = row
          /\ \A k \in DOMAIN rows \ {i} : changed[k] = rows[k]
          /\ IsRows(changed)
      <3>1. IsRows(rows) /\ i \in DOMAIN rows
        BY <1>2
      <3> HIDE DEF rows
      <3> QED
        BY <3>1, UpdateRow
    <2> HIDE DEF changed
    <2>2. VerifyChain(changed) # 0
      BY <1>4, <1>6, <2>1, ChangeIsFound
    <2>3. \A k \in DOMAIN changed : changed[k].data \in EventPrints
      BY <1>2, <1>6, <2>1
    <2>4. Edit(changed)
      BY <1>6 DEF changed
    <2> QED
      BY <2>1, <2>2, <2>3, <2>4, EditStep
  <1>7. ASSUME NEW print \in EventPrints \ {rows[i].data}, Edit([rows EXCEPT ![i].data = print])
        PROVE  IInv'
    <2> DEFINE row == [rows[i] EXCEPT !.data = print]
    <2>1. row.record_hash = rows[i].record_hash /\ row.data = print
      BY <1>5
    <2>2. [rows EXCEPT ![i].data = print] = [rows EXCEPT ![i] = row]
      BY <1>2
    <2> HIDE DEF row
    <2> QED
      BY <1>6, <1>7, <2>1, <2>2
  <1>8. ASSUME NEW meta, meta # rows[i].metadata, \E given : meta = Stored(given),
               Edit([rows EXCEPT ![i].metadata = meta])
        PROVE  IInv'
    <2> DEFINE row == [rows[i] EXCEPT !.metadata = meta]
    <2>1. /\ row.record_hash = rows[i].record_hash /\ row.metadata = meta
          /\ row.data = rows[i].data
      BY <1>5
    <2>2. [rows EXCEPT ![i].metadata = meta] = [rows EXCEPT ![i] = row]
      BY <1>2
    <2>3. row.data \in EventPrints
      BY <1>2, <2>1
    <2> HIDE DEF row
    <2> QED
      BY <1>6, <1>8, <2>1, <2>2, <2>3
  <1>9. CASE DeleteRow(i)
    <2> DEFINE rest == SubSeq(rows, 1, i - 1) \o SubSeq(rows, i + 1, Len(rows))
    <2>1. i < Len(rows) /\ Edit(rest)
      BY <1>9 DEF DeleteRow
    <2>2. /\ IsRows(rest)
          /\ \A k \in DOMAIN rest : \E j \in DOMAIN rows : rest[k] = rows[j]
      BY <1>2, <2>1, DeleteFacts
    <2>3. VerifyChain(rest) # 0
      BY <1>4, <2>1, DeletionIsFound
    <2> HIDE DEF rest
    <2>4. \A k \in DOMAIN rest : rest[k].data \in EventPrints
      BY <1>2, <2>2
    <2> QED
      BY <2>1, <2>2, <2>3, <2>4, EditStep
  <1>10. CASE EditRow(i)
    <2>1. CASE \E print \in EventPrints \ {rows[i].data} : Edit([rows EXCEPT ![i].data = print])
      BY <1>7, <2>1
    <2>2. CASE \E meta \in {Stored(input.meta) : input \in EventInputs} \ {rows[i].metadata} :
                  Edit([rows EXCEPT ![i].metadata = meta])
      BY <1>8, <2>2
    <2> QED
      BY <1>10, <2>1, <2>2 DEF EditRow
  <1> QED
    BY <1>9, <1>10

-----------------------------------------------------------------------------
(* The inductive invariant: registrations *)

\* View e has the baselines of d with all their versions.
Carries(d, e) ==
    \A i \in DOMAIN d.baselines :
        /\ i \in DOMAIN e.baselines /\ e.baselines[i].name = d.baselines[i].name
        /\ Replacements(d, i) \subseteq Replacements(e, i)
        /\ \A sha256 : Kept(d, i, sha256) => Kept(e, i, sha256)

\* The versions of a baseline can be counted.
LEMMA ReplacementsFinite ==
    ASSUME NEW d, Tables(d), NEW i
    PROVE  /\ IsFiniteSet(Replacements(d, i)) /\ Cardinality(Replacements(d, i)) \in Nat
           /\ DOMAIN d.history = 1 .. Len(d.history) /\ Len(d.history) \in Nat
  <1>1. DOMAIN d.history = 1 .. Len(d.history) /\ Len(d.history) \in Nat
    BY DEF Tables
  <1>2. Replacements(d, i) \in SUBSET (1 .. Len(d.history)) /\ IsFiniteSet(1 .. Len(d.history))
    BY <1>1, FS_Interval DEF Replacements
  <1>3. IsFiniteSet(Replacements(d, i))
    BY <1>2, FS_Subset
  <1> QED
    BY <1>1, <1>3, FS_CardinalityType

\* The acknowledged registrations of a name can be counted.
LEMMA AckedFinite ==
    ASSUME IInv, NEW name
    PROVE  IsFiniteSet(Acked(req, name)) /\ Cardinality(Acked(req, name)) \in Nat
  <1>1. Acked(req, name) \in SUBSET {r \in Requests : req[r].at # "new"}
    BY DEF Acked, Registered
  <1>2. IsFiniteSet(Acked(req, name))
    BY <1>1, FS_Subset DEF IInv, RequestsOK
  <1> QED
    BY <1>2, FS_CardinalityType

\* A view that has all versions has what was acknowledged.
LEMMA CarriedVersions ==
    ASSUME IInv, NEW d, NEW e, Tables(d), Tables(e), Carries(d, e), VersionsKept(d, req)
    PROVE  VersionsKept(e, req)
  <1>1. ASSUME NEW i \in DOMAIN d.baselines
        PROVE  Cardinality(Replacements(d, i)) <= Cardinality(Replacements(e, i))
    BY <1>1, ReplacementsFinite, FS_Subset DEF Carries
  <1> SUFFICES ASSUME NEW r \in Requests, Registered(req, r)
               PROVE  \E i \in DOMAIN e.baselines :
                         /\ e.baselines[i].name = req[r].input.name
                         /\ Kept(e, i, req[r].input.sha256)
                         /\ Cardinality(Replacements(e, i))
                               >= Cardinality(Acked(req, req[r].input.name)) - 1
    BY DEF VersionsKept
  <1>2. PICK i \in DOMAIN d.baselines :
           /\ d.baselines[i].name = req[r].input.name
           /\ Kept(d, i, req[r].input.sha256)
           /\ Cardinality(Replacements(d, i)) >= Cardinality(Acked(req, req[r].input.name)) - 1
    BY DEF VersionsKept
  <1>3. /\ i \in DOMAIN e.baselines /\ e.baselines[i].name = req[r].input.name
        /\ Kept(e, i, req[r].input.sha256)
    BY <1>2 DEF Carries
  <1>4. Cardinality(Replacements(e, i)) >= Cardinality(Acked(req, req[r].input.name)) - 1
    <2>1. Cardinality(Replacements(d, i)) <= Cardinality(Replacements(e, i))
      BY <1>1
    <2>2. Cardinality(Replacements(d, i)) \in Nat /\ Cardinality(Replacements(e, i)) \in Nat
      BY ReplacementsFinite
    <2>3. Cardinality(Acked(req, req[r].input.name)) \in Nat
      BY AckedFinite
    <2> QED
      BY <1>2, <2>1, <2>2, <2>3
  <1> QED
    BY <1>3, <1>4

\* A stage of a registration leaves events alone.
LEMMA BaselineStage ==
    ASSUME IInv, NEW r \in Requests, req[r].at \notin {"done", "failed"},
           NEW e, Tables(e), Carries(db, e),
           e.events = db.events, e.details = db.details, e.traces = db.traces
    PROVE  StageOK(e, r)
  <1>1. StageOK(db, r)
    BY ViewsAreStages
  <1>2. VersionsKept(e, req)
    BY <1>1, CarriedVersions DEF StageOK
  <1>3. Backed(e)
    BY <1>1 DEF StageOK, Tables, Sound, Backed, Carries
  <1>4. Sound(e)
    BY <1>1, <1>3 DEF StageOK, Sound
  <1>5. \A id : Urls(e, id) = Urls(db, id) /\ MatchesOf(e, id) = MatchesOf(db, id)
    BY DEF Urls, MatchesOf
  <1>6. \A q \in Requests \ {r} : EventShown(e, req[q])
    BY <1>1, <1>5 DEF StageOK, EventShown
  <1> QED
    BY <1>2, <1>4, <1>6 DEF StageOK

\* A view with the version that r registers: the baseline is new, or its old version
\* is one more in its history.
LEMMA RegisteredVersion ==
    ASSUME IInv, NEW r \in Requests, req[r].at = "new",
           NEW e, Tables(e), Carries(db, e), NEW next, next.at = "done", next.id = 0,
           NEW i \in DOMAIN e.baselines,
           e.baselines[i].name = next.input.name, e.baselines[i].sha256 = next.input.sha256,
           i \in DOMAIN db.baselines =>
              Cardinality(Replacements(e, i)) = Cardinality(Replacements(db, i)) + 1
    PROVE  VersionsKept(e, [req EXCEPT ![r] = next])
  <1> DEFINE reqs == [req EXCEPT ![r] = next]
             name == next.input.name
  <1>1. Tables(db) /\ VersionsKept(db, req) /\ VersionsKept(e, req)
    BY CarriedVersions DEF IInv, ViewOK
  <1>2. DOMAIN req = Requests
    BY DEF IInv, RequestsOK
  <1>3. reqs[r] = next /\ \A q \in Requests \ {r} : reqs[q] = req[q]
    BY <1>2
  <1> HIDE DEF reqs
  <1>4. Registered(reqs, r) /\ ~Registered(req, r)
    BY <1>3 DEF Registered
  <1>5. \A q \in Requests \ {r} : Registered(reqs, q) <=> Registered(req, q)
    BY <1>3 DEF Registered
  <1>6. Acked(reqs, name) = Acked(req, name) \cup {r}
    BY <1>3, <1>4, <1>5 DEF Acked
  <1>7. \A n : n # name => Acked(reqs, n) = Acked(req, n)
    BY <1>3, <1>4, <1>5 DEF Acked
  <1>8. /\ Cardinality(Acked(req, name)) \in Nat
        /\ Cardinality(Acked(reqs, name)) = Cardinality(Acked(req, name)) + 1
    <2>1. r \notin Acked(req, name) /\ IsFiniteSet(Acked(req, name))
      BY <1>4, AckedFinite DEF Acked
    <2> QED
      BY <1>6, <2>1, AckedFinite, FS_AddElement
  <1>9. Cardinality(Replacements(e, i)) >= Cardinality(Acked(reqs, name)) - 1
    <2>1. Cardinality(Replacements(e, i)) \in Nat /\ Cardinality(Replacements(db, i)) \in Nat
      BY <1>1, ReplacementsFinite
    <2>2. CASE Acked(req, name) = {}
      BY <1>8, <2>1, <2>2, FS_EmptySet
    <2>3. CASE Acked(req, name) # {}
      <3>1. PICK q \in Requests : Registered(req, q) /\ req[q].input.name = name
        BY <2>3 DEF Acked
      <3>2. PICK j \in DOMAIN db.baselines :
               /\ db.baselines[j].name = name
               /\ Cardinality(Replacements(db, j)) >= Cardinality(Acked(req, name)) - 1
        BY <1>1, <3>1 DEF VersionsKept
      <3>3. j \in DOMAIN e.baselines /\ e.baselines[j].name = name
        BY <3>2 DEF Carries
      <3>4. j = i
        BY <3>3 DEF Tables
      <3> QED
        BY <1>8, <2>1, <3>2, <3>4
    <2> QED
      BY <2>2, <2>3
  <1>10. ASSUME NEW q \in Requests, Registered(reqs, q)
         PROVE  \E j \in DOMAIN e.baselines :
                   /\ e.baselines[j].name = reqs[q].input.name
                   /\ Kept(e, j, reqs[q].input.sha256)
                   /\ Cardinality(Replacements(e, j))
                         >= Cardinality(Acked(reqs, reqs[q].input.name)) - 1
    <2>1. CASE q = r
      BY <1>3, <1>9, <2>1 DEF Kept
    <2>2. CASE q # r
      <3>1. Registered(req, q) /\ reqs[q] = req[q]
        BY <1>3, <1>5, <1>10, <2>2
      <3>2. PICK j \in DOMAIN e.baselines :
               /\ e.baselines[j].name = req[q].input.name
               /\ Kept(e, j, req[q].input.sha256)
               /\ Cardinality(Replacements(e, j)) >= Cardinality(Acked(req, req[q].input.name)) - 1
        BY <1>1, <3>1 DEF VersionsKept
      <3>3. CASE req[q].input.name = name
        <4>1. j = i
          BY <3>2, <3>3 DEF Tables
        <4> QED
          BY <1>9, <3>1, <3>2, <3>3, <4>1
      <3>4. CASE req[q].input.name # name
        BY <1>7, <3>1, <3>2, <3>4
      <3> QED
        BY <3>3, <3>4
    <2> QED
      BY <2>1, <2>2
  <1> QED
    BY <1>10 DEF VersionsKept, reqs

\* register_supervise_file of a new name.
LEMMA InsertBaseline ==
    ASSUME Tables(db), NEW new \in BaselineRows, Existing(new.name) = {},
           NEW e, e = [db EXCEPT !.baselines = Append(@, new)]
    PROVE  /\ Tables(e) /\ Carries(db, e)
           /\ e.events = db.events /\ e.details = db.details /\ e.traces = db.traces
           /\ \E i \in DOMAIN e.baselines : i \notin DOMAIN db.baselines /\ e.baselines[i] = new
  <1> DEFINE n == Len(db.baselines)
  <1>1. /\ DOMAIN e = DOMAIN db /\ e.baselines = Append(db.baselines, new)
        /\ e.history = db.history /\ e.events = db.events
        /\ e.details = db.details /\ e.traces = db.traces
    BY DEF Tables
  <1>2. db.baselines \in Seq(BaselineRows) /\ DOMAIN db.baselines = 1 .. n /\ n \in Nat
    BY DEF Tables
  <1>3. /\ e.baselines \in Seq(BaselineRows) /\ DOMAIN e.baselines = 1 .. (n + 1)
        /\ e.baselines[n + 1] = new
        /\ \A i \in 1 .. n : e.baselines[i] = db.baselines[i]
    BY <1>1, <1>2
  <1>4. \A i \in 1 .. n : db.baselines[i].name # new.name
    BY <1>2 DEF Existing, Named
  <1>5. \A i, j \in DOMAIN e.baselines : e.baselines[i].name = e.baselines[j].name => i = j
    BY <1>2, <1>3, <1>4 DEF Tables
  <1>6. e.history \in Seq([supervise_file : DOMAIN e.baselines, sha256 : Hashes])
    <2> DEFINE S == [supervise_file : DOMAIN db.baselines, sha256 : Hashes]
               T == [supervise_file : DOMAIN e.baselines, sha256 : Hashes]
    <2>1. S \subseteq T
      BY <1>2, <1>3
    <2>2. e.history \in Seq(S)
      BY <1>1 DEF Tables
    <2> HIDE DEF S, T
    <2>3. e.history \in Seq(T)
      BY <2>1, <2>2, SeqMonotonic
    <2> QED
      BY <2>3 DEF T
  <1>7. \A t \in e.traces : t.match.supervise_file \in DOMAIN e.baselines
    BY <1>1, <1>2, <1>3 DEF Tables
  <1>8. Tables(e)
    BY <1>1, <1>3, <1>5, <1>6, <1>7 DEF Tables
  <1>9. Carries(db, e)
    BY <1>1, <1>2, <1>3 DEF Carries, Replacements, Kept
  <1> QED
    BY <1>1, <1>2, <1>3, <1>8, <1>9

\* ... and of a name it has: the old version goes into update_history,
LEMMA InsertVersion ==
    ASSUME Tables(db), NEW i \in DOMAIN db.baselines,
           NEW e, e = [db EXCEPT !.history = Append(@, Version(i))]
    PROVE  /\ Tables(e) /\ Carries(db, e)
           /\ e.baselines = db.baselines
           /\ e.events = db.events /\ e.details = db.details /\ e.traces = db.traces
           /\ \E h \in DOMAIN e.history :
                 e.history[h] = [supervise_file |-> i, sha256 |-> db.baselines[i].sha256]
           /\ Cardinality(Replacements(e, i)) = Cardinality(Replacements(db, i)) + 1
  <1> DEFINE n == Len(db.history)
             S == [supervise_file : DOMAIN db.baselines, sha256 : Hashes]
  <1>1. /\ DOMAIN e = DOMAIN db /\ e.history = Append(db.history, Version(i))
        /\ e.baselines = db.baselines /\ e.events = db.events
        /\ e.details = db.details /\ e.traces = db.traces
    BY DEF Tables
  <1>2. /\ Version(i) \in S /\ Version(i).supervise_file = i
        /\ Version(i) = [supervise_file |-> i, sha256 |-> db.baselines[i].sha256]
    <2>1. db.baselines[i] \in BaselineRows
      BY DEF Tables
    <2>2. db.baselines[i].sha256 \in Hashes
      BY <2>1 DEF BaselineRows
    <2> QED
      BY <2>2 DEF Version
  <1>3. db.history \in Seq(S) /\ DOMAIN db.history = 1 .. n /\ n \in Nat
    BY DEF Tables
  <1> HIDE DEF S
  <1>4. /\ e.history \in Seq(S) /\ DOMAIN e.history = 1 .. (n + 1)
        /\ e.history[n + 1] = Version(i)
        /\ \A h \in 1 .. n : e.history[h] = db.history[h]
    BY <1>1, <1>2, <1>3
  <1>5. Tables(e)
    BY <1>1, <1>4 DEF Tables, S
  <1>6. Carries(db, e)
    BY <1>1, <1>3, <1>4 DEF Carries, Replacements, Kept
  <1>7. Cardinality(Replacements(e, i)) = Cardinality(Replacements(db, i)) + 1
    <2>1. Replacements(e, i) = Replacements(db, i) \cup {n + 1} /\ n + 1 \notin Replacements(db, i)
      BY <1>2, <1>3, <1>4 DEF Replacements
    <2> QED
      BY <2>1, ReplacementsFinite, FS_AddElement
  <1> QED
    BY <1>1, <1>2, <1>3, <1>4, <1>5, <1>6, <1>7

\* and then the row of the baseline gets the new one.
LEMMA UpdateBaseline ==
    ASSUME NEW d, Tables(d), NEW i \in DOMAIN d.baselines,
           \E h \in DOMAIN d.history :
              d.history[h] = [supervise_file |-> i, sha256 |-> d.baselines[i].sha256],
           NEW new \in BaselineRows, new.name = d.baselines[i].name,
           NEW e, e = [d EXCEPT !.baselines[i] = new]
    PROVE  /\ Tables(e) /\ Carries(d, e)
           /\ e.history = d.history /\ e.baselines[i] = new
           /\ e.events = d.events /\ e.details = d.details /\ e.traces = d.traces
  <1>1. /\ DOMAIN e = DOMAIN d /\ e.baselines = [d.baselines EXCEPT ![i] = new]
        /\ e.history = d.history /\ e.events = d.events
        /\ e.details = d.details /\ e.traces = d.traces
    BY DEF Tables
  <1>2. d.baselines \in Seq(BaselineRows) /\ i \in 1 .. Len(d.baselines)
    BY DEF Tables
  <1>3. /\ e.baselines \in Seq(BaselineRows) /\ DOMAIN e.baselines = DOMAIN d.baselines
        /\ e.baselines[i] = new
        /\ \A j \in DOMAIN d.baselines \ {i} : e.baselines[j] = d.baselines[j]
    BY <1>1, <1>2, ExceptSeq
  <1>4. \A j \in DOMAIN e.baselines : e.baselines[j].name = d.baselines[j].name
    BY <1>3
  <1>5. Tables(e)
    BY <1>1, <1>3, <1>4 DEF Tables
  <1>6. Carries(d, e)
    BY <1>1, <1>3, <1>4 DEF Carries, Replacements, Kept
  <1> QED
    BY <1>1, <1>3, <1>5, <1>6

\* registration.register, a new name or one that is there.
LEMMA RegisterStep ==
    ASSUME IInv, NEW r \in Requests, Register(r)
    PROVE  IInv'
  <1>1. /\ req[r].at = "new" /\ req[r].at \notin {"done", "failed"} /\ Turn(r) /\ edited' = edited
    BY DEF Register
  <1>2. PICK name \in Names, data \in Files :
           Call(r, RegisterStages(name, Fingerprint(data)),
                [req[r] EXCEPT !.at = "done", !.input = Baseline(name, Fingerprint(data))])
    BY DEF Register
  <1> DEFINE new == Baseline(name, Fingerprint(data))
             next == [req[r] EXCEPT !.at = "done", !.input = new]
             stages == RegisterStages(name, Fingerprint(data))
  <1>3. new \in BaselineRows /\ new.name = name
    <2>1. Fingerprint(data) \in Prints
      BY DEF Prints
    <2>2. Fingerprint(data).sha256 \in Hashes
      BY <2>1 DEF Hashes
    <2> QED
      BY <2>1, <2>2 DEF Baseline, BaselineRows
  <1> HIDE DEF new
  <1>4. /\ DOMAIN next = {"at", "input", "id", "matches"}
        /\ next.at = "done" /\ next.id = 0 /\ next.input = new
    BY <1>1 DEF IInv, RequestsOK, RequestOK
  <1>5. Tables(db)
    BY DEF IInv, ViewOK
  <1> HIDE DEF next
  <1>6. RequestOK(next) /\ next.at \in {"added", "detailed", "done"}
    BY <1>4 DEF RequestOK
  <1>7. \A e : EventShown(e, next)
    BY <1>4 DEF EventShown
  <1>8. CASE Existing(name) = {}
    <2> DEFINE e == [db EXCEPT !.baselines = Append(@, new)]
    <2>1. stages = <<e>>
      BY <1>8 DEF RegisterStages, new
    <2>2. /\ Tables(e) /\ Carries(db, e)
          /\ e.events = db.events /\ e.details = db.details /\ e.traces = db.traces
          /\ \E i \in DOMAIN e.baselines : i \notin DOMAIN db.baselines /\ e.baselines[i] = new
      BY <1>3, <1>5, <1>8, InsertBaseline
    <2> HIDE DEF e
    <2>3. StageOK(e, r)
      BY <1>1, <2>2, BaselineStage
    <2>4. VersionsKept(e, [req EXCEPT ![r] = next])
      BY <1>1, <1>3, <1>4, <2>2, RegisteredVersion
    <2>5. Call(r, stages, next)
      BY <1>2 DEF next, new
    <2> HIDE DEF stages
    <2>6. /\ Len(stages) = 1 /\ DOMAIN stages = 1 .. Len(stages) /\ stages # <<>>
          /\ e = IF stages = <<>> THEN db ELSE stages[Len(stages)]
          /\ \A k \in DOMAIN stages : StageOK(stages[k], r)
      BY <2>1, <2>3
    <2>7. \A q \in Requests \ {r} : req[q].id = next.id /\ next.id # 0 => req[q].at = "failed"
      BY <1>4
    <2> QED
      BY <1>1, <1>6, <1>7, <2>4, <2>5, <2>6, <2>7, CallStep
  <1>9. CASE Existing(name) # {}
    <2> DEFINE i == Min(Existing(name))
               archived == [db EXCEPT !.history = Append(@, Version(i))]
               e == [archived EXCEPT !.baselines[i] = new]
    <2>1. i \in DOMAIN db.baselines /\ db.baselines[i].name = name
      <3>1. \A j, k \in Existing(name) : j = k
        BY <1>5 DEF Existing, Named, Tables
      <3>2. Existing(name) \subseteq Nat
        BY <1>5 DEF Existing, Named, Tables
      <3>3. \E j \in Existing(name) : \A k \in Existing(name) : j <= k
        BY <1>9, <3>1, <3>2
      <3>4. i \in Existing(name)
        BY <3>3 DEF Min
      <3> QED
        BY <3>4 DEF Existing, Named
    <2>2. stages = <<archived, e>>
      BY <1>9 DEF RegisterStages, ReplaceStages, Replaced, new
    <2> HIDE DEF i, stages
    <2>3. /\ Tables(archived) /\ Carries(db, archived)
          /\ archived.baselines = db.baselines
          /\ archived.events = db.events /\ archived.details = db.details
          /\ archived.traces = db.traces
          /\ \E h \in DOMAIN archived.history :
                archived.history[h] = [supervise_file |-> i, sha256 |-> db.baselines[i].sha256]
          /\ Cardinality(Replacements(archived, i)) = Cardinality(Replacements(db, i)) + 1
      BY <1>5, <2>1, InsertVersion
    <2> HIDE DEF archived
    <2>4. /\ Tables(e) /\ Carries(archived, e)
          /\ e.history = archived.history /\ e.baselines[i] = new
          /\ e.events = archived.events /\ e.details = archived.details
          /\ e.traces = archived.traces
      BY <1>3, <2>1, <2>3, UpdateBaseline
    <2> HIDE DEF e
    <2>5. Carries(db, e)
      BY <2>3, <2>4 DEF Carries
    <2>6. StageOK(archived, r) /\ StageOK(e, r)
      BY <1>1, <2>3, <2>4, <2>5, BaselineStage
    <2>7. VersionsKept(e, [req EXCEPT ![r] = next])
      <3>1. Cardinality(Replacements(e, i)) = Cardinality(Replacements(db, i)) + 1
        BY <2>3, <2>4 DEF Replacements
      <3>2. i \in DOMAIN e.baselines /\ e.baselines[i] = new
        BY <2>1, <2>4, <2>5 DEF Carries
      <3> QED
        BY <1>1, <1>3, <1>4, <2>4, <2>5, <3>1, <3>2, RegisteredVersion
    <2>8. Call(r, stages, next)
      BY <1>2 DEF next, new, stages
    <2>9. /\ Len(stages) = 2 /\ DOMAIN stages = 1 .. Len(stages) /\ stages # <<>>
          /\ e = IF stages = <<>> THEN db ELSE stages[Len(stages)]
          /\ \A k \in DOMAIN stages : StageOK(stages[k], r)
      BY <2>2, <2>6
    <2>10. \A q \in Requests \ {r} : req[q].id = next.id /\ next.id # 0 => req[q].at = "failed"
      BY <1>4
    <2>11. EventShown(e, next) /\ Len(stages) \in Nat /\ Len(stages) # 0
      BY <1>7, <2>9
    <2> QED
      BY <1>1, <1>6, <2>7, <2>8, <2>9, <2>10, <2>11, CallStep
  <1> QED
    BY <1>8, <1>9

-----------------------------------------------------------------------------
(* The inductive invariant: events *)

\* Requests that recorded something show it in db, under ids of their own.
LEMMA OtherIds ==
    ASSUME IInv, NEW r \in Requests, req[r].at \notin {"done", "failed"},
           NEW q \in Requests \ {r}, req[q].id # 0, req[q].at # "failed"
    PROVE  req[q].id \in DOMAIN db.events /\ req[q].id # req[r].id
  <1>1. EventShown(db, req[q])
    BY ViewsAreStages DEF StageOK
  <1> QED
    BY <1>1 DEF EventShown, IInv, IdsDiffer

\* A stage of an event leaves baselines alone, keeps the events there are, and changes
\* nothing that belongs to another request's event.
LEMMA EventStage ==
    ASSUME IInv, NEW r \in Requests, req[r].at \notin {"done", "failed"},
           NEW e, DOMAIN e = DOMAIN db, e.baselines = db.baselines, e.history = db.history,
           Chain(e.events),
           \A id \in DOMAIN db.events :
              id \in DOMAIN e.events /\ e.events[id].data = db.events[id].data,
           \A id \in DOMAIN e.events : e.events[id].data \in EventPrints,
           \A x \in e.details \cup e.traces : x.event \in DOMAIN e.events,
           \A t \in e.traces :
              \/ t \in db.traces
              \/ /\ t.match.supervise_file \in DOMAIN db.baselines
                 /\ t.match.match_type = "exact" =>
                       Kept(db, t.match.supervise_file, e.events[t.event].data.sha256),
           \A q \in Requests \ {r} : req[q].id # 0 /\ req[q].at # "failed" =>
              /\ Urls(e, req[q].id) = Urls(db, req[q].id)
              /\ MatchesOf(e, req[q].id) = MatchesOf(db, req[q].id)
    PROVE  StageOK(e, r)
  <1>1. StageOK(db, r)
    BY ViewsAreStages
  <1>2. IsRows(e.events)
    BY DEF Chain
  <1>3. \A t \in e.traces : t.match.supervise_file \in DOMAIN e.baselines
    BY <1>1 DEF StageOK, Tables
  <1>4. Tables(e)
    BY <1>1, <1>2, <1>3 DEF StageOK, Tables
  <1>5. \A i : Replacements(e, i) = Replacements(db, i)
    BY DEF Replacements
  <1>6. \A i, s : Kept(e, i, s) <=> Kept(db, i, s)
    BY DEF Kept
  <1>7. VersionsKept(e, req)
    BY <1>1, <1>5, <1>6 DEF StageOK, VersionsKept
  <1>8. Backed(e)
    <2> SUFFICES ASSUME NEW t \in e.traces, t.match.match_type = "exact"
                 PROVE  Kept(e, t.match.supervise_file, e.events[t.event].data.sha256)
      BY DEF Backed
    <2>1. CASE t \in db.traces
      <3>1. /\ Kept(db, t.match.supervise_file, db.events[t.event].data.sha256)
            /\ t.event \in DOMAIN db.events
        BY <1>1, <2>1 DEF StageOK, Sound, Backed
      <3> QED
        BY <1>6, <3>1
    <2>2. CASE t \notin db.traces
      BY <1>6, <2>2
    <2> QED
      BY <2>1, <2>2
  <1>9. Sound(e)
    BY <1>8 DEF Sound
  <1>10. ASSUME NEW q \in Requests \ {r}
         PROVE  EventShown(e, req[q])
    <2>1. EventShown(db, req[q])
      BY <1>1 DEF StageOK
    <2> QED
      BY <2>1 DEF EventShown
  <1> QED
    BY <1>4, <1>7, <1>9, <1>10 DEF StageOK

\* Recording an event registers nobody.
LEMMA NoRegistration ==
    ASSUME IInv, NEW r \in Requests, req[r].at \notin {"done", "failed"},
           NEW e, VersionsKept(e, req), NEW next, next.id # 0
    PROVE  VersionsKept(e, [req EXCEPT ![r] = next])
  <1> DEFINE reqs == [req EXCEPT ![r] = next]
  <1>1. reqs[r] = next /\ \A q \in Requests \ {r} : reqs[q] = req[q]
    BY DEF IInv, RequestsOK
  <1> HIDE DEF reqs
  <1>2. \A q \in Requests :
           /\ Registered(reqs, q) <=> Registered(req, q)
           /\ Registered(req, q) => reqs[q].input = req[q].input
    BY <1>1 DEF Registered
  <1>3. VersionsKept(e, reqs)
    BY <1>2, SameRegistrations
  <1> QED
    BY <1>3 DEF reqs

\* add_event: the chain goes on, and nothing belongs to the new id yet.
LEMMA RecordEventStep ==
    ASSUME IInv, NEW r \in Requests, RecordEvent(r)
    PROVE  IInv'
  <1>1. /\ req[r].at = "new" /\ req[r].at \notin {"done", "failed"} /\ Turn(r) /\ edited' = edited
    BY DEF RecordEvent
  <1>2. PICK input \in EventInputs :
           Call(r, EventStages(input),
                [req[r] EXCEPT !.at = "added", !.input = input, !.id = Len(db.events) + 1])
    BY DEF RecordEvent
  <1> DEFINE n == Len(db.events)
             next == [req[r] EXCEPT !.at = "added", !.input = input, !.id = n + 1]
             stages == EventStages(input)
             row == NewRow(db.events, input.print, input.meta)
             e == [db EXCEPT !.events = Append(@, row)]
  <1>3. StageOK(db, r) /\ Tables(db) /\ Sound(db)
    BY <1>1, ViewsAreStages DEF StageOK
  <1>4. n \in Nat /\ DOMAIN db.events = 1 .. n /\ IsRows(db.events) /\ Chain(db.events)
    BY <1>3, RowsFacts DEF Tables, Sound
  <1>5. /\ DOMAIN next = {"at", "input", "id", "matches"}
        /\ next.at = "added" /\ next.id = n + 1 /\ next.input = input
    BY <1>1 DEF IInv, RequestsOK, RequestOK
  <1>6. row.data = input.print /\ input.print \in EventPrints
    BY DEF NewRow, EventPrints
  <1>7. Chain(Append(db.events, row))
    BY <1>4, AppendChain
  <1>8. stages = <<e>>
    BY DEF EventStages
  <1> HIDE DEF next, row
  <1>9. /\ DOMAIN e = DOMAIN db /\ e.events = Append(db.events, row)
        /\ e.baselines = db.baselines /\ e.history = db.history
        /\ e.details = db.details /\ e.traces = db.traces
    BY <1>3 DEF Tables
  <1> HIDE DEF e
  <1>10. /\ DOMAIN e.events = 1 .. (n + 1) /\ e.events[n + 1] = row
         /\ \A i \in 1 .. n : e.events[i] = db.events[i]
    BY <1>4, <1>9, AddRow
  <1>11. Urls(e, n + 1) = {} /\ MatchesOf(e, n + 1) = {}
    <2>1. \A x \in db.details \cup db.traces : x.event # n + 1
      BY <1>3, <1>4 DEF Sound
    <2> QED
      BY <1>9, <2>1 DEF Urls, MatchesOf
  <1>12. StageOK(e, r)
    <2>1. \A id \in DOMAIN e.events : e.events[id].data \in EventPrints
      BY <1>3, <1>4, <1>6, <1>10 DEF Tables
    <2>2. \A x \in e.details \cup e.traces : x.event \in DOMAIN e.events
      BY <1>3, <1>4, <1>9, <1>10 DEF Sound
    <2>3. \A id \in DOMAIN db.events :
             id \in DOMAIN e.events /\ e.events[id].data = db.events[id].data
      BY <1>4, <1>10
    <2>4. \A id : Urls(e, id) = Urls(db, id) /\ MatchesOf(e, id) = MatchesOf(db, id)
      BY <1>9 DEF Urls, MatchesOf
    <2>5. Chain(e.events)
      BY <1>7, <1>9
    <2> QED
      BY <1>1, <1>9, <2>1, <2>2, <2>3, <2>4, <2>5, EventStage
  <1>13. EventShown(e, next)
    BY <1>4, <1>5, <1>6, <1>10, <1>11 DEF EventShown
  <1>14. VersionsKept(e, [req EXCEPT ![r] = next])
    BY <1>1, <1>4, <1>5, <1>12, NoRegistration DEF StageOK
  <1>15. RequestOK(next) /\ next.at \in {"added", "detailed", "done"}
    BY <1>4, <1>5 DEF RequestOK
  <1>16. Call(r, stages, next)
    BY <1>2 DEF next
  <1>17. \A q \in Requests \ {r} : req[q].id = next.id /\ next.id # 0 => req[q].at = "failed"
    BY <1>1, <1>4, <1>5, OtherIds
  <1> HIDE DEF stages
  <1>18. /\ Len(stages) = 1 /\ DOMAIN stages = 1 .. Len(stages) /\ stages # <<>>
         /\ Len(stages) \in Nat /\ Len(stages) # 0
         /\ e = IF stages = <<>> THEN db ELSE stages[Len(stages)]
         /\ \A k \in DOMAIN stages : StageOK(stages[k], r)
    BY <1>8, <1>12
  <1> QED
    BY <1>1, <1>13, <1>14, <1>15, <1>16, <1>17, <1>18, CallStep

\* add_web_event_detail, a body whose metadata has no get(), or neither.
LEMMA RecordDetailStep ==
    ASSUME IInv, NEW r \in Requests, RecordDetail(r)
    PROVE  IInv'
  <1> DEFINE input == req[r].input
             id == req[r].id
             next == [req[r] EXCEPT !.at = "detailed"]
  <1>1. /\ req[r].at = "added" /\ req[r].at \notin {"done", "failed"}
        /\ Turn(r) /\ db = durable /\ edited' = edited
    BY DEF RecordDetail, IInv, Underway
  <1>2. StageOK(db, r) /\ Tables(db) /\ Sound(db) /\ EventShown(db, req[r])
    BY <1>1, ViewsAreStages, NotEdited DEF StageOK, IInv, ViewOK
  <1>3. DOMAIN req = Requests /\ RequestOK(req[r])
    BY DEF IInv, RequestsOK
  <1>4. /\ DOMAIN next = {"at", "input", "id", "matches"}
        /\ next.at = "detailed" /\ next.id = id /\ next.input = input
    BY <1>3 DEF RequestOK
  <1>5. id \in Nat /\ id # 0 /\ input \in EventInputs
    BY <1>1, <1>3 DEF RequestOK
  <1>6. req' = [req EXCEPT ![r].at = "detailed"] => req' = [req EXCEPT ![r] = next]
    BY <1>3
  <1> HIDE DEF next
  <1>7. RequestOK(next) /\ next.at \in {"added", "detailed", "done"}
    BY <1>4, <1>5 DEF RequestOK
  <1>8. /\ id \in DOMAIN db.events /\ db.events[id].data = input.print
        /\ Urls(db, id) = {} /\ MatchesOf(db, id) = {}
    BY <1>1, <1>2, <1>5 DEF EventShown
  <1>9. CASE /\ input.web /\ input.meta \notin {NoMeta, EmptyMeta, Junk}
             /\ Call(r, DetailStages(id, input.meta), [req[r] EXCEPT !.at = "detailed"])
    <2> DEFINE row == [event |-> id, url |-> input.meta]
               rows == {d \in db.details : d.event # id} \cup {row}
               e == [db EXCEPT !.details = rows]
               stages == DetailStages(id, input.meta)
    <2>1. stages = <<e>> /\ Call(r, stages, next)
      BY <1>9 DEF DetailStages, next
    <2>3. /\ DOMAIN e = DOMAIN db /\ e.details = rows
          /\ e.baselines = db.baselines /\ e.history = db.history
          /\ e.events = db.events /\ e.traces = db.traces
      BY <1>2 DEF Tables
    <2> HIDE DEF e
    <2>4. Urls(e, id) = {input.meta}
      <3>1. \A y \in e.details : y.event = id => y.url = input.meta
        BY <2>3
      <3>2. row \in e.details /\ row.event = id /\ row.url = input.meta
        BY <2>3
      <3> HIDE DEF row, rows
      <3>3. \A u : u \in Urls(e, id) <=> u = input.meta
        BY <3>1, <3>2 DEF Urls
      <3> QED
        BY <3>3
    <2>5. \A q : q # id => Urls(e, q) = Urls(db, q)
      <3> SUFFICES ASSUME NEW q, q # id PROVE Urls(e, q) = Urls(db, q)
        OBVIOUS
      <3>1. {y \in e.details : y.event = q} = {y \in db.details : y.event = q}
        BY <2>3
      <3> QED
        BY <3>1 DEF Urls
    <2>6. \A q : MatchesOf(e, q) = MatchesOf(db, q)
      BY <2>3 DEF MatchesOf
    <2>7. StageOK(e, r)
      <3>1. \A x \in e.details \cup e.traces : x.event \in DOMAIN e.events
        BY <1>2, <1>8, <2>3 DEF Sound
      <3>2. \A q \in Requests \ {r} : req[q].id # 0 /\ req[q].at # "failed" =>
               /\ Urls(e, req[q].id) = Urls(db, req[q].id)
               /\ MatchesOf(e, req[q].id) = MatchesOf(db, req[q].id)
        BY <1>1, <2>5, <2>6, OtherIds
      <3>3. Chain(e.events) /\ \A k \in DOMAIN e.events : e.events[k].data \in EventPrints
        BY <1>2, <2>3 DEF Sound, Tables
      <3>4. \A k \in DOMAIN db.events :
               k \in DOMAIN e.events /\ e.events[k].data = db.events[k].data
        BY <2>3
      <3>5. \A t \in e.traces : t \in db.traces
        BY <2>3
      <3> QED
        BY <1>1, <2>3, <3>1, <3>2, <3>3, <3>4, <3>5, EventStage
    <2>8. EventShown(e, next)
      BY <1>4, <1>8, <1>9, <2>3, <2>4, <2>6 DEF EventShown
    <2>9. VersionsKept(e, [req EXCEPT ![r] = next])
      BY <1>1, <1>4, <1>5, <2>7, NoRegistration DEF StageOK
    <2>10. \A q \in Requests \ {r} : req[q].id = next.id /\ next.id # 0 => req[q].at = "failed"
      BY <1>1, <1>4, <1>5, OtherIds
    <2> HIDE DEF stages
    <2>11. /\ Len(stages) = 1 /\ DOMAIN stages = 1 .. Len(stages) /\ stages # <<>>
           /\ Len(stages) \in Nat /\ Len(stages) # 0
           /\ e = IF stages = <<>> THEN db ELSE stages[Len(stages)]
           /\ \A k \in DOMAIN stages : StageOK(stages[k], r)
      BY <2>1, <2>7
    <2> QED
      BY <1>1, <1>7, <2>1, <2>8, <2>9, <2>10, <2>11, CallStep
  <1>10. CASE /\ req' = [req EXCEPT ![r].at = "failed"]
              /\ UNCHANGED <<db, durable>>
    BY <1>1, <1>2, <1>10, FailStep
  <1>11. CASE /\ ~input.web \/ input.meta \in {NoMeta, EmptyMeta}
              /\ req' = [req EXCEPT ![r].at = "detailed"]
              /\ UNCHANGED <<db, durable>>
    <2>1. \A d : EventShown(d, req[r]) => EventShown(d, next)
      BY <1>1, <1>4, <1>11 DEF EventShown
    <2> QED
      BY <1>1, <1>4, <1>6, <1>7, <1>11, <2>1, MoveStep
  <1> QED
    BY <1>9, <1>10, <1>11 DEF RecordDetail

\* The rows of add_trace_matches after its n-th statement, and the table state then.
FirstMatches(matches, n) ==
    {x \in matches : Cardinality({y \in matches : Before(y, x)}) < n}

WithTraces(id, some) == [db EXCEPT !.traces = @ \cup {MatchRow(id, m) : m \in some}]

\* The last statement has written them all: a match is not before itself.
LEMMA AllMatches ==
    ASSUME NEW matches, Ranked(matches)
    PROVE  FirstMatches(matches, Cardinality(matches)) = matches
  <1> SUFFICES ASSUME NEW x \in matches
               PROVE  Cardinality({y \in matches : Before(y, x)}) < Cardinality(matches)
    BY DEF FirstMatches
  <1> DEFINE earlier == {y \in matches : Before(y, x)}
  <1>1. IsFiniteSet(matches) /\ x.similarity \in Nat /\ x.supervise_file \in Nat
    BY DEF Ranked
  <1>2. earlier \subseteq matches \ {x}
    BY <1>1 DEF Before
  <1>3. /\ IsFiniteSet(matches \ {x})
        /\ Cardinality(matches \ {x}) = Cardinality(matches) - 1
        /\ Cardinality(matches) \in Nat
    BY <1>1, FS_RemoveElement, FS_CardinalityType
  <1>4. Cardinality(earlier) <= Cardinality(matches \ {x}) /\ Cardinality(earlier) \in Nat
    BY <1>2, <1>3, FS_Subset, FS_CardinalityType
  <1> HIDE DEF earlier
  <1>5. Cardinality(earlier) < Cardinality(matches)
    BY <1>3, <1>4
  <1> QED
    BY <1>5 DEF earlier

\* Any of the matches that find_matches returned may be in the table.
LEMMA TraceStage ==
    ASSUME IInv, NEW r \in Requests, req[r].at = "matched",
           NEW some \in SUBSET req[r].matches,
           NEW e, e = WithTraces(req[r].id, some)
    PROVE  /\ StageOK(e, r) /\ e.events = db.events
           /\ Urls(e, req[r].id) = Urls(db, req[r].id)
           /\ MatchesOf(e, req[r].id) = some
  <1> DEFINE id == req[r].id
             print == req[r].input.print
             rows == {MatchRow(id, m) : m \in some}
  <1>1. StageOK(db, r) /\ Tables(db) /\ Sound(db) /\ EventShown(db, req[r])
    BY ViewsAreStages, NotEdited DEF StageOK, IInv, ViewOK
  <1>2. id \in Nat /\ id # 0 /\ print \in EventPrints
    BY DEF IInv, RequestsOK, RequestOK, EventPrints
  <1>3. id \in DOMAIN db.events /\ db.events[id].data = print /\ MatchesOf(db, id) = {}
    BY <1>1, <1>2 DEF EventShown
  <1>4. /\ DOMAIN e = DOMAIN db /\ e.traces = db.traces \cup rows
        /\ e.baselines = db.baselines /\ e.history = db.history
        /\ e.events = db.events /\ e.details = db.details
    BY <1>1 DEF Tables, WithTraces
  <1>5. \A t : t \in rows <=> \E m \in some : t = [event |-> id, match |-> m]
    BY DEF MatchRow, TraceRow
  <1> HIDE DEF rows
  <1>6. \A t \in rows : t.event = id /\ t.match \in some
    BY <1>5
  <1>7. \A m \in some : \E t \in rows : t.event = id /\ t.match = m
    <2> SUFFICES ASSUME NEW m \in some
                 PROVE  \E t \in rows : t.event = id /\ t.match = m
      OBVIOUS
    <2>1. [event |-> id, match |-> m] \in rows
      BY <1>5
    <2> QED
      BY <2>1
  <1>8. MatchesOf(e, id) = some
    <2>1. \A t \in db.traces : t.event # id
      BY <1>3 DEF MatchesOf
    <2>2. \A m : m \in MatchesOf(e, id) <=> \E t \in db.traces \cup rows : t.event = id /\ t.match = m
      BY <1>4 DEF MatchesOf
    <2>3. MatchesOf(e, id) \subseteq some /\ some \subseteq MatchesOf(e, id)
      BY <1>6, <1>7, <2>1, <2>2
    <2> QED
      BY <2>3
  <1>9. \A q : q # id => MatchesOf(e, q) = MatchesOf(db, q)
    <2> SUFFICES ASSUME NEW q, q # id PROVE MatchesOf(e, q) = MatchesOf(db, q)
      OBVIOUS
    <2>1. \A m : m \in MatchesOf(e, q) <=> \E t \in db.traces \cup rows : t.event = q /\ t.match = m
      BY <1>4 DEF MatchesOf
    <2>2. \A m : m \in MatchesOf(db, q) <=> \E t \in db.traces : t.event = q /\ t.match = m
      BY DEF MatchesOf
    <2>3. MatchesOf(e, q) \subseteq MatchesOf(db, q) /\ MatchesOf(db, q) \subseteq MatchesOf(e, q)
      BY <1>6, <2>1, <2>2
    <2> QED
      BY <2>3
  <1>10. \A q : Urls(e, q) = Urls(db, q)
    BY <1>4 DEF Urls
  <1>11. \A m \in some :
            /\ m.supervise_file \in DOMAIN db.baselines
            /\ m.match_type = "exact" => db.baselines[m.supervise_file].sha256 = print.sha256
    <2>1. some \subseteq FindMatches(print, db.baselines)
      BY DEF IInv, Underway
    <2> QED
      BY <2>1, MatchesHit
  <1>12. StageOK(e, r)
    <2>1. \A t \in e.traces :
             \/ t \in db.traces
             \/ /\ t.match.supervise_file \in DOMAIN db.baselines
                /\ t.match.match_type = "exact" =>
                      Kept(db, t.match.supervise_file, e.events[t.event].data.sha256)
      BY <1>3, <1>4, <1>6, <1>11 DEF Kept
    <2>2. \A x \in e.details \cup e.traces : x.event \in DOMAIN e.events
      BY <1>1, <1>3, <1>4, <1>6 DEF Sound
    <2>3. \A q \in Requests \ {r} : req[q].id # 0 /\ req[q].at # "failed" =>
             /\ Urls(e, req[q].id) = Urls(db, req[q].id)
             /\ MatchesOf(e, req[q].id) = MatchesOf(db, req[q].id)
      BY <1>9, <1>10, OtherIds
    <2>4. Chain(e.events) /\ \A k \in DOMAIN e.events : e.events[k].data \in EventPrints
      BY <1>1, <1>4 DEF Sound, Tables
    <2>5. \A k \in DOMAIN db.events :
             k \in DOMAIN e.events /\ e.events[k].data = db.events[k].data
      BY <1>4
    <2> QED
      BY <1>4, <2>1, <2>2, <2>3, <2>4, <2>5, EventStage
  <1> QED
    BY <1>4, <1>8, <1>10, <1>12

\* add_trace_matches: whatever part of the matches a failed call left behind.
LEMMA RecordMatchesStep ==
    ASSUME IInv, NEW r \in Requests, RecordMatches(r)
    PROVE  IInv'
  <1> DEFINE id == req[r].id
             matches == req[r].matches
             n == Cardinality(matches)
             next == [req[r] EXCEPT !.at = "done"]
             stages == TraceStages(id, matches)
             last == IF stages = <<>> THEN db ELSE stages[Len(stages)]
  <1>1. /\ req[r].at = "matched" /\ req[r].at \notin {"done", "failed"}
        /\ Turn(r) /\ edited' = edited
        /\ Call(r, stages, next)
    BY DEF RecordMatches, IInv, Underway
  <1>2. RequestOK(req[r])
    BY DEF IInv, RequestsOK
  <1>3. /\ DOMAIN next = {"at", "input", "id", "matches"}
        /\ next.at = "done" /\ next.id = id /\ next.input = req[r].input
        /\ next.matches = matches
    BY <1>2 DEF RequestOK
  <1> HIDE DEF next
  <1>4. id \in Nat /\ id # 0 /\ Ranked(matches)
    BY <1>1, <1>2 DEF RequestOK
  <1>5. RequestOK(next) /\ next.at \in {"added", "detailed", "done"}
    BY <1>3, <1>4 DEF RequestOK
  <1>6. n \in Nat
    BY <1>4, FS_CardinalityType DEF Ranked
  <1>7. /\ stages = [k \in 1 .. n |-> WithTraces(id, FirstMatches(matches, k))]
        /\ DOMAIN stages = 1 .. n
    BY DEF TraceStages, WithTraces, FirstMatches
  <1>8. \A k \in 1 .. n : stages[k] = WithTraces(id, FirstMatches(matches, k))
    BY <1>7
  <1>9. Len(stages) = n /\ (stages = <<>> <=> n = 0)
    BY <1>6, <1>7
  <1>10. \A k : FirstMatches(matches, k) \in SUBSET matches
    BY DEF FirstMatches
  <1> HIDE DEF stages
  <1>11. \A k \in DOMAIN stages : StageOK(stages[k], r)
    BY <1>1, <1>7, <1>8, <1>10, TraceStage
  <1>12. EventShown(db, req[r]) /\ Tables(db)
    BY <1>1, NotEdited DEF IInv, ViewOK
  <1>13. /\ id \in DOMAIN db.events /\ db.events[id].data = req[r].input.print
         /\ MatchesOf(db, id) = {}
         /\ Urls(db, id) = IF req[r].input.web THEN {req[r].input.meta} \ {NoMeta, EmptyMeta}
                           ELSE {}
    BY <1>1, <1>4, <1>12 DEF EventShown
  <1>14. /\ last.events = db.events /\ Urls(last, id) = Urls(db, id)
         /\ MatchesOf(last, id) = matches /\ StageOK(last, r)
    <2>1. CASE n = 0
      <3>1. matches = {}
        BY <1>4, <2>1, FS_EmptySet DEF Ranked
      <3> QED
        BY <1>1, <1>9, <1>13, <2>1, <3>1, ViewsAreStages
    <2>2. CASE n # 0
      <3>1. last = WithTraces(id, matches)
        BY <1>4, <1>6, <1>8, <1>9, <2>2, AllMatches
      <3> HIDE DEF last
      <3> QED
        BY <1>1, <3>1, TraceStage
    <2> QED
      BY <2>1, <2>2
  <1> HIDE DEF last
  <1>15. EventShown(last, next)
    BY <1>3, <1>13, <1>14 DEF EventShown
  <1>16. VersionsKept(last, [req EXCEPT ![r] = next])
    BY <1>1, <1>3, <1>4, <1>14, NoRegistration DEF StageOK
  <1>17. \A q \in Requests \ {r} : req[q].id = next.id /\ next.id # 0 => req[q].at = "failed"
    BY <1>1, <1>3, <1>4, OtherIds
  <1>18. /\ DOMAIN stages = 1 .. Len(stages) /\ Len(stages) \in Nat
         /\ stages # <<>> => Len(stages) # 0
         /\ last = IF stages = <<>> THEN db ELSE stages[Len(stages)]
    BY <1>6, <1>7, <1>9 DEF last
  <1> QED
    BY <1>1, <1>5, <1>11, <1>15, <1>16, <1>17, <1>18, CallStep

\* Every step keeps the invariant.
LEMMA NextIInv == IInv /\ [Next]_vars => IInv'
  <1> SUFFICES ASSUME IInv, [Next]_vars PROVE IInv'
    OBVIOUS
  <1>1. CASE UNCHANGED vars
    BY <1>1 DEF vars, IInv, RequestsOK, IdsDiffer, Underway, Turn, ViewOK, Finished, RowEditDetected
  <1>2. ASSUME NEW r \in Requests, Refuse(r)
        PROVE  IInv'
    BY <1>2, RefuseStep
  <1>3. ASSUME NEW r \in Requests, Register(r)
        PROVE  IInv'
    BY <1>3, RegisterStep
  <1>4. ASSUME NEW r \in Requests, RecordEvent(r)
        PROVE  IInv'
    BY <1>4, RecordEventStep
  <1>5. ASSUME NEW r \in Requests, RecordDetail(r)
        PROVE  IInv'
    BY <1>5, RecordDetailStep
  <1>6. ASSUME NEW r \in Requests, MatchBaselines(r)
        PROVE  IInv'
    BY <1>6, MatchBaselinesStep
  <1>7. ASSUME NEW r \in Requests, RecordMatches(r)
        PROVE  IInv'
    BY <1>7, RecordMatchesStep
  <1>8. CASE Crash
    BY <1>8, CrashStep
  <1>9. ASSUME NEW i \in DOMAIN db.events, EditRow(i) \/ DeleteRow(i)
        PROVE  IInv'
    BY <1>9, EditEventsStep
  <1> QED
    BY <1>1, <1>2, <1>3, <1>4, <1>5, <1>6, <1>7, <1>8, <1>9 DEF Next

\* The inductive invariant holds in every state.
LEMMA Invariant == Spec => []IInv
  BY InitIInv, NextIInv, PTL DEF Spec

-----------------------------------------------------------------------------
(* The theorems *)

\* The two views hold rows of the tables, and every reference between rows of
\* models.py's tables hits one.
THEOREM TypeCorrect == Spec => []TypeOK
  <1>1. IInv => TypeOK
    <2> SUFFICES ASSUME IInv PROVE TypeOK
      OBVIOUS
    <2>1. \A r \in Requests :
             req[r].at \in {"new", "added", "detailed", "matched", "done", "failed"}
      BY DEF IInv, RequestsOK, RequestOK
    <2>2. ASSUME NEW d \in {db, durable}
          PROVE  /\ \A i \in DOMAIN d.baselines :
                       d.baselines[i].name \in Names /\ d.baselines[i].sha256 \in Hashes
                 /\ \A i \in DOMAIN d.history : d.history[i].supervise_file \in DOMAIN d.baselines
                 /\ \A i \in DOMAIN d.events : d.events[i].data \in EventPrints
                 /\ ~edited =>
                       \A x \in d.details \cup d.traces : x.event \in DOMAIN d.events
                 /\ \A t \in d.traces : t.match.supervise_file \in DOMAIN d.baselines
      <3>1. Tables(d) /\ (~edited => Sound(d))
        BY <2>2 DEF IInv, ViewOK
      <3>2. \A i \in DOMAIN d.baselines : d.baselines[i] \in BaselineRows
        BY <3>1 DEF Tables
      <3>3. \A i \in DOMAIN d.history :
               d.history[i] \in [supervise_file : DOMAIN d.baselines, sha256 : Hashes]
        <4> DEFINE S == [supervise_file : DOMAIN d.baselines, sha256 : Hashes]
        <4>1. d.history \in Seq(S)
          BY <3>1 DEF Tables
        <4> HIDE DEF S
        <4>2. \A i \in DOMAIN d.history : d.history[i] \in S
          BY <4>1
        <4> QED
          BY <4>2 DEF S
      <3> QED
        BY <3>1, <3>2, <3>3 DEF Tables, Sound, BaselineRows
    <2>3. edited \in BOOLEAN
      BY DEF IInv
    <2> QED
      BY <2>1, <2>2, <2>3 DEF TypeOK, Hashes
  <1> QED
    BY <1>1, Invariant, PTL

\* Whatever fails, crashes or interleaves, add_event has made one chain of the events,
\* in the connection's view and in the file.
THEOREM EventsAreChained == Spec => []ChainSound
  <1>1. IInv => ChainSound
    <2> SUFFICES ASSUME IInv, ~edited, NEW rows \in {db.events, durable.events},
                        NEW i \in DOMAIN rows
                 PROVE  /\ Linked(rows, i)
                        /\ Rehashes(rows, i) \/ rows[i].record_hash[2] = EmptyMeta
      BY DEF ChainSound
    <2>1. Chain(rows)
      BY DEF IInv, ViewOK, Sound
    <2>2. /\ rows[i].record_hash
                = RecordHash(rows[i].data, rows[i].record_hash[2], rows[i].prev_hash)
          /\ rows[i].metadata = Stored(rows[i].record_hash[2])
          /\ Linked(rows, i)
      BY <2>1 DEF Chain, AsWritten
    <2> QED
      BY <2>2 DEF Rehashes, Stored
  <1> QED
    BY <1>1, Invariant, PTL

\* verify_chain finds every change of one protected field and every missing row that
\* had a successor, after any history of the server.
THEOREM EditsAreDetected == Spec => []RowEditDetected
  <1>1. IInv => RowEditDetected
    BY DEF IInv
  <1> QED
    BY <1>1, Invariant, PTL

\* No row of the file was hashed over empty metadata.
NoEmptyMetadata ==
    \A i \in DOMAIN durable.events : durable.events[i].record_hash[2] # EmptyMeta

\* Where `data` is stored as it is hashed, empty metadata is the only reason for which
\* verify_chain refuses a chain nobody edited: without it the chain is accepted after
\* any failures and crashes.
THEOREM IntactIsAccepted == Spec => [](NoEmptyMetadata => IntactChainVerifies)
  <1>1. ChainSound /\ NoEmptyMetadata => IntactChainVerifies
    <2> SUFFICES ASSUME ChainSound, NoEmptyMetadata, ~edited
                 PROVE  VerifyChain(durable.events) = 0
      BY DEF IntactChainVerifies
    <2>1. \A i \in DOMAIN durable.events :
             Linked(durable.events, i) /\ Rehashes(durable.events, i)
      BY DEF ChainSound, NoEmptyMetadata
    <2>2. BrokenRows(durable.events) = {}
      BY <2>1 DEF BrokenRows
    <2> QED
      BY <2>2 DEF VerifyChain
  <1> QED
    BY <1>1, EventsAreChained, PTL

\* An exact match of matching.py names a content that its baseline has or had, also
\* after a replacement of the baseline that failed halfway.
THEOREM ExactMatchesAreBacked == Spec => []ExactMatchBacked
  <1>1. IInv => ExactMatchBacked
    BY DEF IInv, ViewOK, Sound, Backed, Kept, ExactMatchBacked
  <1> QED
    BY <1>1, Invariant, PTL

\* A registration that was answered with 200 survives every crash: one baseline of the
\* name, with the version, and a count of the replaced ones.
THEOREM RegistrationsSurvive == Spec => []AckedVersionKept
  <1>1. IInv => AckedVersionKept
    <2> SUFFICES ASSUME IInv, NEW r \in Requests, Registered(req, r)
                 PROVE  LET input == req[r].input
                            named == {i \in DOMAIN durable.baselines :
                                         durable.baselines[i].name = input.name}
                        IN
                        /\ Cardinality(named) = 1
                        /\ \A i \in named :
                              /\ GetSuperviseFiles(durable)[i].update_history_count
                                    >= Cardinality(Acked(req, input.name)) - 1
                              /\ Kept(durable, i, input.sha256)
      BY DEF AckedVersionKept, Registered, Acked, Kept
    <2> DEFINE input == req[r].input
               named == {i \in DOMAIN durable.baselines :
                            durable.baselines[i].name = input.name}
    <2>1. Tables(durable) /\ VersionsKept(durable, req)
      BY DEF IInv, ViewOK
    <2>2. PICK i \in DOMAIN durable.baselines :
             /\ durable.baselines[i].name = input.name
             /\ Kept(durable, i, input.sha256)
             /\ Cardinality(Replacements(durable, i)) >= Cardinality(Acked(req, input.name)) - 1
      BY <2>1 DEF VersionsKept
    <2>3. named = {i}
      BY <2>1, <2>2 DEF Tables
    <2>4. GetSuperviseFiles(durable)[i].update_history_count
             = Cardinality(Replacements(durable, i))
      BY DEF GetSuperviseFiles, Replacements
    <2> QED
      BY <2>2, <2>3, <2>4, FS_Singleton
  <1> QED
    BY <1>1, Invariant, PTL

\* The order of matching.py and of best_trace_match has a first match, and only one.
LEMMA BestIsFirst ==
    ASSUME NEW matches, Ranked(matches), matches # {}
    PROVE  {Best(matches)} = {m \in matches : \A n \in matches \ {m} : Before(m, n)}
  <1> DEFINE away == {100 - m.similarity : m \in matches}
  <1>1. \A m \in matches : m.similarity \in 0 .. 100 /\ m.supervise_file \in Nat
    BY DEF Ranked
  <1>2. PICK x \in away : \A y \in away : x <= y
    <2>1. away \subseteq Nat /\ away # {}
      BY <1>1
    <2> HIDE DEF away
    <2> QED
      BY <2>1, LeastNatural
  <1>3. PICK a \in matches : \A m \in matches : a.similarity >= m.similarity
    <2>1. PICK a \in matches : x = 100 - a.similarity
      OBVIOUS
    <2>2. \A m \in matches : x <= 100 - m.similarity
      BY <1>2
    <2>3. \A m \in matches : a.similarity >= m.similarity
      <3> HIDE DEF away
      <3> SUFFICES ASSUME NEW m \in matches PROVE a.similarity >= m.similarity
        OBVIOUS
      <3>1. 100 - a.similarity <= 100 - m.similarity
        BY <2>1, <2>2
      <3>2. a.similarity \in Int /\ m.similarity \in Int
        BY <1>1
      <3> QED
        BY <3>1, <3>2
    <2> QED
      BY <2>3
  <1> HIDE DEF away
  <1> DEFINE files == {m.supervise_file : m \in {n \in matches : n.similarity = a.similarity}}
  <1>4. PICK f \in files : \A g \in files : f <= g
    BY <1>1, LeastNatural
  <1>5. PICK b \in matches :
           /\ b.similarity = a.similarity
           /\ \A m \in matches : m.similarity = a.similarity =>
                 b.supervise_file <= m.supervise_file
    BY <1>4
  <1> HIDE DEF files
  <1>6. ASSUME NEW m \in matches \ {b}
        PROVE  Before(b, m)
    <2>1. m.supervise_file # b.supervise_file
      BY <1>6 DEF Ranked
    <2>2. /\ m.similarity \in Nat /\ b.similarity \in Nat
          /\ m.supervise_file \in Nat /\ b.supervise_file \in Nat
      BY <1>1
    <2>3. /\ b.similarity >= m.similarity
          /\ m.similarity = b.similarity => b.supervise_file <= m.supervise_file
      BY <1>3, <1>5
    <2> QED
      BY <2>1, <2>2, <2>3 DEF Before
  <1>7. ASSUME NEW m \in matches, NEW n \in matches, Before(m, n), Before(n, m)
        PROVE  FALSE
    BY <1>1, <1>7 DEF Before
  <1>8. \A m \in matches : (\A n \in matches \ {m} : Before(m, n)) => m = b
    BY <1>6, <1>7
  <1>9. Best(matches) = b
    BY <1>6, <1>8 DEF Best
  <1> QED
    BY <1>6, <1>8, <1>9

\* A 200 for an event survives every crash: the GET routes show the event with its
\* url, its best match, and the event under the baselines that were returned.
THEOREM AnswersSurvive == Spec => []AckedEventShown
  <1>1. IInv => AckedEventShown
    <2> SUFFICES ASSUME IInv, ~edited, NEW r \in Requests,
                        req[r].at = "done", req[r].id # 0
                 PROVE  LET id == req[r].id
                            input == req[r].input
                            shown == GetEvents(durable)
                        IN
                        /\ id \in DOMAIN durable.events
                        /\ id \in Listed(durable) =>
                              /\ shown[id].sha256 = input.print.sha256
                              /\ shown[id].url = IF input.web
                                                 THEN {input.meta} \ {NoMeta, EmptyMeta} ELSE {}
                              /\ {b.match : b \in shown[id].best_match} =
                                     {m \in req[r].matches :
                                         \A n \in req[r].matches \ {m} : Before(m, n)}
                        /\ \A i \in DOMAIN durable.baselines :
                              {e.match : e \in {x \in GetSuperviseFileEvents(durable, i) : x.id = id}} =
                                  {m \in req[r].matches : m.supervise_file = i}
      BY DEF AckedEventShown
    <2> DEFINE id == req[r].id
               input == req[r].input
               matches == req[r].matches
               first == {m \in matches : \A n \in matches \ {m} : Before(m, n)}
    <2>1. EventShown(durable, req[r]) /\ Ranked(matches)
      BY DEF IInv, ViewOK, RequestsOK, RequestOK
    <2>2. /\ id \in DOMAIN durable.events /\ durable.events[id].data = input.print
          /\ Urls(durable, id) = IF input.web THEN {input.meta} \ {NoMeta, EmptyMeta} ELSE {}
          /\ MatchesOf(durable, id) = matches
      BY <2>1 DEF EventShown
    <2>3. BestTraceMatch(durable, id) = first
      <3>1. CASE matches = {}
        BY <2>2, <3>1 DEF BestTraceMatch
      <3>2. CASE matches # {}
        BY <2>1, <2>2, <3>2, BestIsFirst DEF BestTraceMatch
      <3> QED
        BY <3>1, <3>2
    <2>4. ASSUME id \in Listed(durable)
          PROVE  /\ GetEvents(durable)[id].sha256 = input.print.sha256
                 /\ GetEvents(durable)[id].url = Urls(durable, id)
                 /\ {b.match : b \in GetEvents(durable)[id].best_match} = first
      <3> DEFINE best == {[match |-> m, name |-> durable.baselines[m.supervise_file].name] :
                             m \in BestTraceMatch(durable, id)}
      <3>1. GetEvents(durable)[id] = [sha256 |-> durable.events[id].data.sha256,
                                      url |-> Urls(durable, id), best_match |-> best]
        BY <2>4 DEF GetEvents
      <3>2. /\ \A b \in best : b.match \in BestTraceMatch(durable, id)
            /\ \A m \in BestTraceMatch(durable, id) : \E b \in best : b.match = m
        <4> DEFINE shown(m) == [match |-> m, name |-> durable.baselines[m.supervise_file].name]
                   found == BestTraceMatch(durable, id)
        <4>1. best = {shown(m) : m \in found} /\ \A m : shown(m).match = m
          OBVIOUS
        <4> HIDE DEF best, shown, found
        <4>2. /\ \A b \in best : \E m \in found : b = shown(m)
              /\ \A m \in found : shown(m) \in best
          BY <4>1
        <4>3. /\ \A b \in best : b.match \in found
              /\ \A m \in found : \E b \in best : b.match = m
          BY <4>1, <4>2
        <4> QED
          BY <4>3 DEF found
      <3> HIDE DEF best, first
      <3>3. {b.match : b \in best} = first
        BY <2>3, <3>2
      <3> QED
        BY <2>2, <3>1, <3>3
    <2>5. ASSUME NEW i
          PROVE  {e.match : e \in {x \in GetSuperviseFileEvents(durable, i) : x.id = id}}
                    = {m \in matches : m.supervise_file = i}
      <3> DEFINE under == GetSuperviseFileEvents(durable, i)
      <3>1. \A e : e \in under <=> \E t \in durable.traces :
               /\ t.match.supervise_file = i /\ e = [id |-> t.event, match |-> t.match]
        BY DEF GetSuperviseFileEvents
      <3>2. \A m : m \in matches <=> \E t \in durable.traces : t.event = id /\ t.match = m
        BY <2>2 DEF MatchesOf
      <3> HIDE DEF under
      <3>3. ASSUME NEW e \in under, e.id = id
            PROVE  e.match \in matches /\ e.match.supervise_file = i
        BY <3>1, <3>2, <3>3
      <3>4. ASSUME NEW m \in matches, m.supervise_file = i
            PROVE  \E e \in under : e.id = id /\ e.match = m
        <4>1. [id |-> id, match |-> m] \in under
          BY <3>1, <3>2, <3>4
        <4> QED
          BY <4>1
      <3> HIDE DEF matches
      <3>5. {e.match : e \in {x \in under : x.id = id}} = {m \in matches : m.supervise_file = i}
        BY <3>3, <3>4
      <3> QED
        BY <3>5 DEF under, matches
    <2> QED
      BY <2>2, <2>3, <2>4, <2>5
  <1> QED
    BY <1>1, Invariant, PTL

-----------------------------------------------------------------------------
(* When the exact match comes first *)

IsExact(m) == m.match_type = "exact"

\* A match list of find_matches: exact matches are rated 100, only others are less.
RatedRightly(matches) ==
    /\ Ranked(matches)
    /\ \A m \in matches : m.match_type \in {"exact", "fuzzy"} /\ (IsExact(m) => m.similarity = 100)

\* A fuzzy match of 100 on a baseline that is older than that of every exact match.
Overtaken(matches) ==
    \E f \in matches :
        /\ ~IsExact(f) /\ f.similarity = 100
        /\ \A m \in matches : IsExact(m) => f.supervise_file < m.supervise_file

\* What every match list is, also that of a request that failed later.
MatchLists == \A r \in Requests : RatedRightly(req[r].matches)

\* The order of matching.py is by similarity, then by age: among matches with an exact
\* one it is an exact one that is first, except if a fuzzy 100 is older than all of them.
THEOREM BestIsExact ==
    ASSUME NEW matches, RatedRightly(matches), \E m \in matches : IsExact(m)
    PROVE  IsExact(Best(matches)) <=> ~Overtaken(matches)
  <1> DEFINE best == Best(matches)
  <1>1. PICK e \in matches : IsExact(e)
    OBVIOUS
  <1>2. best \in {m \in matches : \A n \in matches \ {m} : Before(m, n)}
    <2>1. Ranked(matches) /\ matches # {}
      BY <1>1 DEF RatedRightly
    <2> QED
      BY <2>1, BestIsFirst
  <1> HIDE DEF best
  <1>3. best \in matches /\ \A n \in matches \ {best} : Before(best, n)
    BY <1>2
  <1>4. \A m \in matches : m.similarity \in 0 .. 100 /\ m.supervise_file \in Nat
    BY DEF RatedRightly, Ranked
  <1>5. \A m, n \in matches : m.supervise_file = n.supervise_file => m = n
    BY DEF RatedRightly, Ranked
  <1>6. \A m \in matches : IsExact(m) => m.similarity = 100
    BY DEF RatedRightly
  <1>7. best.similarity = 100
    <2>1. best = e \/ Before(best, e)
      BY <1>1, <1>3
    <2> QED
      BY <1>1, <1>3, <1>4, <1>6, <2>1 DEF Before
  <1>8. ASSUME NEW n \in matches, n # best, n.similarity = 100
        PROVE  best.supervise_file < n.supervise_file
    BY <1>3, <1>4, <1>7, <1>8 DEF Before
  <1>9. CASE IsExact(best)
    <2> SUFFICES ASSUME Overtaken(matches) PROVE FALSE
      BY <1>9 DEF best
    <2>1. PICK f \in matches :
             /\ ~IsExact(f) /\ f.similarity = 100
             /\ f.supervise_file < best.supervise_file
      BY <1>3, <1>9 DEF Overtaken
    <2>2. f # best
      BY <1>9, <2>1
    <2>3. best.supervise_file < f.supervise_file
      BY <1>8, <2>1, <2>2
    <2> QED
      BY <1>3, <1>4, <2>1, <2>3
  <1>10. CASE ~IsExact(best)
    <2>1. ASSUME NEW m \in matches, IsExact(m)
          PROVE  best.supervise_file < m.supervise_file
      BY <1>6, <1>8, <1>10, <2>1
    <2>2. Overtaken(matches)
      BY <1>3, <1>7, <1>10, <2>1 DEF Overtaken
    <2> QED
      BY <1>10, <2>2 DEF best
  <1> QED
    BY <1>9, <1>10

\* find_matches rates as it should.
LEMMA FindMatchesRated ==
    ASSUME NEW d, Tables(d), NEW print \in EventPrints, ~FindRaises(print, d.baselines)
    PROVE  RatedRightly(FindMatches(print, d.baselines))
  <1> DEFINE matches == FindMatches(print, d.baselines)
  <1>1. Ranked(matches)
    BY FindMatchesFacts
  <1>2. \A m \in matches : (\E i : m = Exact(i)) \/ (\E i, s : m = Fuzzy(i, s))
    BY DEF FindMatches
  <1> HIDE DEF matches
  <1>3. \A m \in matches :
           m.match_type \in {"exact", "fuzzy"} /\ (IsExact(m) => m.similarity = 100)
    BY <1>2 DEF Exact, Fuzzy, IsExact
  <1> QED
    BY <1>1, <1>3 DEF RatedRightly, matches

\* A handler that moves on without find_matches keeps its list.
LEMMA SameLists ==
    ASSUME MatchLists, NEW r \in Requests, DOMAIN req = Requests,
           NEW next, next.matches = req[r].matches, req' = [req EXCEPT ![r] = next]
    PROVE  MatchLists'
  <1>1. \A q \in Requests : req'[q].matches = req[q].matches
    OBVIOUS
  <1> QED
    BY <1>1 DEF MatchLists

\* A list is set by find_matches, and nothing else changes it.
LEMMA MatchListsStep ==
    ASSUME IInv, MatchLists, [Next]_vars
    PROVE  MatchLists'
  <1>1. DOMAIN req = Requests /\ \A q \in Requests : RequestOK(req[q])
    BY DEF IInv, RequestsOK
  <1>2. \A q \in Requests : DOMAIN req[q] = {"at", "input", "id", "matches"}
    BY <1>1 DEF RequestOK
  <1>3. ASSUME NEW r \in Requests, req' = [req EXCEPT ![r].at = "failed"]
        PROVE  MatchLists'
    <2> DEFINE next == [req[r] EXCEPT !.at = "failed"]
    <2>1. req' = [req EXCEPT ![r] = next] /\ next.matches = req[r].matches
      BY <1>1, <1>2, <1>3
    <2> HIDE DEF next
    <2> QED
      BY <1>1, <2>1, SameLists
  <1>4. ASSUME NEW r \in Requests, NEW stages, NEW next, next.matches = req[r].matches,
               Call(r, stages, next)
        PROVE  MatchLists'
    BY <1>1, <1>3, <1>4, SameLists DEF Call
  <1>5. CASE UNCHANGED req
    BY <1>5 DEF MatchLists
  <1>6. ASSUME NEW r \in Requests, Register(r)
        PROVE  MatchLists'
    <2>1. PICK name \in Names, data \in Files :
             Call(r, RegisterStages(name, Fingerprint(data)),
                  [req[r] EXCEPT !.at = "done", !.input = Baseline(name, Fingerprint(data))])
      BY <1>6 DEF Register
    <2> DEFINE next == [req[r] EXCEPT !.at = "done", !.input = Baseline(name, Fingerprint(data))]
    <2>2. next.matches = req[r].matches
      BY <1>2
    <2> HIDE DEF next
    <2>3. Call(r, RegisterStages(name, Fingerprint(data)), next)
      BY <2>1 DEF next
    <2> QED
      BY <1>4, <2>2, <2>3
  <1>7. ASSUME NEW r \in Requests, RecordEvent(r)
        PROVE  MatchLists'
    <2>1. PICK input \in EventInputs :
             Call(r, EventStages(input),
                  [req[r] EXCEPT !.at = "added", !.input = input, !.id = Len(db.events) + 1])
      BY <1>7 DEF RecordEvent
    <2> DEFINE next == [req[r] EXCEPT !.at = "added", !.input = input, !.id = Len(db.events) + 1]
    <2>2. next.matches = req[r].matches
      BY <1>2
    <2> HIDE DEF next
    <2>3. Call(r, EventStages(input), next)
      BY <2>1 DEF next
    <2> QED
      BY <1>4, <2>2, <2>3
  <1>8. ASSUME NEW r \in Requests, RecordDetail(r)
        PROVE  MatchLists'
    <2> DEFINE next == [req[r] EXCEPT !.at = "detailed"]
    <2>1. next.matches = req[r].matches
      BY <1>2
    <2>2. \/ Call(r, DetailStages(req[r].id, req[r].input.meta), next)
          \/ req' = [req EXCEPT ![r].at = "failed"]
          \/ req' = [req EXCEPT ![r] = next]
      BY <1>1, <1>8 DEF RecordDetail
    <2> HIDE DEF next
    <2> QED
      BY <1>1, <1>3, <1>4, <2>1, <2>2, SameLists
  <1>9. ASSUME NEW r \in Requests, RecordMatches(r)
        PROVE  MatchLists'
    <2> DEFINE next == [req[r] EXCEPT !.at = "done"]
    <2>1. next.matches = req[r].matches
      BY <1>2
    <2>2. Call(r, TraceStages(req[r].id, req[r].matches), next)
      BY <1>9 DEF RecordMatches
    <2> HIDE DEF next
    <2> QED
      BY <1>4, <2>1, <2>2
  <1>10. ASSUME NEW r \in Requests, MatchBaselines(r)
         PROVE  MatchLists'
    <2> DEFINE print == req[r].input.print
               found == FindMatches(print, db.baselines)
    <2>5. CASE FindRaises(print, db.baselines)
      BY <1>3, <1>10, <2>5 DEF MatchBaselines
    <2>1. SUFFICES ASSUME /\ req[r].at = "detailed" /\ ~FindRaises(print, db.baselines)
                          /\ req' = [req EXCEPT ![r].at = "matched", ![r].matches = found]
                   PROVE  MatchLists'
      BY <1>10, <2>5 DEF MatchBaselines
    <2>2. print \in EventPrints /\ Tables(db)
      BY <1>1, <2>1 DEF RequestOK, EventPrints, IInv, ViewOK
    <2>3. RatedRightly(found)
      BY <2>1, <2>2, FindMatchesRated
    <2> HIDE DEF found
    <2>4. req'[r].matches = found /\ \A q \in Requests \ {r} : req'[q] = req[q]
      BY <1>1, <1>2, <2>1
    <2> QED
      BY <2>3, <2>4 DEF MatchLists
  <1>11. CASE Crash
    <2>1. \A q \in Requests : req'[q].matches = req[q].matches
      BY <1>2, <1>11 DEF Crash
    <2> QED
      BY <2>1 DEF MatchLists
  <1>12. ASSUME NEW r \in Requests, Refuse(r)
         PROVE  MatchLists'
    BY <1>3, <1>12 DEF Refuse
  <1>13. ASSUME NEW i \in DOMAIN db.events, EditRow(i) \/ DeleteRow(i)
         PROVE  UNCHANGED req
    BY <1>13 DEF EditRow, DeleteRow, Edit
  <1> QED
    BY <1>5, <1>6, <1>7, <1>8, <1>9, <1>10, <1>11, <1>12, <1>13 DEF Next, vars

\* The server design, 6, says an exact match always comes first.  It does in all
\* states but those in which a fuzzy 100 is on an older baseline than every exact match.
THEOREM ExactFirstBoundary ==
    Spec => [](ExactFirst <=>
        \A r \in Requests :
            (\E m \in req[r].matches : IsExact(m)) => ~Overtaken(req[r].matches))
  <1>1. Init => MatchLists
    <2> SUFFICES ASSUME Init, NEW r \in Requests PROVE RatedRightly(req[r].matches)
      BY DEF MatchLists
    <2>1. req[r].matches = {}
      BY DEF Init, NewRequest
    <2> QED
      BY <2>1, FS_EmptySet DEF RatedRightly, Ranked
  <1>2. Spec => []MatchLists
    BY <1>1, MatchListsStep, Invariant, PTL DEF Spec
  <1>3. MatchLists =>
          (ExactFirst <=>
             \A r \in Requests :
                (\E m \in req[r].matches : IsExact(m)) => ~Overtaken(req[r].matches))
    <2> SUFFICES ASSUME MatchLists
                 PROVE  ExactFirst <=>
                          \A r \in Requests :
                             (\E m \in req[r].matches : IsExact(m)) => ~Overtaken(req[r].matches)
      OBVIOUS
    <2>1. ExactFirst <=>
            \A r \in Requests : (\E m \in req[r].matches : IsExact(m)) => IsExact(Best(req[r].matches))
      BY DEF ExactFirst, IsExact
    <2>2. \A r \in Requests : RatedRightly(req[r].matches)
      BY DEF MatchLists
    <2> QED
      BY <2>1, <2>2, BestIsExact
  <1> QED
    BY <1>2, <1>3, PTL

-----------------------------------------------------------------------------
(* Nothing that was saved is lost *)

\* What the connection sees has everything a restart would find, also when failed
\* calls left it ahead: so a later commit loses nothing.
Ahead == ~edited => Survives(durable, db)

\* A view has its own rows.
LEMMA SurvivesItself ==
    ASSUME NEW d
    PROVE  Survives(d, d)
  BY DEF Survives

\* A row that is replaced twice is kept twice.
LEMMA SurvivesBoth ==
    ASSUME NEW c, NEW d, NEW e, Survives(c, d), Survives(d, e)
    PROVE  Survives(c, e)
  <1>1. ASSUME NEW i \in DOMAIN c.baselines
        PROVE  /\ i \in DOMAIN e.baselines /\ e.baselines[i].name = c.baselines[i].name
               /\ \/ e.baselines[i].sha256 = c.baselines[i].sha256
                  \/ \E h \in DOMAIN e.history :
                        e.history[h] = [supervise_file |-> i, sha256 |-> c.baselines[i].sha256]
    <2>1. /\ i \in DOMAIN d.baselines /\ d.baselines[i].name = c.baselines[i].name
          /\ i \in DOMAIN e.baselines /\ e.baselines[i].name = d.baselines[i].name
      BY DEF Survives
    <2>2. CASE d.baselines[i].sha256 = c.baselines[i].sha256
      BY <2>1, <2>2 DEF Survives
    <2>3. CASE d.baselines[i].sha256 # c.baselines[i].sha256
      <3>1. PICK h \in DOMAIN d.history :
               d.history[h] = [supervise_file |-> i, sha256 |-> c.baselines[i].sha256]
        BY <2>3 DEF Survives
      <3>2. h \in DOMAIN e.history /\ e.history[h] = d.history[h]
        BY DEF Survives
      <3> QED
        BY <2>1, <3>1, <3>2
    <2> QED
      BY <2>2, <2>3
  <1>2. \A i \in DOMAIN c.events : i \in DOMAIN e.events /\ e.events[i] = c.events[i]
    BY DEF Survives
  <1>3. \A h \in DOMAIN c.history : h \in DOMAIN e.history /\ e.history[h] = c.history[h]
    BY DEF Survives
  <1>4. c.details \subseteq e.details /\ c.traces \subseteq e.traces
    BY DEF Survives
  <1> QED
    BY <1>1, <1>2, <1>3, <1>4 DEF Survives

\* A call whose every stage has the rows it started from, wherever it stops.
LEMMA SavingCall ==
    ASSUME Ahead, ~edited, NEW r, NEW stages, NEW next,
           stages # <<>> => Len(stages) \in DOMAIN stages,
           \A i \in DOMAIN stages : Survives(db, stages[i]),
           Call(r, stages, next)
    PROVE  Ahead' /\ Survives(durable, durable')
  <1>1. Survives(durable, db)
    BY DEF Ahead
  <1>2. \A i \in DOMAIN stages : Survives(durable, stages[i])
    BY <1>1, SurvivesBoth
  <1>3. CASE Commits(IF stages = <<>> THEN db ELSE stages[Len(stages)])
    <2>1. Survives(durable, durable') /\ db' = durable'
      BY <1>1, <1>2, <1>3 DEF Commits
    <2>2. Survives(durable', durable')
      BY SurvivesItself
    <2> QED
      BY <2>1, <2>2 DEF Ahead
  <1>4. CASE Raises({stages[i] : i \in DOMAIN stages})
    <2>1. durable' = durable /\ db' \in {stages[i] : i \in DOMAIN stages} \cup {db, durable}
      BY <1>4 DEF Raises
    <2>2. Survives(durable, durable)
      BY SurvivesItself
    <2>3. Survives(durable, db')
      BY <1>1, <1>2, <2>1, <2>2
    <2> QED
      BY <2>1, <2>2, <2>3 DEF Ahead
  <1> QED
    BY <1>3, <1>4 DEF Call

\* A call of one statement.
LEMMA SavingStatement ==
    ASSUME Ahead, ~edited, NEW r, NEW e, NEW next, Survives(db, e), Call(r, <<e>>, next)
    PROVE  Ahead' /\ Survives(durable, durable')
  <1> DEFINE stages == <<e>>
  <1>1. /\ stages # <<>> => Len(stages) \in DOMAIN stages
        /\ \A i \in DOMAIN stages : Survives(db, stages[i])
        /\ Call(r, stages, next)
    OBVIOUS
  <1> HIDE DEF stages
  <1> QED
    BY <1>1, SavingCall

\* register_supervise_file inserts, or archives the version before it updates the row:
\* the UPDATE alone would be the one statement that loses something.
LEMMA RegisterSaves ==
    ASSUME IInv, Ahead, ~edited, NEW r \in Requests, Register(r)
    PROVE  Ahead' /\ Survives(durable, durable')
  <1>1. PICK name \in Names, data \in Files :
           Call(r, RegisterStages(name, Fingerprint(data)),
                [req[r] EXCEPT !.at = "done", !.input = Baseline(name, Fingerprint(data))])
    BY DEF Register
  <1> DEFINE new == Baseline(name, Fingerprint(data))
             next == [req[r] EXCEPT !.at = "done", !.input = new]
             stages == RegisterStages(name, Fingerprint(data))
  <1>2. Tables(db) /\ new.name = name
    BY DEF IInv, ViewOK, Baseline
  <1>3. Call(r, stages, next)
    BY <1>1
  <1> HIDE DEF next
  <1>4. CASE Existing(name) = {}
    <2> DEFINE e == [db EXCEPT !.baselines = Append(@, new)]
    <2>1. stages = <<e>>
      BY <1>4 DEF RegisterStages
    <2>2. /\ e.baselines = Append(db.baselines, new) /\ e.history = db.history
          /\ e.events = db.events /\ e.details = db.details /\ e.traces = db.traces
      BY <1>2 DEF Tables
    <2> HIDE DEF e, new
    <2>3. \A i \in DOMAIN db.baselines :
             i \in DOMAIN e.baselines /\ e.baselines[i] = db.baselines[i]
      <3>1. /\ DOMAIN db.baselines = 1 .. Len(db.baselines) /\ Len(db.baselines) \in Nat
            /\ DOMAIN e.baselines = 1 .. (Len(db.baselines) + 1)
            /\ \A i \in 1 .. Len(db.baselines) : e.baselines[i] = db.baselines[i]
        BY <1>2, <2>2 DEF Tables
      <3> QED
        BY <3>1
    <2>4. Survives(db, e)
      BY <2>2, <2>3 DEF Survives
    <2> QED
      BY <1>3, <2>1, <2>4, SavingStatement
  <1>5. CASE Existing(name) # {}
    <2> DEFINE i == Min(Existing(name))
               archived == [db EXCEPT !.history = Append(@, Version(i))]
               e == [archived EXCEPT !.baselines[i] = new]
    <2>1. i \in DOMAIN db.baselines /\ db.baselines[i].name = name
      <3>1. \A j, k \in Existing(name) : j = k
        BY <1>2 DEF Existing, Named, Tables
      <3>2. Existing(name) \subseteq Nat
        BY <1>2 DEF Existing, Named, Tables
      <3>3. \E j \in Existing(name) : \A k \in Existing(name) : j <= k
        BY <1>5, <3>1, <3>2
      <3>4. i \in Existing(name)
        BY <3>3 DEF Min
      <3> QED
        BY <3>4 DEF Existing, Named
    <2>2. stages = <<archived, e>>
      BY <1>5 DEF RegisterStages, ReplaceStages, Replaced
    <2> HIDE DEF i, stages, new
    <2>3. /\ DOMAIN archived = DOMAIN db
          /\ archived.history = Append(db.history, Version(i))
          /\ archived.baselines = db.baselines /\ archived.events = db.events
          /\ archived.details = db.details /\ archived.traces = db.traces
      BY <1>2 DEF Tables
    <2>4. \A h \in DOMAIN db.history :
             h \in DOMAIN archived.history /\ archived.history[h] = db.history[h]
      <3>1. /\ DOMAIN db.history = 1 .. Len(db.history) /\ Len(db.history) \in Nat
            /\ db.history \in Seq([supervise_file : DOMAIN db.baselines, sha256 : Hashes])
        BY <1>2 DEF Tables
      <3>2. Version(i) \in [supervise_file : DOMAIN db.baselines, sha256 : Hashes]
        <4>1. db.baselines[i] \in BaselineRows
          BY <1>2, <2>1 DEF Tables
        <4> QED
          BY <2>1, <4>1 DEF BaselineRows, Version
      <3> DEFINE S == [supervise_file : DOMAIN db.baselines, sha256 : Hashes]
      <3> HIDE DEF S
      <3>3. db.history \in Seq(S) /\ Version(i) \in S
        BY <3>1, <3>2 DEF S
      <3> QED
        BY <2>3, <3>1, <3>3
    <2>5. \E h \in DOMAIN archived.history :
             archived.history[h] = [supervise_file |-> i, sha256 |-> db.baselines[i].sha256]
      BY <1>2, <2>1, InsertVersion
    <2> HIDE DEF archived
    <2>6. /\ DOMAIN e.baselines = DOMAIN db.baselines /\ e.baselines[i] = new
          /\ \A j \in DOMAIN db.baselines \ {i} : e.baselines[j] = db.baselines[j]
          /\ e.history = archived.history /\ e.events = db.events
          /\ e.details = db.details /\ e.traces = db.traces
      <3>1. /\ e.baselines = [db.baselines EXCEPT ![i] = new] /\ e.history = archived.history
            /\ e.events = db.events /\ e.details = db.details /\ e.traces = db.traces
        BY <1>2, <2>3 DEF Tables
      <3> HIDE DEF e
      <3> QED
        BY <2>1, <3>1
    <2> HIDE DEF e
    <2>7. Survives(db, archived)
      BY <2>3, <2>4 DEF Survives
    <2>8. Survives(db, e)
      <3>1. \A j \in DOMAIN db.baselines :
               /\ j \in DOMAIN e.baselines /\ e.baselines[j].name = db.baselines[j].name
               /\ \/ e.baselines[j].sha256 = db.baselines[j].sha256
                  \/ \E h \in DOMAIN e.history :
                        e.history[h] = [supervise_file |-> j, sha256 |-> db.baselines[j].sha256]
        BY <1>2, <2>1, <2>5, <2>6
      <3> QED
        BY <2>4, <2>6, <3>1 DEF Survives
    <2>9. /\ stages # <<>> => Len(stages) \in DOMAIN stages
          /\ \A k \in DOMAIN stages : Survives(db, stages[k])
      BY <2>2, <2>7, <2>8
    <2> QED
      BY <1>3, <2>9, SavingCall DEF stages
  <1> QED
    BY <1>4, <1>5

\* add_event appends.
LEMMA RecordEventSaves ==
    ASSUME IInv, Ahead, ~edited, NEW r \in Requests, RecordEvent(r)
    PROVE  Ahead' /\ Survives(durable, durable')
  <1>1. PICK input \in EventInputs : \E next : Call(r, EventStages(input), next)
    BY DEF RecordEvent
  <1> DEFINE row == NewRow(db.events, input.print, input.meta)
             e == [db EXCEPT !.events = Append(@, row)]
  <1>2. EventStages(input) = <<e>>
    BY DEF EventStages
  <1>3. Tables(db) /\ IsRows(db.events)
    BY DEF IInv, ViewOK, Tables
  <1> HIDE DEF row
  <1>4. /\ e.events = Append(db.events, row) /\ e.baselines = db.baselines
        /\ e.history = db.history /\ e.details = db.details /\ e.traces = db.traces
    BY <1>3 DEF Tables
  <1> HIDE DEF e
  <1>5. \A i \in DOMAIN db.events : i \in DOMAIN e.events /\ e.events[i] = db.events[i]
    <2>1. DOMAIN db.events = 1 .. Len(db.events) /\ Len(db.events) \in Nat
      BY <1>3, RowsFacts
    <2> QED
      BY <1>3, <1>4, <2>1, AddRow
  <1>6. Survives(db, e)
    BY <1>4, <1>5 DEF Survives
  <1> QED
    BY <1>1, <1>2, <1>6, SavingStatement

\* INSERT OR REPLACE of the detail replaces none: the event is new.
LEMMA RecordDetailSaves ==
    ASSUME IInv, Ahead, ~edited, NEW r \in Requests, RecordDetail(r)
    PROVE  Ahead' /\ Survives(durable, durable')
  <1> DEFINE id == req[r].id
             url == req[r].input.meta
  <1>1. req[r].at = "added" /\ edited' = edited
    BY DEF RecordDetail
  <1>2. Tables(db) /\ EventShown(db, req[r])
    BY <1>1, NotEdited DEF IInv, ViewOK
  <1>3. \A d \in db.details : d.event # id
    <2>1. id # 0
      BY <1>1 DEF IInv, RequestsOK, RequestOK
    <2>2. Urls(db, id) = {}
      BY <1>1, <1>2, <2>1 DEF EventShown
    <2> QED
      BY <2>2 DEF Urls
  <1>4. ASSUME NEW next, Call(r, DetailStages(id, url), next)
        PROVE  Ahead' /\ Survives(durable, durable')
    <2> DEFINE rows == {d \in db.details : d.event # id} \cup {[event |-> id, url |-> url]}
               e == [db EXCEPT !.details = rows]
    <2>1. DetailStages(id, url) = <<e>>
      BY DEF DetailStages
    <2>2. db.details \subseteq rows
      BY <1>3
    <2> HIDE DEF rows
    <2>3. /\ e.details = rows /\ e.baselines = db.baselines
          /\ e.history = db.history /\ e.events = db.events /\ e.traces = db.traces
      BY <1>2 DEF Tables
    <2> HIDE DEF e
    <2>4. Survives(db, e)
      BY <2>2, <2>3 DEF Survives
    <2> QED
      BY <1>4, <2>1, <2>4, SavingStatement
  <1>5. CASE UNCHANGED <<db, durable>>
    BY <1>1, <1>5, SurvivesItself DEF Ahead
  <1> QED
    BY <1>4, <1>5 DEF RecordDetail

\* add_trace_matches adds rows.
LEMMA RecordMatchesSaves ==
    ASSUME IInv, Ahead, ~edited, NEW r \in Requests, RecordMatches(r)
    PROVE  Ahead' /\ Survives(durable, durable')
  <1> DEFINE matches == req[r].matches
             n == Cardinality(matches)
             stages == TraceStages(req[r].id, matches)
  <1>1. req[r].at = "matched" /\ \E next : Call(r, stages, next)
    BY DEF RecordMatches
  <1>2. n \in Nat
    BY <1>1, FS_CardinalityType DEF IInv, RequestsOK, RequestOK, Ranked
  <1>3. stages = [k \in 1 .. n |-> WithTraces(req[r].id, FirstMatches(matches, k))]
    BY DEF TraceStages, WithTraces, FirstMatches
  <1> HIDE DEF stages
  <1>4. stages # <<>> => Len(stages) \in DOMAIN stages
    BY <1>2, <1>3
  <1>5. \A some : Survives(db, WithTraces(req[r].id, some))
    <2> SUFFICES ASSUME NEW some PROVE Survives(db, WithTraces(req[r].id, some))
      OBVIOUS
    <2> DEFINE e == WithTraces(req[r].id, some)
    <2>1. /\ db.traces \subseteq e.traces /\ e.baselines = db.baselines
          /\ e.history = db.history /\ e.events = db.events /\ e.details = db.details
      BY DEF WithTraces, IInv, ViewOK, Tables
    <2> HIDE DEF e
    <2>2. Survives(db, e)
      BY <2>1 DEF Survives
    <2> QED
      BY <2>2 DEF e
  <1>6. \A k \in DOMAIN stages : Survives(db, stages[k])
    BY <1>3, <1>5
  <1> QED
    BY <1>1, <1>4, <1>6, SavingCall

\* Every step keeps the connection ahead, and loses nothing unless it is an edit.
LEMMA SavingStep ==
    ASSUME IInv, Ahead, [Next]_vars
    PROVE  Ahead' /\ (~edited' => Survives(durable, durable'))
  <1>1. ASSUME NEW events, Edit(events)
        PROVE  edited'
    BY <1>1 DEF Edit
  <1>2. ASSUME NEW i \in DOMAIN db.events, EditRow(i) \/ DeleteRow(i)
        PROVE  edited'
    BY <1>1, <1>2 DEF EditRow, DeleteRow
  <1>4. CASE edited'
    BY <1>4 DEF Ahead
  <1>5. CASE ~edited'
    <2>1. CASE UNCHANGED vars
      BY <2>1, SurvivesItself DEF vars, Ahead
    <2>2. ASSUME NEW r \in Requests, Refuse(r) \/ MatchBaselines(r)
          PROVE  UNCHANGED <<db, durable, edited>>
      BY <2>2 DEF Refuse, MatchBaselines
    <2>3. CASE UNCHANGED <<db, durable, edited>>
      BY <2>3, SurvivesItself DEF Ahead
    <2>4. CASE Crash
      BY <2>4, SurvivesItself DEF Crash, Ahead
    <2>5. ASSUME NEW r \in Requests,
                 Register(r) \/ RecordEvent(r) \/ RecordDetail(r) \/ RecordMatches(r)
          PROVE  Ahead' /\ Survives(durable, durable')
      <3>1. ~edited
        BY <1>5, <2>5 DEF Register, RecordEvent, RecordDetail, RecordMatches
      <3> QED
        BY <2>5, <3>1, RegisterSaves, RecordEventSaves, RecordDetailSaves, RecordMatchesSaves
    <2> QED
      BY <1>2, <1>5, <2>1, <2>2, <2>3, <2>4, <2>5 DEF Next
  <1> QED
    BY <1>4, <1>5

\* Whatever a restart could find at one time it finds at any later time: no handler,
\* failed call of the repository or crash takes a committed row back.
THEOREM NothingSavedIsLost == Spec => SavedStays
  <1>1. Init => Ahead
    BY SurvivesItself DEF Init, Ahead
  <1>2. IInv /\ Ahead /\ [Next]_vars => Ahead'
    BY SavingStep
  <1>3. IInv /\ Ahead /\ [Next]_vars => [~edited' => Survives(durable, durable')]_vars
    BY SavingStep
  <1> QED
    BY <1>1, <1>2, <1>3, Invariant, PTL DEF Spec, SavedStays

=============================================================================
