---------------------------- MODULE TraceServer -----------------------------
(***************************************************************************)
(* server/app: requests that register baselines (mode a) and record events *)
(* (mode b) over one SQLite connection, with statements and commits that   *)
(* fail, and crashes.                                                      *)
(*                                                                         *)
(* `db` is what the connection sees, `durable` what a restart would find:  *)
(* they differ after an error, because no code rolls back: the connection  *)
(* keeps what the failed call had done, and the next commit, of any        *)
(* request, makes it durable.  A handler awaits the body first and is then *)
(* synchronous: the event loop runs it to its end before another request's *)
(* handler, but it can fail or the process can die between two calls of    *)
(* the repository, so each call is an action.                              *)
(***************************************************************************)
EXTENDS HashChain, Matching

CONSTANTS
    Requests,     \* bound: requests in a behaviour
    Names,        \* file names of baselines
    Files,        \* contents of uploaded files
    EmptyFile,    \* no bytes
    Ssdeep(_),    \* ppdeep.hash
    EventInputs,  \* mode b bodies: [print : [sha256, fuzzy_hash], web, meta]
    EventLimit,   \* the limit GET /api/events asks for
    Junk          \* metadata that is not an object

VARIABLES
    db,           \* the tables as the connection sees them
    durable,      \* ... and as a restart would find them
    req,          \* how far each request is
    edited        \* somebody has edited the events in the database file by hand

vars == <<db, durable, req, edited>>

EmptyDb ==
    [baselines |-> <<>>, history |-> <<>>, events |-> <<>>, details |-> {}, traces |-> {}]

\* req[r]: how far r's handler is, its input, the event id and the matches it holds.
NewRequest == [at |-> "new", input |-> <<>>, id |-> 0, matches |-> {}]

Init ==
    /\ db = EmptyDb /\ durable = EmptyDb
    /\ req = [r \in Requests |-> NewRequest]
    /\ edited = FALSE

-----------------------------------------------------------------------------
(* SqliteRepository: a call executes statements; each has a table state     *)
(* after it.  A call that raises leaves the connection after one of its     *)
(* statements, or rolled back by SQLite itself.                             *)

\* Mutant of a repository call: the commit is missing.
CommitForgotten(new) == db' = new /\ UNCHANGED durable

\* The call goes through: what the connection sees is committed.
Commits(new) == db' = new /\ durable' = new

Raises(stages) == db' \in stages \cup {db, durable} /\ UNCHANGED durable

\* compute_sha256 (taken as injective) and compute_fuzzy.
Fingerprint(data) ==
    [sha256 |-> data, fuzzy_hash |-> IF data = EmptyFile THEN NoFuzzy ELSE Ssdeep(data)]

\* What the server computes of baselines.
Prints == {Fingerprint(data) : data \in Files}

\* What clients report of contents, as they like: a digest without a fuzzy hash, a fuzzy
\* hash that belongs to another content, or something that is none.
EventPrints == {input.print : input \in EventInputs}

\* ppdeep.compare rates two fuzzy hashes in per cent.
ASSUME SimilarityAssumption ==
    \A ev \in EventPrints, p \in Prints :
        IsSsdeep(ev.fuzzy_hash) /\ p.fuzzy_hash # NoFuzzy =>
            Similarity(ev.fuzzy_hash, p.fuzzy_hash) \in 0 .. 100

\* register_supervise_file
Named(name) == {i \in DOMAIN db.baselines : db.baselines[i].name = name}

\* Mutant of register_supervise_file: committed rows only, as over another connection.
NamedAndDurable(name) == {i \in DOMAIN durable.baselines : durable.baselines[i].name = name}

Existing(name) == Named(name)

Version(i) == [supervise_file |-> i, sha256 |-> db.baselines[i].sha256]

Baseline(name, print) ==
    [name |-> name, sha256 |-> print.sha256, fuzzy_hash |-> print.fuzzy_hash]

\* The table states after its INSERT into update_history and its UPDATE.
Replaced(i, new) ==
    LET archived == [db EXCEPT !.history = Append(@, Version(i))]
    IN  <<archived, [archived EXCEPT !.baselines[i] = new]>>

\* Mutant: the two statements the other way round.
ReplacedThenKept(i, new) ==
    LET updated == [db EXCEPT !.baselines[i] = new]
    IN  <<updated, [updated EXCEPT !.history = Append(@, Version(i))]>>

ReplaceStages(i, new) == Replaced(i, new)

RegisterStages(name, print) ==
    LET new == Baseline(name, print)
    IN  IF Existing(name) = {} THEN <<[db EXCEPT !.baselines = Append(@, new)]>>
        ELSE ReplaceStages(Min(Existing(name)), new)

\* add_event, add_web_event_detail (INSERT OR REPLACE), add_trace_matches
EventStages(input) ==
    <<[db EXCEPT !.events = Append(@, NewRow(@, input.print, input.meta))]>>

DetailStages(id, url) ==
    <<[db EXCEPT !.details = {d \in @ : d.event # id} \cup {[event |-> id, url |-> url]}]>>

TraceRow(id, m) == [event |-> id, match |-> m]

\* Mutant of add_trace_matches: the ids the other way round.
TraceRowSwapped(id, m) ==
    [event |-> m.supervise_file, match |-> [m EXCEPT !.supervise_file = id]]

MatchRow(id, m) == TraceRow(id, m)

\* The rows go in one by one, best match first.
TraceStages(id, matches) ==
    [n \in 1 .. Cardinality(matches) |->
        [db EXCEPT !.traces = @ \cup {MatchRow(id, m) :
            m \in {x \in matches : Cardinality({y \in matches : Before(y, x)}) < n}}]]

\* A request makes a call: it goes through and the handler goes on as `next`, or it
\* raises and the client gets an error.
Call(r, stages, next) ==
    \/ /\ Commits(IF stages = <<>> THEN db ELSE stages[Len(stages)])
       /\ req' = [req EXCEPT ![r] = next]
    \/ /\ Raises({stages[i] : i \in DOMAIN stages})
       /\ req' = [req EXCEPT ![r].at = "failed"]

-----------------------------------------------------------------------------
(* What the GET routes answer, read through a view d of the tables.         *)

\* list_events: the newest ones.
Listed(d) == {id \in DOMAIN d.events : id > Len(d.events) - EventLimit}

MatchesOf(d, id) == {t.match : t \in {x \in d.traces : x.event = id}}

\* Mutant of best_trace_match: the newest of the most similar rows.
NewestTraceMatch(d, id) ==
    LET found == MatchesOf(d, id)
    IN  {m \in found : \A n \in found \ {m} :
            \/ m.similarity > n.similarity
            \/ m.similarity = n.similarity /\ m.supervise_file > n.supervise_file}

\* best_trace_match, a set of at most one.
BestTraceMatch(d, id) ==
    LET found == MatchesOf(d, id) IN IF found = {} THEN {} ELSE {Best(found)}

\* get_web_event_detail, likewise.
Urls(d, id) == {x.url : x \in {y \in d.details : y.event = id}}

\* GET /api/events
GetEvents(d) ==
    [id \in Listed(d) |->
        [sha256 |-> d.events[id].data.sha256, url |-> Urls(d, id),
         best_match |-> {[match |-> m, name |-> d.baselines[m.supervise_file].name] :
                            m \in BestTraceMatch(d, id)}]]

\* GET /api/supervise-files/{i}/events: events_matching_supervise_file
GetSuperviseFileEvents(d, i) ==
    {[id |-> t.event, match |-> t.match] : t \in {x \in d.traces : x.match.supervise_file = i}}

\* GET /api/supervise-files: list_supervise_files and count_update_history
GetSuperviseFiles(d) ==
    [i \in DOMAIN d.baselines |->
        [baseline |-> d.baselines[i],
         update_history_count |->
             Cardinality({h \in DOMAIN d.history : d.history[h].supervise_file = i})]]

-----------------------------------------------------------------------------
(* The handlers *)

\* The event loop runs r's handler: it starts one only when no other is under way.
Turn(r) == \A q \in Requests \ {r} : req[q].at \in {"new", "done", "failed"}

\* post_fingerprints: neither multipart nor JSON, no file field, no sha256, or a body
\* that does not parse.
Refuse(r) ==
    /\ req[r].at = "new"
    /\ req' = [req EXCEPT ![r].at = "failed"]
    /\ UNCHANGED <<db, durable, edited>>

\* _handle_mode_a -> registration.register: one call.
Register(r) ==
    /\ req[r].at = "new" /\ Turn(r)
    /\ \E name \in Names, data \in Files :
          LET print == Fingerprint(data) IN
          Call(r, RegisterStages(name, print),
               [req[r] EXCEPT !.at = "done", !.input = Baseline(name, print)])
    /\ UNCHANGED edited

\* _handle_mode_b -> record_event: add_event ...
RecordEvent(r) ==
    /\ req[r].at = "new" /\ Turn(r)
    /\ \E input \in EventInputs :
          Call(r, EventStages(input),
               [req[r] EXCEPT !.at = "added", !.input = input, !.id = Len(db.events) + 1])
    /\ UNCHANGED edited

\* ... the web detail of a browser event with a url (metadata that is not an object
\* has no get() and raises), none for the others ...
RecordDetail(r) ==
    LET input == req[r].input IN
    /\ req[r].at = "added"
    /\ \/ /\ input.web /\ input.meta \notin {NoMeta, EmptyMeta, Junk}
          /\ Call(r, DetailStages(req[r].id, input.meta), [req[r] EXCEPT !.at = "detailed"])
       \/ /\ input.web /\ input.meta = Junk
          /\ req' = [req EXCEPT ![r].at = "failed"]
          /\ UNCHANGED <<db, durable>>
       \/ /\ ~input.web \/ input.meta \in {NoMeta, EmptyMeta}
          /\ req' = [req EXCEPT ![r].at = "detailed"]
          /\ UNCHANGED <<db, durable>>
    /\ UNCHANGED edited

\* ... find_matches over list_supervise_files() ...
MatchBaselines(r) ==
    LET print == req[r].input.print IN
    /\ req[r].at = "detailed"
    /\ \/ /\ ~FindRaises(print, db.baselines)
          /\ req' = [req EXCEPT ![r].at = "matched",
                                ![r].matches = FindMatches(print, db.baselines)]
       \/ /\ FindRaises(print, db.baselines)
          /\ req' = [req EXCEPT ![r].at = "failed"]
    /\ UNCHANGED <<db, durable, edited>>

\* ... add_trace_matches, and the 200.
RecordMatches(r) ==
    /\ req[r].at = "matched"
    /\ Call(r, TraceStages(req[r].id, req[r].matches), [req[r] EXCEPT !.at = "done"])
    /\ UNCHANGED edited

\* The process dies: open transactions are gone and clients see broken connections.
Crash ==
    /\ db' = durable
    /\ req' = [r \in Requests |->
                 IF req[r].at \in {"new", "done"} THEN req[r] ELSE [req[r] EXCEPT !.at = "failed"]]
    /\ UNCHANGED <<durable, edited>>

-----------------------------------------------------------------------------
(* Somebody edits an event by hand, once, after the last request.           *)

Finished == \A r \in Requests : req[r].at \in {"done", "failed"}

Edit(events) ==
    /\ Finished /\ ~edited /\ db = durable
    /\ edited' = TRUE
    /\ db' = [db EXCEPT !.events = events] /\ durable' = db'
    /\ UNCHANGED req

\* A protected field of one row, to a value that could be there, its hashes left as they
\* were.  The repository never writes empty metadata: putting that where an event came
\* with it would not break the row but mend it.
EditRow(i) ==
    \/ \E print \in EventPrints \ {db.events[i].data} :
          Edit([db.events EXCEPT ![i].data = print])
    \/ \E meta \in {Stored(input.meta) : input \in EventInputs} \ {db.events[i].metadata} :
          Edit([db.events EXCEPT ![i].metadata = meta])

\* A row that has a successor is deleted.
DeleteRow(i) ==
    /\ i < Len(db.events)
    /\ Edit(SubSeq(db.events, 1, i - 1) \o SubSeq(db.events, i + 1, Len(db.events)))

Next ==
    \/ \E r \in Requests : \/ Refuse(r)
                           \/ Register(r)
                           \/ RecordEvent(r) \/ RecordDetail(r)
                           \/ MatchBaselines(r) \/ RecordMatches(r)
    \/ Crash
    \/ \E i \in DOMAIN db.events : EditRow(i) \/ DeleteRow(i)

Spec == Init /\ [][Next]_vars

-----------------------------------------------------------------------------
(* Properties *)

\* The two views hold rows of the tables, and every reference hits a row.
TypeOK ==
    /\ \A d \in {db, durable} :
          /\ \A i \in DOMAIN d.baselines :
                d.baselines[i].name \in Names /\ d.baselines[i].sha256 \in {p.sha256 : p \in Prints}
          /\ \A i \in DOMAIN d.history : d.history[i].supervise_file \in DOMAIN d.baselines
          /\ \A i \in DOMAIN d.events : d.events[i].data \in EventPrints
          /\ ~edited => \A x \in d.details \cup d.traces : x.event \in DOMAIN d.events
          /\ \A t \in d.traces : t.match.supervise_file \in DOMAIN d.baselines
    /\ \A r \in Requests :
          req[r].at \in {"new", "added", "detailed", "matched", "done", "failed"}
    /\ edited \in BOOLEAN

\* Whatever fails, crashes or interleaves, in the connection's view and in the file
\* the events form one chain, and every row hashes to its record_hash unless its
\* request carried empty metadata.
ChainSound ==
    ~edited => \A rows \in {db.events, durable.events} : \A i \in DOMAIN rows :
        /\ Linked(rows, i)
        /\ Rehashes(rows, i) \/ rows[i].record_hash[2] = EmptyMeta

\* A 200 for an event means that after any crash the GET routes show what it
\* promised: the event with its own url, as best match the first of the matches it
\* returned, and the event under exactly the baselines it returned.
AckedEventShown ==
    ~edited => \A r \in Requests : req[r].at = "done" /\ req[r].id # 0 =>
        LET id == req[r].id
            input == req[r].input
            shown == GetEvents(durable)
        IN
        /\ id \in DOMAIN durable.events
        /\ id \in Listed(durable) =>
              /\ shown[id].sha256 = input.print.sha256
              /\ shown[id].url = IF input.web THEN {input.meta} \ {NoMeta, EmptyMeta} ELSE {}
              /\ {b.match : b \in shown[id].best_match} =
                     {m \in req[r].matches : \A n \in req[r].matches \ {m} : Before(m, n)}
        /\ \A i \in DOMAIN durable.baselines :
              {e.match : e \in {x \in GetSuperviseFileEvents(durable, i) : x.id = id}} =
                  {m \in req[r].matches : m.supervise_file = i}

\* An exact match names the content it was made for: the baseline's current version
\* or one its update history keeps, also when a replacement of the baseline failed
\* halfway and a later request's commit made that half durable.
ExactMatchBacked ==
    ~edited => \A d \in {db, durable} : \A t \in d.traces :
        LET i == t.match.supervise_file
            sha256 == d.events[t.event].data.sha256
        IN  t.match.match_type = "exact" =>
                \/ d.baselines[i].sha256 = sha256
                \/ \E h \in DOMAIN d.history :
                       d.history[h] = [supervise_file |-> i, sha256 |-> sha256]

\* A 200 for a registration means that after any crash there is one baseline of the
\* name, the registered version is its current one or in its history, and GET
\* /api/supervise-files counts every version that was replaced since.
AckedVersionKept ==
    \A r \in Requests : req[r].at = "done" /\ req[r].id = 0 =>
        LET input == req[r].input
            named == {i \in DOMAIN durable.baselines : durable.baselines[i].name = input.name}
            acked == {q \in Requests : req[q].at = "done" /\ req[q].id = 0
                                       /\ req[q].input.name = input.name}
        IN
        /\ Cardinality(named) = 1
        /\ \A i \in named :
              /\ GetSuperviseFiles(durable)[i].update_history_count >= Cardinality(acked) - 1
              /\ \/ durable.baselines[i].sha256 = input.sha256
                 \/ \E h \in DOMAIN durable.history :
                        durable.history[h] = [supervise_file |-> i, sha256 |-> input.sha256]

\* Every row of an older view is in a newer one; the version of a baseline is at least
\* in its history.
Survives(old, new) ==
    /\ \A i \in DOMAIN old.events : i \in DOMAIN new.events /\ new.events[i] = old.events[i]
    /\ \A h \in DOMAIN old.history : h \in DOMAIN new.history /\ new.history[h] = old.history[h]
    /\ old.details \subseteq new.details /\ old.traces \subseteq new.traces
    /\ \A i \in DOMAIN old.baselines :
          /\ i \in DOMAIN new.baselines /\ new.baselines[i].name = old.baselines[i].name
          /\ \/ new.baselines[i].sha256 = old.baselines[i].sha256
             \/ \E h \in DOMAIN new.history :
                    new.history[h] = [supervise_file |-> i, sha256 |-> old.baselines[i].sha256]

\* Whatever a restart could find at one time it finds at any later time, acknowledged or
\* not: no handler, failed call or crash takes a committed row back or changes it, and a
\* baseline's version is replaced and archived together.
SavedStays == [][~edited' => Survives(durable, durable')]_vars

\* verify_chain finds every change of one protected field and every missing row that
\* had a successor.
RowEditDetected == edited => VerifyChain(db.events) # 0

\* server/app/domain/chain.py, verify_chain: None for an intact chain.
IntactChainVerifies == ~edited => VerifyChain(durable.events) = 0

\* The server design, 6: an exact match always comes first.
ExactFirst ==
    \A r \in Requests : \A m \in req[r].matches :
        m.match_type = "exact" => Best(req[r].matches).match_type = "exact"

=============================================================================
