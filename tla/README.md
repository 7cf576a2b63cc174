# file-tracer: a TLA+ verification project

file-tracer watches folders and browser channels, fingerprints the files it sees
(SHA-256 and ssdeep) and records every event on a server in a hash chain, matched
against registered baselines. This directory models that program in TLA+, checks the
models with TLC on small instances and proves their safety properties with TLAPS for every
instance.

    tlc -workers 2 -config MCDebouncer.cfg MCDebouncer.tla     # one run; all are below
    tlapm DebouncerProofs.tla                                  # the proofs of one component

Paths below are relative to the repository root.

## 1. The system

    watched folders --watchdog--> _Handler --> Debouncer --> Worker --+
                                     initial_scan --> cache <--+      |
    Chrome --SDK--> C++ bridge --HTTP--> connector intake -----------> CollectorCore
                                                                      |  Sender (HTTP, retries)
                                                                      v
                       FastAPI --> record_event / register --> SqliteRepository
                                        hash chain, matching

One client process (`client/main.py`) hosts the file agent, the connector intake and the
core; the bridge is a process of its own; the server is one process with one SQLite
connection.

| Component | State | Operations | What makes it correct |
|---|---|---|---|
| Debouncer, `client/agent/debouncer.py` | `_timers`, `_pending` under a lock; one thread per timer | schedule, _fire, cancel_all | nothing kept without a timer that will fire; nothing delivered twice or picked up after cancel_all; the newest event of a path wins; fires after quiet |
| _Handler, Watcher, `client/agent/watcher.py` | watchdog's event queue | on_created/modified/deleted/moved, start, stop | ignored names never leave; stop ends |
| Worker, `client/agent/worker.py` | a queue, one thread | submit, process, stop | the file's existence decides; the cache follows the folder; a label tells news; no task ends the thread |
| FingerprintCache, `client/agent/cache.py` | SQLite file that survives the process | put, get, pop | rows of the files that are there, with their content |
| initial_scan, `client/agent/scanner.py` | - | one pass before the observer starts | every readable file has its row |
| CollectorCore, Sender, `client/core/` | a queue, one thread, one HTTP client | submit, _run, send, stop | order, bounded duplicates, an acknowledgement means a row, stop drains |
| Connector intake, mapping, `client/connector/` | one thread, the connections that wait for it | do_POST, handle_request, to_trace_event | no event without url and fingerprint, and none dropped that has both; a digest stands in for an unreadable file; no POST ends the thread |
| C++ bridge, `client/connector/bridge/` | detached threads | handler, post_to_intake | what it posts says what Chrome asked; Chrome is answered without waiting for the POST |
| Host, `client/main.py` | order of start and stop | main | nothing submitted behind the core's sentinel; a clean exit has delivered everything; Ctrl-C ends it |
| SqliteRepository, `server/app/repository.py` | five tables, one connection, one lock | register_supervise_file, add_event, add_web_event_detail, add_trace_matches, readers | one chain; acknowledged rows survive; no version lost |
| Services, routes, `server/app/services/`, `api.py` | - | POST mode a, POST mode b, GETs | 200 means complete, in what the GETs answer |
| chain, matching, `server/app/domain/` | pure | verify_chain, find_matches | an intact chain verifies, an edit does not; exact first |
| config, models, fingerprints, dashboard | - | pure or read-only | - |

How they interact: the observer thread calls schedule(); each timer thread takes the
path's Pending under the debouncer's lock and puts a Task into the worker's queue outside
it; the worker thread hashes, writes the cache and calls core.submit(); the intake's thread
calls core.submit() too; the core's thread posts. On the server every POST is an `async def`
handler that awaits the body and is then synchronous, so the event loop runs the repository
calls of one request without another request in between; a call can still fail, and the
process can die, between two of them.

The hard behaviours: timers that `cancel()` misses; deliveries past the lock in any order;
files that change or vanish between exists(), hashing and the report; renames inside the
debounce window; shutdown with work in flight; crash and restart with a persistent cache;
requests that time out and arrive later; partial failure of a multi-call request on a
connection where nobody rolls back; two producers, a single-threaded intake and one core
stopped in an order, with Ctrl-C anywhere in it. `PROJECT.json` lists each hazard at its line with the
properties that cover it.

## 2. The modules

| Module | Models | How |
|---|---|---|
| `LatestSlot` | the debouncer's promise | abstract: one slot per path with the newest value; take, hand over, clear |
| `Debouncer` | `debouncer.py` | every lock section an action, every timer thread a small automaton; refines `LatestSlot` |
| `DebouncerProofs` | - | theorems about `Debouncer` |
| `FileAgent` | `watcher.py`, `worker.py`, `cache.py`, `scanner.py`, their start and stop by `main.py` | composes handler, debouncer (through `LatestSlot`'s operations), worker, cache, scan, life cycle and crash with the folders as environment |
| `Egress` | `core.py`, `sender.py`, the server as the sender sees it | one POST per attempt on a wire that delays, loses and reorders |
| `CoreQueue` | `core.py`'s contract with the threads that submit | abstract: one queue, decided front to back until the sentinel, and what submitters owe it: one close, behind everything submitted |
| `Delivery` | the core's promise with the server at its end | abstract: `CoreQueue` plus the server's rows and what an acknowledgement means; `Egress` implements it |
| `Connector` | `bridge_handler.cpp`'s JSON, `connector/agent.py`'s fingerprint and answer, `mapping.py` | operators |
| `Host` | `main.py`, `connector/agent.py`'s server, `bridge_handler.cpp`'s handler and threads | composes `Connector`, the core (as `CoreQueue`) and the file agent's worker thread with Chrome and Ctrl-C as environment |
| `HashChain` | `chain.py`, the event row of `repository.py` | operators |
| `Matching` | `matching.py`, `best_trace_match` | operators |
| `TraceServer` | `repository.py`, `services/`, the routes of `api.py` | one action per repository call of the POST route, the GET routes as operators over the tables; uses `HashChain` and `Matching` |
| `FileAgentProofs`, `EgressProofs`, `HostProofs`, `HashChainProofs`, `TraceServerProofs` | - | theorems about these modules |
| `MC*` | - | constants for TLC |

### Debouncer

The k-th schedule() makes the k-th Pending and the k-th Timer, so one number names both;
`_timers` and `_pending` are `timers` and `pending`, with `None` for a missing key. `phase[k]`
is where timer thread k is: `armed` (waiting), `elapsed` (run() has tested its flag),
`firing` (out of the lock with a Pending in `taken[k]`), `done`, `cancelled`. Splitting
`Elapse` from `Fire` is what lets `cancel()` come too late; splitting `OnFire` from `Fire`
is what lets two deliveries of one path overtake each other. `stopped` stands for
`Watcher.stop`'s order (observer joined, then cancel_all): no schedule() afterwards.

### FileAgent

`files` are the folders, `events` watchdog's queue, `slot`/`held` the debouncer, `queue` and
`job` the worker, `cache` the SQLite rows, `life` the host's progress. `Begin` is the first
half of `Worker.process` (pop moved_from, exists(), the deleted branch's pop), `Hash` or
`HashFails` the read and the cache row, `Report` the core.submit(). The file may change
between any two. A fingerprint is the content it was computed from. The Pending's
event_type is left out because no code reads it; the label of a report comes from moved_from
and the cache. `CacheFails` is a database that raises in any call of `process`: the task is gone,
its earlier calls and a half-done commit may stay. `told` records what the core was last told
about a name: a report tells of the task's own path alone, for the worker sends no metadata, so a
`moved` event says nothing of the old name. `renamed` collects the names whose file was last
reported under another one. Every change of a folder has one watchdog event; a rename arrives as a
move.

The code has known gaps: a rename replaced in the debounce window or leading to an ignored
name leaves the old name's row; a rename processed after its old name was refilled removes
the new row; a file that could not be opened is dropped; a file that vanished while nobody
watched, or whose work was under way when the agent stopped or crashed, keeps its row. The
history variables `excused` and `locked` collect exactly the names these happened to, at the
step where it happens, and hashing a name (or scanning it) takes it out again, unless a rename
away from it is still under way. So the properties hold for all other names, and they say that
every gap is mended by the next hashing; `agent_skip` shows one of them. A gap of the protocol is
`renamed`: nobody tells the core that a renamed file's old name is gone, so QuietReported does not
promise it, a file that turns up there later is `created` although the core still holds the name
(LabelsTellNews), and `agent_rename` shows the design promised otherwise.

### Egress

Events are numbered as submitted. The client thread posts, waits for an answer, and gives
an attempt up at any time (its timeout). A given-up POST stays on `wire` and may be handled
at any later time. `ServerFails` may leave a row behind: record_event commits the event
before its later calls can fail. `Submit` stops with `stop()`, as `main()` stops the intake
and joins the worker before it stops the core. `Host` shows that it does: its `KeepsContract` is
`CoreQueue`'s specification, and `Delivery`'s `Enqueue` is the same contract's `Submission`.

`Promise` is the refinement mapping to `Delivery`: the event in the sender's hands is the front
of the abstract queue, posts on the wire are rows that may still arrive, a retry is a stutter.

### Connector and Host

A request of Chrome is a record of the fields the program decides by; `Empty` and `Null` differ,
and `BuildJson` is where the bridge turns one into the other. `HandleRequest` gives the answer and
the event, if any. In `Host`, `main` walks through `StartOrder` and `StopOrder`: each stop is a
`Tell` (flag or sentinel) and an `Await` (the join). `StartFails`, `Interrupt` and `InterruptAgain` are
the exceptions; only the loop is inside the try. A POST (`post[r]`) is a thread in the bridge,
then an open connection in the intake's `backlog`, `whole` once its body is sent, `late` or `cut`
when the bridge's side is gone, and `ok`, `error` or `lost` in the end. `chrome[r]` is Chrome's view.
`request[r].file` is what Chrome saw in the file, `disk[r]` everything it has been since: `Rewrite` changes
it at any time until the intake has read it, to another content, to nothing or to something that cannot
be read, and the intake reads the last of these. So what is submitted may differ from what Chrome
analysed (`host_digest`), but it is one of the things the file was (SubmittedIffTraceable). The file agent is its worker: it may submit until it is told to stop.

### HashChain, Matching, TraceServer

SHA-256 is injective: a record hash is the tuple of what it was computed from. The payload
is one value, `data`, plus the metadata, which goes through JSON text: `Stored` is what the
column gives back, and loses `{}`. `db` is what the one connection sees, `durable` what a
restart finds. A call that raises leaves `db` after any of its statements, or rolled back by
SQLite to `durable`, for the code has no rollback; the next commit of any request makes the
leftovers durable. `Turn` is the event loop: one handler at a time. Hand edits come once,
after the last request, to check verify_chain. The GET handlers have no await and change nothing,
so each is an operator on a view of the tables (`GetEvents`, `GetSuperviseFileEvents`,
`GetSuperviseFiles`), and what a 200 promises is stated by what they would answer from `durable`.
Baselines carry the fingerprint the server computes (`Prints`); events carry what clients send
(`EventPrints`), which is any digest with any fuzzy hash: none at all, as the intake sends with Chrome's
digest, one of another content, or something ppdeep cannot parse, for which `find_matches` raises
(`FindRaises`) once there is a baseline to compare with, after the event and its url have been committed.
The contents of the instance have equal ssdeep hashes, as different files can. Hand edits of `metadata` are
limited to values the repository writes: NULL put back as `{}` on a row that was hashed over `{}` would
mend that row.

## 3. The runs

| Run | Checks | Instance |
|---|---|---|
| `debouncer` | TypeOK, NoLostPending, FiredOnce, NothingTakenAfterCancel, EveryPendingResolved, ImplementsSlots | 2 paths, 4 schedule() calls, 45 thousand states |
| `debouncer_quiet` (violated) | FiresOnlyAfterQuiet | 2 paths, 3 calls |
| `agent_safety` | TypeOK, QuietCacheExact, IgnoredStaysOut, QuietReported, LabelsTellNews | 2 names + 1 ignored, 2 contents, 4 changes, starts and cache failures together, 3 million states up to symmetry |
| `agent_liveness` | Settles, StopTerminates | 2 names, 1 content, 4 changes, starts and cache failures, 0.3 million states |
| `agent_skip` (violated) | SkippedOnlyIfNeverSeen | 2 names, 3 changes and starts |
| `agent_rename` (violated) | RenamesAreTold | 2 names, 1 content, 3 changes and starts |
| `egress` | TypeOK, AckedIsRecorded, AckedInOrder, BoundedDelivery, StopDrains, EveryEventDecided, ImplementsDelivery | 3 events, 1 retry, 0.14 million states |
| `host` | TypeOK, NothingBehindSentinel, CleanExitDelivers, SubmittedIffTraceable, KeepsContract, EveryPostHandled, StopCompletes | 1 request of an odd kind (also without digest, with an empty or malformed url), 1 in order, 1 file event, a file that is emptied or locked while its POST is under way, 0.42 million states |
| `host_digest` (violated) | FingerprintIsWhatChromeSaw | as `host` |
| `server` | TypeOK, ChainSound, AckedEventShown, ExactMatchBacked, AckedVersionKept, RowEditDetected, SavedStays | 3 requests, 2 names, 3 contents (one empty), 7 event bodies (a digest alone and a garbled fuzzy hash among them), a limit of 2 listed events, 0.29 million states up to symmetry |
| `server_empty_metadata` (violated) | IntactChainVerifies | as `server` |
| `server_exact_first` (violated) | ExactFirst | as `server` |

Why these bounds are enough to be interesting: four calls on two paths let a late timer, the
timer it robs, that timer's own _fire and a later schedule() meet, on one path while the
other is in the same state. Four changes and starts allow start, rename, refill and delete,
or start, change, crash, start. One retry already gives a late first attempt beside a second
one, and three events let a duplicate fall between two others. Three requests allow a
registration, a replacement that fails halfway, and an event that commits the leftovers. Two
browser requests and one file event let a POST wait behind one that is malformed, cut or late
while the worker submits and the host stops.
The bounds are constants (`MaxSchedules`, `Budget`, `MaxEvents`, `Retries`, `Requests`, `Events`, `Analyses`, `Versions`) and
appear only in guards and index sets; `Retries` is 2 in the code, `EventLimit` 100.

No run checks for deadlock: the debouncer, the agent, the core and the server all may rest
when nobody calls them, the host ends, and the bounded instances end.

What the violated runs show (details under "findings" in `PROJECT.json`):

- `debouncer_quiet`: a timer whose interval ends while schedule() runs takes the new event
  at once, without the quiet period the docstring promises. Nothing is lost by it. QuietUnlessInBetween
  shows that there is no other reason: as long as no schedule() of the path comes between the end of an
  interval and that timer's _fire, every delivery comes after a quiet period.
- `agent_skip`: rename a known file and delete it within the debounce window, and its deletion
  is skipped as "never seen".
- `agent_rename`: after a rename the core still holds the file under its old name, for the worker does
  not send the `moved_from` of the design.
- `host_digest`: a file that changed between Chrome's question and the intake's read is reported with its
  new content; the digest that would show it is not compared.
- `server_empty_metadata`: one event with `metadata: {}` makes an untouched chain fail.
  IntactIsAccepted shows that in the model nothing else does (section 5 names what it leaves out:
  numbers in text fields).
- `server_exact_first`: a fuzzy 100 on an older baseline is listed before the exact match. ExactFirstBoundary
  shows that the claim holds in exactly the states without such a list.

Two findings have no run, because one line of the code decides them: the design's one re-queue of a locked
file is not in the worker, which logs and drops the task; and the url that is displayed is read from
`web_event_detail`, which verify_chain never reads, although the design says altering a url breaks the chain.

### Fairness

Weak fairness of single threads only. Debouncer: each timer thread's next step (`Elapse`,
`Fire`, `OnFire`), as the operating system schedules threads and the lock is held for a few
dictionary operations; nobody has to call schedule() or cancel_all(). FileAgent: the observer
dispatches, timers fire and submit, the worker's thread and the main thread's begun start or
stop go on; no fairness for file changes, starting, stopping or crashing, and the
worker's fairness does not say that hashing succeeds. Egress: the core's thread, whose client
has a 5 s timeout, so an attempt that gets no answer ends; none for the network or the server.
`Delivery` asks for fairness of its own progress, which the run shows `Egress` to have. Host: the main
thread (a start or stop it has begun), the intake's thread, the worker's end once told and the
core's thread (what FileAgent and Egress show of them), and the bridge's POST threads;
nobody must ask, rewrite a file, interrupt, record or give up. That a POST's thread sends the body it announced is an
assumption on the client: the intake's read has no time limit, and a silent client would hold up
every later POST and the host's stop.

## 4. The proofs

Six modules hold the theorems; tlapm checks every step of them. Each state invariant is
proved from one inductive invariant per module, `IInv` (in `DebouncerProofs` also `FInv`), with one lemma
per action, and each of these invariants was checked by TLC on the runs' instances before it was
proved. A run shows a property on a small instance; the theorem has no bound on it: any
set of names, contents or requests, any number of events, retries, changes, failures and
restarts. (The bounds that appear in guards, `MaxSchedules`, `Budget`, `MaxEvents`, `Retries`, stand for
any natural number.)

| Module | Theorem | States |
|---|---|---|
| `DebouncerProofs` | TypeCorrect | `[]TypeOK` |
| | PendingHasItsTimer | `[]NoLostPending` |
| | CancelIsFinal | `NothingTakenAfterCancel` |
| | FiredAtMostOnce | `[]FiredOnce` |
| | SlotsImplemented | `ImplementsSlotsSafely`: every step is a step or a stutter of `LatestSlot` |
| | QuietUnlessInBetween | `[]FiresOnlyAfterQuiet` of every behaviour (`UnhurriedSpec`) in which no schedule() falls between `Elapse` and `Fire` of its path |
| `FileAgentProofs` | TypeCorrect | `[]TypeOK` |
| | CacheIsExact | `[]QuietCacheExact` |
| | ReportsAreCurrent | `[]QuietReported` |
| | LabelsAreNews | `LabelsTellNews` |
| | IgnoredNamesStayOut | `[]IgnoredStaysOut` |
| `EgressProofs` | TypeCorrect | `[]TypeOK` |
| | AckMeansRow | `[]AckedIsRecorded` |
| | OrderOfFirstRows | `[]AckedInOrder` |
| | RowsBounded | `[]BoundedDelivery` |
| | EndMeansDrained | `[]StopDrains` |
| | DeliveryImplemented | every step is a step or a stutter of `Delivery` |
| `HostProofs` | TypeCorrect | `[]TypeOK` |
| | SentinelIsLast | `[]NothingBehindSentinel` |
| | CleanExitMeansDecided | `[]CleanExitDelivers` |
| | BrowserEventsTraceable | `[]SubmittedIffTraceable` |
| | ContractIsKept | `KeepsContract`: every step is one of `CoreQueue` or a stutter |
| `HashChainProofs` | ChangeIsFound | a changed field in a chain of any length makes verify_chain fail |
| | DeletionIsFound | so does a deleted row that had a successor |
| | ChangeIsLocated | verify_chain names the changed row |
| | RewriteIsLocated | a row with a new hash that fits is betrayed by the row behind it |
| | DeletionIsLocated | verify_chain names the row that took the deleted one's place |
| | TruncationVerifies | the newest rows can be missing and the rest verifies |
| `TraceServerProofs` | TypeCorrect | `[]TypeOK` |
| | EventsAreChained | `[]ChainSound` |
| | IntactIsAccepted | verify_chain accepts a file that nobody edited, unless a row was hashed over empty metadata |
| | EditsAreDetected | `[]RowEditDetected` |
| | ExactMatchesAreBacked | `[]ExactMatchBacked` |
| | RegistrationsSurvive | `[]AckedVersionKept` |
| | AnswersSurvive | `[]AckedEventShown` |
| | NothingSavedIsLost | `SavedStays` |
| | BestIsExact | the first of a match list with an exact match is exact, unless a fuzzy 100 is on a baseline older than that of every exact one |
| | ExactFirstBoundary | `ExactFirst` in exactly the states without such a list |

### The inductive invariants

**Debouncer.** NoLostPending is not inductive: _fire() removes the path's keys without knowing whose
they are, and to see that this removes no live timer's registration one needs that the two
dictionaries always agree. `IInv` adds `Numbered` (numbers up to `scheduled` are in use, each with its
path) and `Registered` (`timers = pending`, and both empty after cancel_all). `FInv` adds `Popped`: what a
thread holds is in no slot, and what was delivered is neither held nor in a slot.
QuietUnlessInBetween needs an invariant of its own, `OwnTimers`: without a schedule() in between, a timer that
can still fire is the registered one of its path, so each takes the Pending it was started for. With one
in between, the late timer's _fire also orphans the newer timer, whose own _fire then finds nothing.

**FileAgent.** The properties speak of quiet states only, so they say nothing about the steps between.
`IInv` says what is true in the middle of the work: every difference between a file and its
row (`CacheFollows`), or what was last told of it (`ToldFollows`), has something under way that will mend
it: an event, a Pending, a task with the name (`PendingPaths`), a move away from it (`Sources`), or
the worker's own step. When nothing is under way no difference is left. A move may be processed late; that
this does no harm that is not noted needs `SourcesGone` (a name still to be forgotten is gone, or noted as
refilled) and `JobOK` (what the worker is about to tell is in the cache, and true or comes up again).
`KnownIsTold`, the cache has a row exactly of the names the core knows, makes the labels right.
`Phases` and `TasksOK` say what can be under way at all: nothing before the start and while scanning, no name
moved to itself. IgnoredStaysOut has its own small one on top, `KeptOut`: no Pending, task or job has an ignored
name as its path. Moves away from ignored names are let through, and only take rows out.

**Egress.** AckedInOrder fails to be inductive because of POSTs that are still on the wire. Events are taken from
the queue in the order of their numbers, so the last one taken tells everything about the past
(`Orderly`, `DecidedInOrder`), no POST of a later event exists (`PostsOfThePast`), and no attempt is
posted twice (`PostedOnce`), which bounds the rows. `AnsweredIsRecorded` carries a row from the server's
answer to the acknowledgement; `FirstRows` says an acknowledged event has a row in front of all rows of later
events, and rows are only added behind. The same invariant maps every step to one of `Delivery`, a submission or stop() to one
that finds the queue open.

**Host.** A part is told to stop when those before it have ended, the core last (`StopsInOrder`), and the core
runs until then (`CoreRuns`); so nobody who could submit is left when the sentinel is queued, and it stays the
last element (`Closed`), with everything in front of it kept until decided (`Kept`). That the intake
submits what it says it does needs that no connection is in two places (`Connections`) and that
nothing is posted before Chrome asks, and that a file that was asked about has been something
(`BrowserSide`). BrowserEventsTraceable is kept by a rewrite because the set of what the file was only
grows, and because no file changes once its request has been read or given up. From the same invariant every step of the host is one of
`CoreQueue` (ContractIsKept): the queue is open while a producer is left and until main() tells the core to
stop. `Egress` is proved under exactly this contract, so what it shows of delivery, order and duplicates holds of
what the host submits.

**HashChain, TraceServer.** `Chain` says of rows of any length that each is linked and as add_event wrote it,
and that no two have the same record_hash: a new row's hash contains the one before, so if
it equalled an older one, the hashes before the two would be equal already. Without this a deletion could
go unnoticed. In the server a failed call leaves statements that a later commit of any request makes durable,
so everything is stated of both views, `db` and `durable` (`ViewOK`), and proved of every table state a call goes
through. `Underway` (between two calls of a handler both views are the same and no other handler runs)
lets a handler go on from what its last call committed; `RequestsOK` and `IdsDiffer` keep the requests apart.
SavedStays is about two states, and rests on `Ahead`: what the connection sees has every row of what a
restart would find (`Survives`), however many failed calls left something in it, so no later commit can lose one.
`Survives` is transitive and every stage of a call has it; the stage that would not is an UPDATE of a
baseline before its version is archived, which is the mutant of this property. ExactFirstBoundary
rests on `MatchLists`: every request's list is one of find_matches, rated as it rates.
That verify_chain names the right row, and not only some row, needs that no row in front was hashed over `{}`
(`ReadBack`): such a row breaks the chain first.

### What the proofs assume

`MaxSchedulesAssumption`, `EgressAssumption`, `BudgetAssumption`: the bounds are natural numbers.
`NamesAssumption`: ignored names are names, and `None` (no moved_from) is not one. `HostAssumption`,
`ConnectorAssumption`: Python's None, JSON's null and the queue's sentinel differ from
the values next to them. `SimilarityAssumption`: ppdeep.compare answers 0 to 100, as `fingerprint.py` says, if it
can parse the client's fuzzy hash; nothing else is assumed of ssdeep, and nothing of what clients send. SHA-256 is taken as injective by the
models. TLC evaluates each assumption in the runs.

### Only model-checked

- Liveness (EveryPendingResolved, Settles, StopTerminates, EveryEventDecided, EveryPostHandled,
  StopCompletes) and the fairness parts of ImplementsSlots and ImplementsDelivery: the prover handles neither
  fairness nor ENABLED here.
- The violated properties, which are false.

Induction over data is out of the prover's reach, so "verify_chain accepts every chain built by add_event,
of any length" is proved as an invariant of the server (ChainSound), not about a function.

## 5. Not modelled

- source_hint, names, sizes and times of events; dst_host and tab_title, which only travel along.
- `_migrate`; SQLite's text affinity for numbers that a client sends in text fields (they are read
  back as text, so such a row fails verification as one with `{}` does); `list_update_history`, which
  only tests call.
- Threads inside the server: the route handlers share one event loop. The repository's lock
  would matter only with worker threads.
- A crash of the client inside `Egress` and `Host`: the queue is in memory, so what was not posted is
  lost. `FileAgent` has it, because the cache survives.
- A client of the intake that announces a body and stays silent (see Fairness).
- Configuration: a sequential validation; that it can raise is a step of `Host`. Two values it lets
  through matter elsewhere: a malformed server_url makes every post raise (`Egress`, `Raise`), and
  JSON escaping of the bridge only shapes strings.
- Data classes beyond their fields, the static page, scratch scripts, tests.

## 6. Plan

1. Done: `Debouncer` with `LatestSlot` and proofs; `FileAgent` with labels and a failing cache; `Egress`,
   `CoreQueue` and `Delivery` with the refinement; `Connector` and `Host`; `HashChain`, `Matching`,
   `TraceServer` with its readers.
2. Done: every safety property that a passing run checks is a theorem.
3. Done: the queue's contract between `Host` and `Egress`, the exact boundaries of two of the violated
   runs (`debouncer_quiet`, `server_exact_first`), where verify_chain points and what it cannot see, and that
   the server takes nothing back that it has saved.
4. Left to TLC: liveness (section 4). A next step would be the bridge with its SDK,
   once the SDK is in the repository, and idempotency keys, if the sender gets them.
