----------------------------- MODULE FileAgent ------------------------------
(***************************************************************************)
(* client/agent: the file system agent from the watched folders to the     *)
(* events it submits to the collector core, with its persistent cache,     *)
(* start, stop and crash.                                                  *)
(*                                                                         *)
(*   folders -> observer -> _Handler -> Debouncer -> Worker -> core.submit *)
(*                                                      |                  *)
(*                            initial_scan ->  FingerprintCache            *)
(*                                                                         *)
(* The debouncer is used through what it promises (module LatestSlot,      *)
(* implemented by module Debouncer).  A fingerprint is the content it was  *)
(* computed from.  A Pending's event_type is left out: no code reads it,   *)
(* Worker.process decides from the file's existence and from the cache.    *)
(* The cache's database may fail.                                          *)
(***************************************************************************)
EXTENDS Naturals, Sequences

CONSTANTS
    Paths,       \* file names below the watched folders
    Ignored,     \* the names ignore_globs matches
    Contents,    \* file contents
    Gone,        \* no such file; no such cache row
    NoPath,      \* moved_from = None
    Budget       \* bound: changes to the folders, starts and cache failures together

ASSUME NamesAssumption == Ignored \subseteq Paths /\ NoPath \notin Paths

ASSUME BudgetAssumption == Budget \in Nat

Tasks == [n : 1 .. Budget, path : Paths, from : Paths \cup {NoPath}]
NoTask == [n |-> 0, path |-> NoPath, from |-> NoPath]
Sentinel == [NoTask EXCEPT !.n = Budget + 1]

VARIABLES
    files,     \* the watched folders: [Paths -> Contents \cup {Gone}]
    changes,   \* changes and cache failures so far
    events,    \* watchdog events not dispatched yet: sequence of [path, from]
    slot,      \* the debouncer: the Pending kept for each path, as a Task
    held,      \* the debouncer: Tasks between _fire's lock and worker.submit
    calls,     \* calls of schedule() in this run of the agent
    queue,     \* Worker._queue
    job,       \* the worker thread: [at, task, report, label]
    cache,     \* the SQLite cache, kept across runs
    life,      \* where the host is in starting and stopping the agent
    starts,    \* starts of the agent so far
    unscanned, \* files initial_scan has not come to yet
    told,      \* told[p]: what the core was last told of p, or the scan took for granted
    watched,   \* paths whose last change the running observer saw
    renamed,   \* names the last report of which took their file to another name: the
               \* report names only the destination
    excused,   \* paths that a known gap of the code may have left wrong in the cache or
               \* unreported, until they are hashed again
    locked     \* paths whose task failed because the file could not be opened, or with
               \* the cache's database, until they are hashed again

debouncer == <<slot, held, calls>>
ghosts == <<told, renamed, watched, excused, locked>>
host == <<life, starts, unscanned>>
vars == <<files, changes, events, debouncer, queue, job, cache, host, ghosts>>

Slots == INSTANCE LatestSlot WITH Values <- Tasks, None <- NoTask, out <- queue

Idle == [at |-> "idle", task |-> NoTask, report |-> Gone, label |-> "none"]

TypeOK ==
    /\ files \in [Paths -> Contents \cup {Gone}]
    /\ events \in Seq([path : Paths, from : Paths \cup {NoPath}])
    /\ slot \in [Paths -> Tasks \cup {NoTask}]
    /\ held \subseteq Tasks
    /\ queue \in Seq(Tasks \cup {Sentinel})
    /\ job \in [at : {"idle", "hash", "submit", "ended"},
                task : Tasks \cup {NoTask}, report : Contents \cup {Gone},
                label : {"none", "created", "modified", "moved", "deleted"}]
    /\ job.at = "submit" => (job.label = "deleted" <=> job.report = Gone)
    /\ cache \in [Paths -> Contents \cup {Gone}]
    /\ life \in {"down", "scanning", "running", "unwatched", "cancelled", "joining"}
    /\ unscanned \subseteq Paths
    /\ told \in [Paths -> Contents \cup {Gone}]
    /\ renamed \cup watched \cup excused \cup locked \subseteq Paths

Init ==
    /\ files \in [Paths -> Contents \cup {Gone}]
    /\ changes = 0
    /\ events = <<>> /\ slot = [p \in Paths |-> NoTask] /\ held = {} /\ calls = 0
    /\ queue = <<>> /\ job = Idle
    /\ cache = [p \in Paths |-> Gone]
    /\ life = "down" /\ starts = 0 /\ unscanned = {}
    /\ told = [p \in Paths |-> Gone]
    /\ renamed = {} /\ watched = {} /\ excused = {} /\ locked = {}

-----------------------------------------------------------------------------
(* The watched folders.  The observer queues an event for every change it   *)
(* sees; a change while it is not running leaves no event.                  *)

\* The paths some undone piece of work would take out of the cache as moved_from.
PendingSources ==
    LET todo == {events[i] : i \in DOMAIN events} \cup {slot[p] : p \in Paths} \cup held
                  \cup {queue[i] : i \in DOMAIN queue}
    IN  {w.from : w \in todo}

Notice(p, from) ==
    /\ changes + starts < Budget
    /\ changes' = changes + 1
    /\ IF life = "running"
       THEN /\ events' = Append(events, [path |-> p, from |-> from])
            /\ watched' = watched \cup ({p, from} \cap Paths)
            \* the move that emptied p may be processed after what refills it
            /\ excused' = excused \cup (IF files'[p] # Gone THEN {p} \cap PendingSources ELSE {})
                                  \cup (IF p \in Ignored THEN {from} \cap Paths ELSE {})
       ELSE /\ watched' = watched \ {p, from}
            /\ excused' = excused \cup ({p, from} \cap Paths)
            /\ UNCHANGED events
    /\ UNCHANGED <<debouncer, queue, job, cache, host, told, renamed, locked>>

\* A file is created or overwritten.
Write(p, c) ==
    /\ files[p] # c
    /\ files' = [files EXCEPT ![p] = c]
    /\ Notice(p, NoPath)

Delete(p) ==
    /\ files[p] # Gone
    /\ files' = [files EXCEPT ![p] = Gone]
    /\ Notice(p, NoPath)

Move(p, q) ==
    /\ p # q /\ files[p] # Gone
    /\ files' = [files EXCEPT ![p] = Gone, ![q] = files[p]]
    /\ Notice(q, p)

-----------------------------------------------------------------------------
(* _Handler and the debouncer *)

\* _Handler.on_created, on_modified, on_deleted, on_moved: events of ignored names
\* are dropped, a move is judged by its destination only.
DispatchIf(keep) ==
    LET e == Head(events)
        t == [n |-> calls + 1, path |-> e.path, from |-> e.from]
    IN
    /\ life = "running" /\ events # <<>>
    /\ events' = Tail(events)
    /\ IF keep
       THEN /\ Slots!Put(e.path, t)
            /\ calls' = calls + 1
            \* replacing a waiting move forgets its moved_from
            /\ excused' = excused \cup ({slot[e.path].from} \cap Paths)
       ELSE UNCHANGED <<debouncer, queue, excused>>
    /\ UNCHANGED <<files, changes, job, cache, host, told, renamed, watched, locked>>

\* Mutant of _Handler: a move is judged by its source.
DispatchFiltersSource ==
    LET e == Head(events) IN
    DispatchIf((IF e.from = NoPath THEN e.path ELSE e.from) \notin Ignored)

Dispatch == DispatchIf(Head(events).path \notin Ignored)

\* A timer fires: the path's Pending is taken under the debouncer's lock ...
Fire(p) ==
    /\ life # "down"
    /\ Slots!Take(p)
    /\ UNCHANGED <<files, changes, events, calls, job, cache, host, ghosts>>

\* ... and is put into the worker's queue as a Task.
SubmitAs(t, task) ==
    /\ life # "down" /\ t \in held
    /\ held' = held \ {t}
    /\ queue' = Append(queue, task)
    /\ UNCHANGED <<files, changes, events, slot, calls, job, cache, host, ghosts>>

\* Mutant of on_fire: Task's arguments are swapped.
SubmitSwapped(t) == SubmitAs(t, [t EXCEPT !.path = t.from, !.from = t.path])

\* build_watcher's on_fire: worker.submit(Task(...)).  This is the debouncer's
\* Slots!HandOver(t).
Submit(t) == SubmitAs(t, t)

-----------------------------------------------------------------------------
(* Worker *)

\* _run takes the sentinel and ends the thread.
WorkerEnds ==
    /\ job.at = "idle" /\ queue # <<>> /\ Head(queue) = Sentinel
    /\ queue' = Tail(queue)
    /\ job' = [Idle EXCEPT !.at = "ended"]
    /\ UNCHANGED <<files, changes, events, debouncer, cache, host, ghosts>>

\* The row process() takes out of the cache because the task is a move.
WithoutSource(t) ==
    IF t.from = NoPath THEN cache ELSE [cache EXCEPT ![t.from] = Gone]

\* process(): forget moved_from, then let the file's existence decide.  A missing
\* file's row is taken out of the cache for the deletion's report; without a row
\* there is nothing to report.  Nothing reports a source whose destination is gone.
BeginWith(cache1) ==
    LET t == Head(queue) IN
    /\ job.at = "idle" /\ queue # <<>> /\ Head(queue) # Sentinel
    /\ queue' = Tail(queue)
    /\ \/ /\ files[t.path] # Gone
          /\ cache' = cache1
          /\ job' = [Idle EXCEPT !.at = "hash", !.task = t]
          /\ UNCHANGED excused
       \/ /\ files[t.path] = Gone /\ cache1[t.path] # Gone
          /\ cache' = [cache1 EXCEPT ![t.path] = Gone]
          /\ job' = [Idle EXCEPT !.at = "submit", !.task = t, !.label = "deleted"]
          /\ excused' = excused \cup ({t.from} \cap Paths)
       \/ /\ files[t.path] = Gone /\ cache1[t.path] = Gone
          /\ cache' = cache1
          /\ excused' = excused \cup ({t.from} \cap Paths)
          /\ UNCHANGED job
    /\ UNCHANGED <<files, changes, events, debouncer, host, told, renamed, watched, locked>>

\* Mutant of process(): moved_from stays in the cache.
BeginKeepsSource == BeginWith(cache)

Begin == BeginWith(WithoutSource(Head(queue)))

\* fingerprint_file() reads the file as it is now, the cache row is committed.  This
\* mends the row, unless a move from this name is still to be processed.
HashAs(label) ==
    LET p == job.task.path
        mended == {p} \ PendingSources
    IN
    /\ job.at = "hash" /\ files[p] # Gone
    /\ cache' = [cache EXCEPT ![p] = files[p]]
    /\ job' = [job EXCEPT !.at = "submit", !.report = files[p], !.label = label]
    /\ excused' = excused \ mended /\ locked' = locked \ mended
    /\ UNCHANGED <<files, changes, events, debouncer, queue, host, told, renamed,
                   watched>>

\* Mutant of process(): was_known is asked after the row was put.
HashThenAsk == HashAs(IF job.task.from # NoPath THEN "moved" ELSE "modified")

\* A move, a path the cache knew, or a new one.
Hash == HashAs(CASE job.task.from # NoPath -> "moved"
                 [] job.task.from = NoPath /\ cache[job.task.path] # Gone -> "modified"
                 [] OTHER -> "created")

HashFailsTo(next) ==
    LET t == job.task IN
    /\ job.at = "hash"
    /\ locked' = locked \cup ({t.path} \cap {p \in Paths : files[p] # Gone})
    /\ excused' = excused \cup ({t.from} \cap Paths)
    /\ job' = next
    /\ UNCHANGED <<files, changes, events, debouncer, queue, cache, host, told, renamed, watched>>

\* Mutant of process(): the OSError escapes and ends the thread.
HashFailsFatally == HashFailsTo([Idle EXCEPT !.at = "ended"])

\* OSError: the file vanished since exists(), or another program has it open.  The
\* task is logged and dropped.
HashFails == HashFailsTo(Idle)

\* The cache's database raises in pop(moved_from), get, pop(path) or put: _run logs
\* it and the task is gone, with what its earlier calls did to the cache, and also
\* what a failed commit leaves for the next one.
CacheFails ==
    LET begins == job.at = "idle" /\ queue # <<>> /\ Head(queue) # Sentinel
        t == IF begins THEN Head(queue) ELSE job.task
        earlier == IF begins THEN {cache, WithoutSource(t)} ELSE {cache}
    IN
    /\ changes + starts < Budget
    /\ changes' = changes + 1
    /\ begins \/ job.at = "hash"
    /\ queue' = IF begins THEN Tail(queue) ELSE queue
    /\ job' = Idle
    /\ \E c \in earlier : cache' \in {c, [c EXCEPT ![t.path] = files[t.path]]}
    /\ excused' = excused \cup ({t.path, t.from} \cap Paths)
    /\ locked' = locked \cup {t.path}
    /\ UNCHANGED <<files, events, debouncer, host, told, renamed, watched>>

\* core.submit(TraceEvent): created, modified or moved with the fingerprint just
\* taken, or deleted with the one that was in the cache.  The event has the name of
\* the task's path and no metadata, so a move tells nothing of its source.
Report ==
    LET t == job.task IN
    /\ job.at = "submit"
    /\ told' = [told EXCEPT ![t.path] = job.report]
    /\ renamed' = (renamed \cup (IF job.label = "moved" THEN {t.from} \cap Paths ELSE {}))
                     \ {t.path}
    /\ job' = Idle
    /\ UNCHANGED <<files, changes, events, debouncer, queue, cache, host, watched,
                   excused, locked>>

-----------------------------------------------------------------------------
(* The host starts, stops and loses the agent *)

\* main(): the process starts; the cache file is the one the last run left.
Start ==
    /\ life = "down" /\ changes + starts < Budget
    /\ life' = "scanning"
    /\ starts' = starts + 1
    /\ unscanned' = Paths
    /\ UNCHANGED <<files, changes, events, debouncer, queue, job, cache, ghosts>>

\* initial_scan() comes to a name: only files that are there and can be read get a
\* row; a row whose file is gone stays.
Scan(p) ==
    /\ life = "scanning" /\ p \in unscanned
    /\ unscanned' = unscanned \ {p}
    /\ \/ /\ files[p] # Gone /\ p \notin Ignored
          /\ cache' = [cache EXCEPT ![p] = files[p]]
          /\ told' = [told EXCEPT ![p] = files[p]]
          /\ renamed' = renamed \ {p}
          /\ excused' = excused \ {p}
          /\ locked' = locked \ {p}
       \/ /\ files[p] # Gone /\ p \notin Ignored    \* OSError: logged and skipped
          /\ excused' = excused \cup {p}
          /\ locked' = locked \cup {p}
          /\ UNCHANGED <<cache, told, renamed>>
       \/ /\ files[p] = Gone \/ p \in Ignored
          /\ UNCHANGED <<cache, told, renamed, excused, locked>>
    /\ UNCHANGED <<files, changes, events, debouncer, queue, job, life, starts, watched>>

\* Watcher.start(): worker and observer run.
Watch ==
    /\ life = "scanning" /\ unscanned = {}
    /\ life' = "running"
    /\ UNCHANGED <<files, changes, events, debouncer, queue, job, cache, starts,
                   unscanned, ghosts>>

\* What is under way about a path, whatever becomes of the process.
Unfinished ==
    {events[i].path : i \in DOMAIN events} \cup {p \in Paths : slot[p] # NoTask}
    \cup {t.path : t \in held} \cup {queue[i].path : i \in DOMAIN queue}
    \cup {job.task.path, job.task.from} \cup PendingSources

\* Watcher.stop(): the observer is stopped and joined, its queue is given up.
StopObserver ==
    /\ life = "running"
    /\ life' = "unwatched"
    /\ excused' = excused \cup (Unfinished \cap Paths)
    /\ watched' = {}
    /\ events' = <<>>
    /\ UNCHANGED <<files, changes, debouncer, queue, job, cache, starts, unscanned, told,
                   renamed, locked>>

\* Watcher.stop(): debouncer.cancel_all().
CancelAll ==
    /\ life = "unwatched"
    /\ life' = "cancelled"
    /\ Slots!Clear
    /\ UNCHANGED <<files, changes, events, calls, job, cache, starts, unscanned, ghosts>>

StopWorkerWith(items) ==
    /\ life = "cancelled"
    /\ life' = "joining"
    /\ queue' = queue \o items
    /\ UNCHANGED <<files, changes, events, debouncer, job, cache, starts, unscanned, ghosts>>

\* Mutant of Worker.stop(): join() without a sentinel.
StopWorkerWithoutSentinel == StopWorkerWith(<<>>)

\* Worker.stop(): the sentinel is queued behind the tasks.
StopWorker == StopWorkerWith(<<Sentinel>>)

\* The process is over: only the cache file is left.
Reset ==
    /\ life' = "down"
    /\ events' = <<>> /\ slot' = [p \in Paths |-> NoTask] /\ held' = {} /\ calls' = 0
    /\ queue' = <<>> /\ job' = Idle /\ unscanned' = {} /\ watched' = {}

\* Worker.stop(): join() returns once the thread has ended.
Joined ==
    /\ life = "joining" /\ job.at = "ended"
    /\ Reset
    /\ UNCHANGED <<files, changes, cache, starts, told, renamed, excused, locked>>

\* The process is killed at any point (of a run that is not the last one).
Crash ==
    /\ life # "down" /\ changes + starts < Budget
    /\ Reset
    /\ excused' = excused \cup (Unfinished \cap Paths)
    /\ UNCHANGED <<files, changes, cache, starts, told, renamed, locked>>

-----------------------------------------------------------------------------
Change ==
    \/ \E p \in Paths, c \in Contents : Write(p, c)
    \/ \E p \in Paths : Delete(p)
    \/ \E p, q \in Paths : Move(p, q)

Process == Begin \/ Hash \/ HashFails \/ CacheFails \/ Report \/ WorkerEnds

Shutdown == CancelAll \/ StopWorker \/ Joined

Next ==
    \/ Change
    \/ Dispatch
    \/ \E p \in Paths : Fire(p) \/ Scan(p)
    \/ \E t \in held : Submit(t)
    \/ Process
    \/ Start \/ Watch \/ StopObserver \/ Shutdown \/ Crash

SafetySpec == Init /\ [][Next]_vars

\* The main thread carries a start and a stop it has begun through; the observer
\* thread, the timer threads and the worker thread run.  Files need not change,
\* hashing need not succeed, nobody has to stop or start the agent.
Spec ==
    /\ SafetySpec
    /\ WF_vars(Dispatch)
    /\ \A p \in Paths : WF_vars(Fire(p)) /\ WF_vars(Scan(p))
    /\ WF_vars(Watch)
    /\ WF_vars(\E t \in held : Submit(t))
    /\ WF_vars(Process)
    /\ WF_vars(Shutdown)

-----------------------------------------------------------------------------
(* Properties *)

\* Nothing is under way in a running agent.
Quiet ==
    /\ life = "running" /\ events = <<>> /\ held = {} /\ queue = <<>> /\ job = Idle
    /\ \A p \in Paths : slot[p] = NoTask

\* Once a burst of changes has been worked off, the cache has exactly the rows of
\* the files that are there, with their contents: whatever the order in which
\* timers fired and tasks were queued, through renames, overwrites, vanishing files
\* and restarts.  The exceptions are the gaps of the code: a move that was replaced
\* in the debounce window or whose destination is ignored, a name refilled while
\* the move away from it is under way, a task whose file could not be opened or whose
\* cache call failed, and files that vanished while nobody watched; and these only
\* until the name is hashed again.
QuietCacheExact ==
    Quiet => \A p \in Paths \ (Ignored \cup excused \cup locked) : cache[p] = files[p]

\* Once a burst has been worked off, the last event sent for a changed file tells
\* its present content; the last one for a deleted file is its deletion, unless the
\* file was last renamed, which no event tells of the old name.
QuietReported ==
    Quiet => \A p \in watched \ (Ignored \cup locked) :
        /\ files[p] # Gone => told[p] = files[p]
        /\ files[p] = Gone /\ p \notin excused \cup renamed => told[p] = Gone

\* The exfiltration design, 5.3: a moved event's metadata is {moved_from}.  So once a
\* burst has been worked off, the core was told that a renamed file's old name is gone.
RenamesAreTold ==
    Quiet => \A p \in (watched \cap renamed) \ (Ignored \cup excused \cup locked) :
        files[p] = Gone => told[p] = Gone

\* A report's label says what is news about the file: created only of a name the core
\* did not know to exist, or whose file was renamed since; modified and deleted only of
\* one it did, through renames, vanishing files, failures and restarts.  The exceptions
\* are the gaps above.
LabelsTellNews ==
    [][\A p \in Paths \ (excused \cup locked) :
           job # job' /\ job'.at = "submit" /\ job'.task.path = p =>
               /\ job'.label = "created" => told[p] = Gone \/ p \in renamed
               /\ job'.label \in {"modified", "deleted"} => told[p] # Gone]_vars

\* Nothing of a name that ignore_globs matches reaches the cache or the core, whichever
\* way the name is moved to or from.
IgnoredStaysOut == \A p \in Ignored : cache[p] = Gone /\ told[p] = Gone

\* A started agent gets to watching and works every burst off, unless it is stopped.
Settles == <>[](Quiet \/ life = "down")

\* Watcher.stop() returns.
StopTerminates == life = "unwatched" ~> life = "down"

\* The client design, 6.5: a deletion is skipped only for a file that was never
\* seen.  So no skip while the cache remembers a vanished file that nothing under
\* way will account for.
SkippedOnlyIfNeverSeen ==
    [][life' = "running" /\ job = Idle /\ job' = Idle /\ queue # <<>> /\ queue' = Tail(queue)
       /\ changes' = changes =>    \* no failure of the cache
           \A q \in watched : cache'[q] # Gone => files[q] # Gone \/ q \in Unfinished'
      ]_vars

=============================================================================
