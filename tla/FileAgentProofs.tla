-------------------------- MODULE FileAgentProofs ---------------------------
(***************************************************************************)
(* What the file system agent guarantees for every set of names and        *)
(* contents and every number of changes, restarts and failures.            *)
(*                                                                         *)
(* The argument: every difference between a file and its cache row, or     *)
(* what was last told of it, has a piece of work under way that will mend  *)
(* it: a watchdog event, a Pending, a task with the name (PendingPaths) or *)
(* a move away from it (Sources), or the worker's own step.  Work is lost  *)
(* only where the history variables note it.  A name that is still to be   *)
(* forgotten as a move's source is gone from the folder, or noted as       *)
(* refilled (SourcesGone), so processing the move late does no harm that   *)
(* is not noted; and the cache has a row exactly of the names the core     *)
(* knows and were not renamed since (KnownIsTold), so the label chosen by  *)
(* the cache is the right one.                                             *)
(***************************************************************************)
EXTENDS FileAgent, TLAPS

\* The names in a queue, and those that its moves empty.
PathsIn(s) == {s[i].path : i \in DOMAIN s}
SourcesIn(s) == {s[i].from : i \in DOMAIN s}

\* Names of which an event, a Pending or a task is under way.
PendingPaths ==
    PathsIn(events) \cup {p \in Paths : slot[p] # NoTask}
    \cup {t.path : t \in held} \cup PathsIn(queue)

\* Names that such a move will take out of the cache.
Sources == PendingSources \cap Paths

Busy == job.at \in {"hash", "submit"}

\* The phases of the host: after a stop nothing is watched, before the start and while
\* scanning nothing is under way.
Phases ==
    /\ changes \in Nat /\ starts \in Nat /\ calls \in Nat
    /\ changes + starts <= Budget /\ calls + Len(events) <= changes
    /\ life # "running" => events = <<>> /\ watched = {}
    /\ life \in {"down", "scanning"} =>
          queue = <<>> /\ held = {} /\ job = Idle /\ \A p \in Paths : slot[p] = NoTask
    /\ life # "scanning" => unscanned = {}

\* No name is moved to itself, and a Pending is in its path's slot.
Distinct(w) == w.path = w.from => w.path = NoPath

TasksOK ==
    /\ \A i \in DOMAIN events : Distinct(events[i])
    /\ \A p \in Paths : slot[p] # NoTask => slot[p].path = p /\ Distinct(slot[p])
    /\ \A t \in held : Distinct(t)
    /\ \A i \in DOMAIN queue : Distinct(queue[i])
    /\ Distinct(job.task)
    /\ IF Busy THEN job.task \in Tasks ELSE job.task = NoTask

\* A name that is still to be forgotten is gone, or noted as refilled; a move that
\* will be dropped has its source noted.
SourcesGone ==
    /\ \A p \in Sources : files[p] # Gone => p \in excused
    /\ \A i \in DOMAIN events :
          events[i].path \in Ignored /\ events[i].from \in Paths => events[i].from \in excused

\* A row differs from its file only while something under way will mend it.
CacheFollows ==
    \A p \in Paths \ (Ignored \cup excused \cup locked) :
        \/ cache[p] = files[p]
        \/ /\ life = "running"
           /\ \/ p \in PendingPaths \cup Sources
              \/ job.at = "hash" /\ job.task.path = p /\ files[p] # Gone
        \/ /\ life = "down" \/ (life = "scanning" /\ p \in unscanned)
           /\ cache[p] = Gone

\* The cache has a row of a name if the core was told of it, but for a name whose file
\* was renamed since.
Agrees(p) ==
    /\ told[p] = Gone => cache[p] = Gone
    /\ cache[p] = Gone => told[p] = Gone \/ p \in renamed

\* This holds of every name, but for what the worker is about to tell.
KnownIsTold ==
    \A p \in Paths \ (excused \cup locked) :
        \/ Agrees(p)
        \/ job.at = "submit" /\ job.task.path = p
        \/ Busy /\ job.task.from = p

\* The worker has forgotten the source of its move; what it is about to tell is in the
\* cache, and true or comes up again.
JobOK ==
    LET p == job.task.path
        q == job.task.from
    IN
    /\ Busy /\ q \in Paths => cache[q] = Gone
    /\ job.at = "submit" =>
          /\ cache[p] = job.report
          /\ job.label = "deleted" => {q} \cap Paths \subseteq excused
          /\ job.label # "deleted" => (job.label = "moved" <=> q # NoPath)
          /\ p \in watched \ Ignored =>
                \/ job.report = files[p] \/ p \in PendingPaths
                \/ files[p] = Gone /\ p \in Sources \cup excused

\* What was last told of a changed file is true, or something under way will tell.
ToldFollows ==
    \A p \in watched \ (Ignored \cup locked) :
        /\ files[p] # Gone =>
              told[p] = files[p] \/ p \in PendingPaths \/ (Busy /\ job.task.path = p)
        /\ files[p] = Gone /\ p \notin excused \cup renamed =>
              \/ told[p] = Gone \/ p \in PendingPaths \cup Sources
              \/ job.at = "submit" /\ job.task.path = p
              \/ Busy /\ job.task.from = p

IInv ==
    /\ TypeOK /\ Phases /\ TasksOK /\ SourcesGone
    /\ CacheFollows /\ KnownIsTold /\ JobOK /\ ToldFollows

-----------------------------------------------------------------------------
(* Work under way *)

\* A queue that grows by one element.
LEMMA AppendFacts ==
    ASSUME NEW S, NEW s \in Seq(S), NEW e \in S
    PROVE  /\ Append(s, e) \in Seq(S) /\ Len(Append(s, e)) = Len(s) + 1 /\ Len(s) \in Nat
           /\ PathsIn(Append(s, e)) = PathsIn(s) \cup {e.path}
           /\ SourcesIn(Append(s, e)) = SourcesIn(s) \cup {e.from}
           /\ \A i \in DOMAIN Append(s, e) :
                 Append(s, e)[i] = e \/ \E j \in DOMAIN s : Append(s, e)[i] = s[j]
  <1> DEFINE n == Len(s)
             t == Append(s, e)
  <1>1. /\ t \in Seq(S) /\ Len(t) = n + 1 /\ n \in Nat
        /\ DOMAIN s = 1 .. n /\ DOMAIN t = 1 .. (n + 1)
        /\ t[n + 1] = e /\ \A i \in 1 .. n : t[i] = s[i]
    OBVIOUS
  <1> HIDE DEF t
  <1>2. \A i \in DOMAIN t : t[i] = e \/ \E j \in DOMAIN s : t[i] = s[j]
    BY <1>1
  <1>3. n + 1 \in DOMAIN t /\ \A i \in DOMAIN s : i \in DOMAIN t /\ t[i] = s[i]
    BY <1>1
  <1>4. PathsIn(t) = PathsIn(s) \cup {e.path}
    <2>1. PathsIn(t) \subseteq PathsIn(s) \cup {e.path}
      BY <1>2 DEF PathsIn
    <2>2. PathsIn(s) \cup {e.path} \subseteq PathsIn(t)
      BY <1>1, <1>3 DEF PathsIn
    <2> QED
      BY <2>1, <2>2
  <1>5. SourcesIn(t) = SourcesIn(s) \cup {e.from}
    <2>1. SourcesIn(t) \subseteq SourcesIn(s) \cup {e.from}
      BY <1>2 DEF SourcesIn
    <2>2. SourcesIn(s) \cup {e.from} \subseteq SourcesIn(t)
      BY <1>1, <1>3 DEF SourcesIn
    <2> QED
      BY <2>1, <2>2
  <1> QED
    BY <1>1, <1>2, <1>4, <1>5 DEF t

\* A queue that loses its first element.
LEMMA TailFacts ==
    ASSUME NEW S, NEW s \in Seq(S), s # <<>>
    PROVE  /\ Head(s) \in S /\ Tail(s) \in Seq(S)
           /\ Len(Tail(s)) = Len(s) - 1 /\ Len(s) \in Nat
           /\ PathsIn(s) = PathsIn(Tail(s)) \cup {Head(s).path}
           /\ SourcesIn(s) = SourcesIn(Tail(s)) \cup {Head(s).from}
           /\ \E j \in DOMAIN s : Head(s) = s[j]
           /\ \A i \in DOMAIN Tail(s) : \E j \in DOMAIN s : Tail(s)[i] = s[j]
  <1> DEFINE n == Len(s)
             t == Tail(s)
             e == Head(s)
  <1>1. /\ t \in Seq(S) /\ Len(t) = n - 1 /\ n \in Nat /\ n >= 1
        /\ DOMAIN s = 1 .. n /\ DOMAIN t = 1 .. (n - 1)
        /\ e = s[1] /\ e \in S /\ \A i \in 1 .. (n - 1) : t[i] = s[i + 1]
    OBVIOUS
  <1> HIDE DEF t, e
  <1>2. 1 \in DOMAIN s /\ \A i \in DOMAIN t : i + 1 \in DOMAIN s /\ t[i] = s[i + 1]
    BY <1>1
  <1>3. \A i \in DOMAIN s : i = 1 \/ (i - 1 \in DOMAIN t /\ t[i - 1] = s[i])
    BY <1>1
  <1>4. PathsIn(s) = PathsIn(t) \cup {e.path}
    <2>1. PathsIn(s) \subseteq PathsIn(t) \cup {e.path}
      BY <1>1, <1>3 DEF PathsIn
    <2>2. PathsIn(t) \cup {e.path} \subseteq PathsIn(s)
      BY <1>1, <1>2 DEF PathsIn
    <2> QED
      BY <2>1, <2>2
  <1>5. SourcesIn(s) = SourcesIn(t) \cup {e.from}
    <2>1. SourcesIn(s) \subseteq SourcesIn(t) \cup {e.from}
      BY <1>1, <1>3 DEF SourcesIn
    <2>2. SourcesIn(t) \cup {e.from} \subseteq SourcesIn(s)
      BY <1>1, <1>2 DEF SourcesIn
    <2> QED
      BY <2>1, <2>2
  <1> QED
    BY <1>1, <1>2, <1>4, <1>5 DEF t, e

\* Where a move away from a name may be, in a state and in the next one.
LEMMA SourcesFacts ==
    /\ \A q : q \in Sources <=>
          /\ q \in Paths
          /\ \/ q \in SourcesIn(events) \cup SourcesIn(queue)
             \/ \E p \in Paths : slot[p].from = q
             \/ \E t \in held : t.from = q
    /\ \A q : q \in Sources' <=>
          /\ q \in Paths
          /\ \/ q \in SourcesIn(events') \cup SourcesIn(queue')
             \/ \E p \in Paths : slot'[p].from = q
             \/ \E t \in held' : t.from = q
  BY DEF Sources, PendingSources, SourcesIn

\* What stands for no task is no task.
LEMMA NoTaskFacts ==
    /\ NoTask.n = 0 /\ NoTask.path = NoPath /\ NoTask.from = NoPath
    /\ Sentinel.n = Budget + 1 /\ Sentinel.path = NoPath /\ Sentinel.from = NoPath
    /\ NoTask \notin Tasks /\ Sentinel \notin Tasks /\ NoTask # Sentinel
    /\ \A t \in Tasks : t.path \in Paths /\ t.from \in Paths \cup {NoPath}
    /\ NoPath \notin Paths /\ Budget \in Nat /\ Ignored \subseteq Paths
    /\ Idle.at = "idle" /\ Idle.task = NoTask /\ Idle.report = Gone /\ Idle.label = "none"
  BY NamesAssumption, BudgetAssumption DEF NoTask, Sentinel, Tasks, Idle

\* The folder's event of a change.
LEMMA EventWork ==
    ASSUME IInv, NEW p \in Paths, NEW from \in Paths \cup {NoPath},
           events' = Append(events, [path |-> p, from |-> from]),
           UNCHANGED <<slot, held, queue>>
    PROVE  /\ PendingPaths' = PendingPaths \cup {p}
           /\ Sources' = Sources \cup ({from} \cap Paths)
           /\ events' \in Seq([path : Paths, from : Paths \cup {NoPath}])
           /\ Len(events') = Len(events) + 1
           /\ \A i \in DOMAIN events' : \/ events'[i] = [path |-> p, from |-> from]
                                        \/ \E j \in DOMAIN events : events'[i] = events[j]
  <1> DEFINE e == [path |-> p, from |-> from]
             S == [path : Paths, from : Paths \cup {NoPath}]
  <1>1. e \in S /\ e.path = p /\ e.from = from /\ events \in Seq(S)
    BY DEF IInv, TypeOK
  <1> HIDE DEF e, S
  <1>2. /\ events' \in Seq(S) /\ Len(events') = Len(events) + 1
        /\ PathsIn(events') = PathsIn(events) \cup {p}
        /\ SourcesIn(events') = SourcesIn(events) \cup {from}
        /\ \A i \in DOMAIN events' : events'[i] = e \/ \E j \in DOMAIN events : events'[i] = events[j]
    BY <1>1, AppendFacts DEF e
  <1>3. PendingPaths' = PendingPaths \cup {p}
    BY <1>2 DEF PendingPaths
  <1>4. Sources' = Sources \cup ({from} \cap Paths)
    <2>1. \A q : q \in Sources' <=> q \in Sources \/ (q = from /\ q \in Paths)
      BY <1>2, SourcesFacts
    <2>2. Sources' \subseteq Sources \cup ({from} \cap Paths)
      BY <2>1
    <2>3. Sources \cup ({from} \cap Paths) \subseteq Sources'
      BY <2>1
    <2> QED
      BY <2>2, <2>3
  <1> QED
    BY <1>2, <1>3, <1>4 DEF e, S

\* The observer's and the timers' steps move work on, or note what they lose.
LEMMA WorkMovesOn ==
    ASSUME IInv, UNCHANGED <<files, job, cache, host, told, renamed, watched, locked>>,
           life \notin {"down", "scanning"}, excused \subseteq excused',
           PendingPaths \ Ignored \subseteq PendingPaths',
           Sources' \subseteq Sources, Sources \ excused' \subseteq Sources'
    PROVE  /\ CacheFollows' /\ KnownIsTold' /\ JobOK' /\ ToldFollows'
           /\ \A p \in Sources' : files'[p] # Gone => p \in excused'
  <1>1. /\ files' = files /\ job' = job /\ cache' = cache /\ life' = life
        /\ unscanned' = unscanned /\ told' = told /\ renamed' = renamed
        /\ watched' = watched /\ locked' = locked
        /\ Busy' <=> Busy
    BY DEF host, Busy
  <1>2. CacheFollows'
    BY <1>1 DEF IInv, CacheFollows
  <1>3. KnownIsTold'
    BY <1>1 DEF IInv, KnownIsTold, Agrees
  <1>4. JobOK'
    BY <1>1 DEF IInv, JobOK
  <1>5. ToldFollows'
    BY <1>1 DEF IInv, ToldFollows
  <1>6. \A p \in Sources' : files'[p] # Gone => p \in excused'
    BY <1>1 DEF IInv, SourcesGone
  <1> QED
    BY <1>2, <1>3, <1>4, <1>5, <1>6

\* An event becomes its path's Pending, or is dropped because its path is ignored.
LEMMA DispatchStep ==
    ASSUME IInv, Dispatch
    PROVE  IInv'
  <1> DEFINE e == Head(events)
             t == [n |-> calls + 1, path |-> e.path, from |-> e.from]
             S == [path : Paths, from : Paths \cup {NoPath}]
  <1>1. /\ life = "running" /\ events # <<>> /\ events' = Tail(events)
        /\ UNCHANGED <<files, changes, job, cache, host, told, renamed, watched, locked>>
        /\ UNCHANGED <<held, queue>>
        /\ \/ /\ e.path \notin Ignored
              /\ slot' = [slot EXCEPT ![e.path] = t] /\ calls' = calls + 1
              /\ excused' = excused \cup ({slot[e.path].from} \cap Paths)
           \/ /\ e.path \in Ignored
              /\ UNCHANGED <<slot, calls, excused>>
    BY DEF Dispatch, DispatchIf, Slots!Put, debouncer
  <1>2. TypeOK /\ Phases /\ TasksOK /\ SourcesGone
    BY DEF IInv
  <1>3. events \in Seq(S) /\ slot \in [Paths -> Tasks \cup {NoTask}]
    BY <1>2 DEF TypeOK
  <1> HIDE DEF S
  <1>4. /\ e \in S /\ events' \in Seq(S)
        /\ Len(events') = Len(events) - 1 /\ Len(events) \in Nat
        /\ PathsIn(events) = PathsIn(events') \cup {e.path}
        /\ SourcesIn(events) = SourcesIn(events') \cup {e.from}
        /\ \E j \in DOMAIN events : e = events[j]
        /\ \A i \in DOMAIN events' : \E j \in DOMAIN events : events'[i] = events[j]
    BY <1>1, <1>3, TailFacts
  <1> HIDE DEF e
  <1>5. e.path \in Paths /\ e.from \in Paths \cup {NoPath} /\ Distinct(e)
    BY <1>2, <1>4 DEF S, TasksOK
  <1>6. /\ t.path = e.path /\ t.from = e.from /\ Distinct(t)
        /\ t \in Tasks /\ t # NoTask
    <2>1. calls + 1 \in 1 .. Budget
      BY <1>1, <1>2, <1>3, <1>4, BudgetAssumption DEF Phases
    <2>2. t \in Tasks
      BY <1>5, <2>1 DEF Tasks
    <2> QED
      BY <1>5, <2>2, NoTaskFacts DEF Distinct
  <1> HIDE DEF t
  <1>7. CASE e.path \notin Ignored
    <2> DEFINE old == slot[e.path]
    <2>1. /\ slot' = [slot EXCEPT ![e.path] = t] /\ calls' = calls + 1
          /\ excused' = excused \cup ({old.from} \cap Paths)
      BY <1>1, <1>7
    <2>2. /\ DOMAIN slot' = Paths /\ slot'[e.path] = t
          /\ \A p \in Paths \ {e.path} : slot'[p] = slot[p]
          /\ slot' \in [Paths -> Tasks \cup {NoTask}]
      BY <1>3, <1>5, <1>6, <2>1
    <2>3. PendingPaths \subseteq PendingPaths'
      BY <1>1, <1>4, <1>5, <1>6, <2>2 DEF PendingPaths
    <2>4. \A q : q \in Sources' => q \in Sources
      BY <1>1, <1>4, <1>5, <1>6, <2>2, SourcesFacts
    <2>5. \A q : q \in Sources => q \in Sources' \/ q = old.from
      BY <1>1, <1>4, <1>5, <1>6, <2>2, SourcesFacts
    <2>6. Sources' \subseteq Sources /\ Sources \ excused' \subseteq Sources'
      <3>1. Sources \subseteq Paths
        BY DEF Sources
      <3> QED
        BY <2>1, <2>4, <2>5, <3>1
    <2> HIDE DEF old
    <2>7. /\ CacheFollows' /\ KnownIsTold' /\ JobOK' /\ ToldFollows'
          /\ \A p \in Sources' : files'[p] # Gone => p \in excused'
      BY <1>1, <2>1, <2>3, <2>6, WorkMovesOn
    <2>8. SourcesGone'
      BY <1>2, <1>4, <2>1, <2>7 DEF SourcesGone
    <2>9. TasksOK'
      BY <1>1, <1>2, <1>4, <1>6, <2>2 DEF TasksOK, Busy
    <2>10. Phases'
      BY <1>1, <1>2, <1>4, <2>1 DEF Phases, host
    <2>11. TypeOK'
      BY <1>1, <1>2, <1>4, <2>1, <2>2 DEF TypeOK, host, S
    <2> QED
      BY <2>7, <2>8, <2>9, <2>10, <2>11 DEF IInv
  <1>8. CASE e.path \in Ignored
    <2>1. UNCHANGED <<slot, calls, excused>>
      BY <1>1, <1>8
    <2>2. PendingPaths \ Ignored \subseteq PendingPaths'
      BY <1>1, <1>4, <1>8, <2>1 DEF PendingPaths
    <2>3. \A q : q \in Sources' => q \in Sources
      BY <1>1, <1>4, <2>1, SourcesFacts
    <2>4. \A q : q \in Sources => q \in Sources' \/ (q = e.from /\ q \in Paths)
      BY <1>1, <1>4, <2>1, SourcesFacts
    <2>5. e.from \in Paths => e.from \in excused
      BY <1>2, <1>4, <1>8 DEF SourcesGone
    <2>6. Sources' \subseteq Sources /\ Sources \ excused' \subseteq Sources'
      BY <2>1, <2>3, <2>4, <2>5
    <2>7. /\ CacheFollows' /\ KnownIsTold' /\ JobOK' /\ ToldFollows'
          /\ \A p \in Sources' : files'[p] # Gone => p \in excused'
      BY <1>1, <2>1, <2>2, <2>6, WorkMovesOn
    <2>8. SourcesGone'
      BY <1>2, <1>4, <2>1, <2>7 DEF SourcesGone
    <2>9. TasksOK'
      BY <1>1, <1>2, <1>4, <2>1 DEF TasksOK, Busy
    <2>10. Phases'
      BY <1>1, <1>2, <1>4, <2>1 DEF Phases, host
    <2>11. TypeOK'
      BY <1>1, <1>2, <1>4, <2>1 DEF TypeOK, host, S
    <2> QED
      BY <2>7, <2>8, <2>9, <2>10, <2>11 DEF IInv
  <1> QED
    BY <1>7, <1>8

\* A Pending leaves its slot for its timer's thread ...
LEMMA FireStep ==
    ASSUME IInv, NEW p \in Paths, Fire(p)
    PROVE  IInv'
  <1>1. /\ slot[p] # NoTask /\ held' = held \cup {slot[p]}
        /\ slot' = [slot EXCEPT ![p] = NoTask]
        /\ UNCHANGED <<files, changes, events, calls, queue, job, cache, host, ghosts>>
    BY DEF Fire, Slots!Take
  <1>2. TypeOK /\ Phases /\ TasksOK /\ SourcesGone
    BY DEF IInv
  <1>3. /\ slot \in [Paths -> Tasks \cup {NoTask}]
        /\ slot[p] \in Tasks /\ slot[p].path = p /\ Distinct(slot[p])
    BY <1>1, <1>2 DEF TypeOK, TasksOK
  <1>4. /\ slot'[p] = NoTask /\ \A q \in Paths \ {p} : slot'[q] = slot[q]
        /\ slot' \in [Paths -> Tasks \cup {NoTask}]
    BY <1>1, <1>3
  <1>5. PendingPaths \subseteq PendingPaths'
    BY <1>1, <1>3, <1>4 DEF PendingPaths
  <1>6. \A q : q \in Sources <=> q \in Sources'
    BY <1>1, <1>3, <1>4, SourcesFacts, NoTaskFacts
  <1>7. Sources' \subseteq Sources /\ Sources \subseteq Sources'
    BY <1>6
  <1>8. life \notin {"down", "scanning"}
    BY <1>1, <1>2 DEF Phases
  <1>9. /\ CacheFollows' /\ KnownIsTold' /\ JobOK' /\ ToldFollows'
        /\ \A q \in Sources' : files'[q] # Gone => q \in excused'
    BY <1>1, <1>5, <1>7, <1>8, WorkMovesOn DEF ghosts
  <1>10. SourcesGone'
    BY <1>1, <1>2, <1>9 DEF SourcesGone, ghosts
  <1>11. TasksOK'
    BY <1>1, <1>2, <1>3, <1>4 DEF TasksOK, Busy
  <1>12. Phases'
    BY <1>1, <1>2, <1>8 DEF Phases, host, ghosts
  <1>13. TypeOK'
    BY <1>1, <1>2, <1>3, <1>4 DEF TypeOK, host, ghosts
  <1> QED
    BY <1>9, <1>10, <1>11, <1>12, <1>13 DEF IInv

\* ... and is put into the worker's queue.
LEMMA SubmitStep ==
    ASSUME IInv, NEW t \in held, Submit(t)
    PROVE  IInv'
  <1> DEFINE S == Tasks \cup {Sentinel}
  <1>1. /\ life # "down" /\ held' = held \ {t} /\ queue' = Append(queue, t)
        /\ UNCHANGED <<files, changes, events, slot, calls, job, cache, host, ghosts>>
    BY DEF Submit, SubmitAs
  <1>2. TypeOK /\ Phases /\ TasksOK /\ SourcesGone
    BY DEF IInv
  <1>3. queue \in Seq(S) /\ t \in S /\ t \in Tasks
    BY <1>2 DEF TypeOK
  <1> HIDE DEF S
  <1>4. /\ queue' \in Seq(S)
        /\ PathsIn(queue') = PathsIn(queue) \cup {t.path}
        /\ SourcesIn(queue') = SourcesIn(queue) \cup {t.from}
        /\ \A i \in DOMAIN queue' : queue'[i] = t \/ \E j \in DOMAIN queue : queue'[i] = queue[j]
    BY <1>1, <1>3, AppendFacts
  <1>5. PendingPaths \subseteq PendingPaths'
    BY <1>1, <1>4 DEF PendingPaths
  <1>6. \A q : q \in Sources <=> q \in Sources'
    BY <1>1, <1>4, SourcesFacts
  <1>7. Sources' \subseteq Sources /\ Sources \subseteq Sources'
    BY <1>6
  <1>8. life \notin {"down", "scanning"}
    BY <1>1, <1>2 DEF Phases
  <1>9. /\ CacheFollows' /\ KnownIsTold' /\ JobOK' /\ ToldFollows'
        /\ \A q \in Sources' : files'[q] # Gone => q \in excused'
    BY <1>1, <1>5, <1>7, <1>8, WorkMovesOn DEF ghosts
  <1>10. SourcesGone'
    BY <1>1, <1>2, <1>9 DEF SourcesGone, ghosts
  <1>11. TasksOK'
    BY <1>1, <1>2, <1>4 DEF TasksOK, Busy
  <1>12. Phases'
    BY <1>1, <1>2, <1>8 DEF Phases, host, ghosts
  <1>13. TypeOK'
    BY <1>1, <1>2, <1>4 DEF TypeOK, host, ghosts, S
  <1> QED
    BY <1>9, <1>10, <1>11, <1>12, <1>13 DEF IInv

-----------------------------------------------------------------------------
(* Changes of the folders *)

\* A change that the observer sees leaves an event; another one is noted.
LEMMA NoticeStep ==
    ASSUME IInv, NEW p \in Paths, NEW from \in Paths \cup {NoPath}, p # from,
           files' \in [Paths -> Contents \cup {Gone}],
           \A q \in Paths \ {p, from} : files'[q] = files[q],
           from \in Paths => files'[from] = Gone,
           Notice(p, from)
    PROVE  IInv'
  <1> DEFINE e == [path |-> p, from |-> from]
  <1>1. TypeOK /\ Phases /\ TasksOK /\ SourcesGone /\ CacheFollows /\ KnownIsTold /\ JobOK
        /\ ToldFollows
    BY DEF IInv
  <1>2. /\ changes + starts < Budget /\ changes' = changes + 1
        /\ UNCHANGED <<slot, held, calls, queue, job, cache, life, starts, unscanned, told,
                       renamed, locked>>
        /\ Busy' <=> Busy
    BY DEF Notice, debouncer, host, Busy
  <1>3. e.path = p /\ e.from = from
    OBVIOUS
  <1>4. CASE life = "running"
    <2>1. /\ events' = Append(events, e)
          /\ watched' = watched \cup ({p, from} \cap Paths)
          /\ excused' = excused \cup (IF files'[p] # Gone THEN {p} \cap PendingSources ELSE {})
                                \cup (IF p \in Ignored THEN {from} \cap Paths ELSE {})
      BY <1>4 DEF Notice
    <2>2. excused \subseteq excused' /\ excused' \subseteq Paths
      BY <1>1, <2>1 DEF TypeOK
    <2>3. /\ PendingPaths' = PendingPaths \cup {p}
          /\ Sources' = Sources \cup ({from} \cap Paths)
          /\ events' \in Seq([path : Paths, from : Paths \cup {NoPath}])
          /\ Len(events') = Len(events) + 1 /\ Len(events) \in Nat
          /\ \A i \in DOMAIN events' : events'[i] = e \/ \E j \in DOMAIN events : events'[i] = events[j]
      BY <1>1, <1>2, <2>1, EventWork DEF TypeOK
    <2> HIDE DEF e
    <2>4. SourcesGone'
      <3>1. \A q \in Sources' : files'[q] # Gone => q \in excused'
        <4> SUFFICES ASSUME NEW q \in Sources', files'[q] # Gone
                     PROVE  q \in excused'
          OBVIOUS
        <4>1. q \in Sources /\ q # from
          BY <2>3 DEF Sources
        <4>2. q \in Paths /\ q \in PendingSources
          BY <4>1 DEF Sources
        <4>3. CASE q = p
          BY <2>1, <4>2, <4>3
        <4>4. CASE q # p
          BY <1>1, <2>2, <4>1, <4>2, <4>4 DEF SourcesGone
        <4> QED
          BY <4>3, <4>4
      <3>2. \A i \in DOMAIN events' :
               events'[i].path \in Ignored /\ events'[i].from \in Paths
                  => events'[i].from \in excused'
        BY <1>1, <1>3, <2>1, <2>2, <2>3 DEF SourcesGone
      <3> QED
        BY <3>1, <3>2 DEF SourcesGone
    <2>5. CacheFollows'
      BY <1>1, <1>2, <1>4, <2>2, <2>3 DEF CacheFollows
    <2>6. KnownIsTold'
      BY <1>1, <1>2, <2>2 DEF KnownIsTold, Agrees
    <2>7. JobOK'
      <3> DEFINE x == job.task.path
      <3>1. ASSUME job.at = "submit", x \in watched' \ Ignored
            PROVE  \/ job.report = files'[x] \/ x \in PendingPaths'
                   \/ files'[x] = Gone /\ x \in Sources' \cup excused'
        <4>1. CASE x = p
          BY <2>3, <4>1
        <4>2. CASE x = from
          BY <1>1, <2>1, <2>3, <3>1, <4>2 DEF TypeOK
        <4>3. CASE x \notin {p, from}
          <5>1. x \in watched \ Ignored /\ files'[x] = files[x]
            BY <1>1, <2>1, <3>1, <4>3 DEF TypeOK
          <5> QED
            BY <1>1, <2>2, <2>3, <3>1, <5>1 DEF JobOK
        <4> QED
          BY <4>1, <4>2, <4>3
      <3>2. job' = job /\ cache' = cache
        BY <1>2
      <3> QED
        BY <1>1, <1>2, <2>2, <3>1, <3>2 DEF JobOK
    <2>8. ToldFollows'
      <3> SUFFICES ASSUME NEW q \in watched' \ (Ignored \cup locked')
                   PROVE  /\ files'[q] # Gone =>
                                told'[q] = files'[q] \/ q \in PendingPaths'
                                \/ (Busy' /\ job'.task.path = q)
                          /\ files'[q] = Gone /\ q \notin excused' \cup renamed' =>
                                \/ told'[q] = Gone \/ q \in PendingPaths' \cup Sources'
                                \/ job'.at = "submit" /\ job'.task.path = q
                                \/ Busy' /\ job'.task.from = q
        BY DEF ToldFollows
      <3>1. CASE q = p
        BY <2>3, <3>1
      <3>2. CASE q = from
        BY <1>1, <2>1, <2>3, <3>2 DEF TypeOK
      <3>3. CASE q \notin {p, from}
        <4>1. q \in watched \ (Ignored \cup locked) /\ files'[q] = files[q]
          BY <1>1, <1>2, <2>1, <3>3 DEF TypeOK
        <4> QED
          BY <1>1, <1>2, <2>2, <2>3, <4>1 DEF ToldFollows
      <3> QED
        BY <3>1, <3>2, <3>3
    <2>9. TasksOK'
      <3>1. Distinct(e)
        BY <1>3 DEF Distinct
      <3> QED
        BY <1>1, <1>2, <2>3, <3>1 DEF TasksOK
    <2>10. Phases'
      BY <1>1, <1>2, <1>4, <2>3, BudgetAssumption DEF Phases
    <2>11. TypeOK'
      BY <1>1, <1>2, <2>1, <2>2, <2>3 DEF TypeOK
    <2> QED
      BY <2>4, <2>5, <2>6, <2>7, <2>8, <2>9, <2>10, <2>11 DEF IInv
  <1>5. CASE life # "running"
    <2>1. /\ UNCHANGED events /\ watched' = watched \ {p, from}
          /\ excused' = excused \cup ({p, from} \cap Paths)
      BY <1>5 DEF Notice
    <2>2. excused \subseteq excused' /\ excused' \subseteq Paths /\ p \in excused'
          /\ (from \in Paths => from \in excused')
      BY <1>1, <2>1 DEF TypeOK
    <2>3. watched = {} /\ watched' = {}
      BY <1>1, <1>5, <2>1 DEF Phases
    <2>4. PendingPaths' = PendingPaths /\ Sources' = Sources /\ Sources \subseteq Paths
      BY <1>2, <2>1 DEF PendingPaths, Sources, PendingSources
    <2>5. SourcesGone'
      BY <1>1, <2>1, <2>2, <2>4 DEF SourcesGone
    <2>6. CacheFollows'
      BY <1>1, <1>2, <1>5, <2>2 DEF CacheFollows
    <2>7. KnownIsTold'
      BY <1>1, <1>2, <2>2 DEF KnownIsTold, Agrees
    <2>8. JobOK'
      BY <1>1, <1>2, <2>2, <2>3 DEF JobOK
    <2>9. ToldFollows'
      BY <2>3 DEF ToldFollows
    <2>10. TasksOK'
      BY <1>1, <1>2, <2>1 DEF TasksOK
    <2>11. Phases'
      BY <1>1, <1>2, <1>5, <2>1, <2>3, BudgetAssumption DEF Phases
    <2>12. TypeOK'
      BY <1>1, <1>2, <2>1, <2>2, <2>3 DEF TypeOK
    <2> QED
      BY <2>5, <2>6, <2>7, <2>8, <2>9, <2>10, <2>11, <2>12 DEF IInv
  <1> QED
    BY <1>4, <1>5

\* Files are written, deleted and renamed.
LEMMA ChangeStep ==
    ASSUME IInv, Change
    PROVE  IInv'
  <1>1. files \in [Paths -> Contents \cup {Gone}]
    BY DEF IInv, TypeOK
  <1>2. ASSUME NEW p \in Paths, NEW c \in Contents, Write(p, c)
        PROVE  IInv'
    <2>1. Notice(p, NoPath) /\ files' = [files EXCEPT ![p] = c] /\ p # NoPath
      BY <1>2, NoTaskFacts DEF Write
    <2> QED
      BY <1>1, <2>1, NoticeStep, NoTaskFacts
  <1>3. ASSUME NEW p \in Paths, Delete(p)
        PROVE  IInv'
    <2>1. Notice(p, NoPath) /\ files' = [files EXCEPT ![p] = Gone] /\ p # NoPath
      BY <1>3, NoTaskFacts DEF Delete
    <2> QED
      BY <1>1, <2>1, NoticeStep, NoTaskFacts
  <1>4. ASSUME NEW p \in Paths, NEW q \in Paths, Move(p, q)
        PROVE  IInv'
    <2>1. Notice(q, p) /\ files' = [files EXCEPT ![p] = Gone, ![q] = files[p]] /\ p # q
      BY <1>4 DEF Move
    <2>2. /\ files' \in [Paths -> Contents \cup {Gone}] /\ files'[p] = Gone
          /\ \A r \in Paths \ {q, p} : files'[r] = files[r]
      BY <1>1, <2>1
    <2> QED
      BY <2>1, <2>2, NoticeStep
  <1> QED
    BY <1>2, <1>3, <1>4 DEF Change

-----------------------------------------------------------------------------
(* The worker *)

\* The worker's thread takes the first element of its queue.
LEMMA TakenWork ==
    ASSUME IInv, queue # <<>>, queue' = Tail(queue), UNCHANGED <<events, slot, held>>,
           NEW t, t = Head(queue)
    PROVE  /\ queue' \in Seq(Tasks \cup {Sentinel})
           /\ \A i \in DOMAIN queue' : Distinct(queue'[i])
           /\ t \in Tasks \cup {Sentinel} /\ Distinct(t)
           /\ life \notin {"down", "scanning"}
           /\ PendingPaths \subseteq PendingPaths' \cup {t.path}
           /\ Sources' \subseteq Sources /\ Sources \subseteq Sources' \cup {t.from}
           /\ t.from \in Paths => t.from \in Sources
           /\ t.path \in PendingPaths
  <1> DEFINE S == Tasks \cup {Sentinel}
  <1>1. TypeOK /\ Phases /\ TasksOK
    BY DEF IInv
  <1>2. queue \in Seq(S)
    BY <1>1 DEF TypeOK
  <1> HIDE DEF S
  <1>3. /\ t \in S /\ queue' \in Seq(S)
        /\ PathsIn(queue) = PathsIn(queue') \cup {t.path}
        /\ SourcesIn(queue) = SourcesIn(queue') \cup {t.from}
        /\ \E j \in DOMAIN queue : t = queue[j]
        /\ \A i \in DOMAIN queue' : \E j \in DOMAIN queue : queue'[i] = queue[j]
    BY <1>2, TailFacts
  <1>4. PendingPaths \subseteq PendingPaths' \cup {t.path} /\ t.path \in PendingPaths
    BY <1>3 DEF PendingPaths
  <1>5. \A q : q \in Sources' => q \in Sources
    BY <1>3, SourcesFacts
  <1>6. \A q : q \in Sources => q \in Sources' \/ q = t.from
    BY <1>3, SourcesFacts
  <1>7. t.from \in Paths => t.from \in Sources
    BY <1>3, SourcesFacts
  <1>8. Sources' \subseteq Sources /\ Sources \subseteq Sources' \cup {t.from}
    BY <1>5, <1>6
  <1>9. life \notin {"down", "scanning"}
    BY <1>1 DEF Phases
  <1>10. Distinct(t) /\ \A i \in DOMAIN queue' : Distinct(queue'[i])
    BY <1>1, <1>3 DEF TasksOK
  <1> QED
    BY <1>3, <1>4, <1>7, <1>8, <1>9, <1>10 DEF S

\* process() forgets moved_from, then hashes, tells a deletion, or skips.
LEMMA BeginStep ==
    ASSUME IInv, Begin
    PROVE  IInv'
  <1> DEFINE t == Head(queue)
             cache1 == WithoutSource(t)
  <1>1. /\ job.at = "idle" /\ queue # <<>> /\ t # Sentinel /\ queue' = Tail(queue)
        /\ UNCHANGED <<files, changes, events, slot, held, calls, life, starts, unscanned,
                       told, renamed, watched, locked>>
        /\ \/ /\ files[t.path] # Gone
              /\ cache' = cache1
              /\ job' = [Idle EXCEPT !.at = "hash", !.task = t]
              /\ UNCHANGED excused
           \/ /\ files[t.path] = Gone /\ cache1[t.path] # Gone
              /\ cache' = [cache1 EXCEPT ![t.path] = Gone]
              /\ job' = [Idle EXCEPT !.at = "submit", !.task = t, !.label = "deleted"]
              /\ excused' = excused \cup ({t.from} \cap Paths)
           \/ /\ files[t.path] = Gone /\ cache1[t.path] = Gone
              /\ cache' = cache1
              /\ excused' = excused \cup ({t.from} \cap Paths)
              /\ UNCHANGED job
    BY DEF Begin, BeginWith, debouncer, host
  <1>2. TypeOK /\ Phases /\ TasksOK /\ SourcesGone /\ CacheFollows /\ KnownIsTold /\ JobOK
        /\ ToldFollows
    BY DEF IInv
  <1>3. /\ queue' \in Seq(Tasks \cup {Sentinel})
        /\ \A i \in DOMAIN queue' : Distinct(queue'[i])
        /\ t \in Tasks /\ Distinct(t) /\ life \notin {"down", "scanning"}
        /\ PendingPaths \subseteq PendingPaths' \cup {t.path}
        /\ Sources' \subseteq Sources /\ Sources \subseteq Sources' \cup {t.from}
        /\ t.from \in Paths => t.from \in Sources
    BY <1>1, TakenWork
  <1>4. /\ t.path \in Paths /\ t.from \in Paths \cup {NoPath} /\ t.path # t.from
    BY <1>3, NoTaskFacts DEF Distinct
  <1>5. /\ cache1 \in [Paths -> Contents \cup {Gone}] /\ cache1[t.path] = cache[t.path]
        /\ t.from \in Paths => cache1[t.from] = Gone
        /\ \A p \in Paths \ {t.from} : cache1[p] = cache[p]
    <2> HIDE DEF t
    <2>1. cache \in [Paths -> Contents \cup {Gone}]
      BY <1>2 DEF TypeOK
    <2>2. CASE t.from = NoPath
      BY <1>4, <2>1, <2>2, NoTaskFacts DEF WithoutSource
    <2>3. CASE t.from # NoPath
      <3>1. cache1 = [cache EXCEPT ![t.from] = Gone] /\ t.from \in Paths
        BY <1>4, <2>3 DEF WithoutSource
      <3> HIDE DEF cache1
      <3> QED
        BY <1>4, <2>1, <3>1
    <2> QED
      BY <2>2, <2>3
  <1>6. ~Busy /\ job.task = NoTask
    BY <1>1, <1>2 DEF Busy, TasksOK
  <1> HIDE DEF t, cache1
  <1>7. /\ cache' \in [Paths -> Contents \cup {Gone}]
        /\ t.from \in Paths => cache'[t.from] = Gone
        /\ \A p \in Paths \ {t.from, t.path} : cache'[p] = cache[p]
        /\ files[t.path] = Gone => cache'[t.path] = Gone
        /\ files[t.path] # Gone => cache'[t.path] = cache[t.path]
    BY <1>1, <1>4, <1>5
  <1>8. excused \subseteq excused' /\ excused' \subseteq Paths
    BY <1>1, <1>2 DEF TypeOK
  <1>9. t.from \in Paths /\ files[t.from] # Gone => t.from \in excused
    BY <1>2, <1>3 DEF SourcesGone
  <1>10. \/ /\ files[t.path] # Gone /\ job'.at = "hash" /\ job'.task = t /\ Busy'
            /\ job'.report = Gone /\ job'.label = "none"
         \/ /\ files[t.path] = Gone /\ cache[t.path] # Gone
            /\ job'.at = "submit" /\ job'.task = t /\ Busy'
            /\ job'.report = Gone /\ job'.label = "deleted"
            /\ t.from \in Paths => t.from \in excused'
         \/ /\ files[t.path] = Gone /\ cache[t.path] = Gone
            /\ job' = job /\ job'.at = "idle" /\ ~Busy' /\ job'.task = NoTask
            /\ t.from \in Paths => t.from \in excused'
    BY <1>1, <1>5, <1>6 DEF Busy, Idle
  <1>11. SourcesGone'
    <2>1. \A q \in Sources' : files'[q] # Gone => q \in excused'
      BY <1>1, <1>2, <1>3, <1>8 DEF SourcesGone
    <2> QED
      BY <1>1, <1>2, <1>8, <2>1 DEF SourcesGone
  <1>12. CacheFollows'
    <2> SUFFICES ASSUME NEW p \in Paths \ (Ignored \cup excused' \cup locked)
                 PROVE  \/ cache'[p] = files[p]
                        \/ /\ life = "running"
                           /\ \/ p \in PendingPaths' \cup Sources'
                              \/ job'.at = "hash" /\ job'.task.path = p /\ files[p] # Gone
      BY <1>1 DEF CacheFollows
    <2>1. \/ cache[p] = files[p]
          \/ /\ life = "running"
             /\ p \in PendingPaths \cup Sources
      BY <1>1, <1>2, <1>3, <1>8 DEF CacheFollows
    <2>2. CASE p = t.path
      BY <1>7, <1>10, <2>1, <2>2
    <2>3. CASE p = t.from
      BY <1>7, <1>8, <1>9, <2>3
    <2>4. CASE p \notin {t.path, t.from}
      BY <1>3, <1>7, <2>1, <2>4
    <2> QED
      BY <2>2, <2>3, <2>4
  <1>13. KnownIsTold'
    <2> SUFFICES ASSUME NEW p \in Paths \ (excused' \cup locked)
                 PROVE  \/ Agrees(p)'
                        \/ job'.at = "submit" /\ job'.task.path = p
                        \/ Busy' /\ job'.task.from = p
      BY <1>1 DEF KnownIsTold
    <2>1. Agrees(p) /\ told' = told /\ renamed' = renamed
      BY <1>1, <1>2, <1>6, <1>8 DEF KnownIsTold
    <2>2. CASE p = t.path
      BY <1>7, <1>10, <2>1, <2>2 DEF Agrees
    <2>3. CASE p = t.from
      BY <1>10, <2>3
    <2>4. CASE p \notin {t.path, t.from}
      BY <1>7, <2>1, <2>4 DEF Agrees
    <2> QED
      BY <2>2, <2>3, <2>4
  <1>14. JobOK'
    <2>1. CASE Busy'
      <3>1. job'.task = t
        BY <1>10, <2>1
      <3> QED
        BY <1>1, <1>7, <1>10, <3>1 DEF JobOK
    <2>2. CASE ~Busy'
      BY <2>2, <1>10 DEF JobOK, Busy
    <2> QED
      BY <2>1, <2>2
  <1>15. ToldFollows'
    <2> SUFFICES ASSUME NEW p \in watched \ (Ignored \cup locked)
                 PROVE  /\ files[p] # Gone =>
                              told[p] = files[p] \/ p \in PendingPaths'
                              \/ (Busy' /\ job'.task.path = p)
                        /\ files[p] = Gone /\ p \notin excused' \cup renamed =>
                              \/ told[p] = Gone \/ p \in PendingPaths' \cup Sources'
                              \/ job'.at = "submit" /\ job'.task.path = p
                              \/ Busy' /\ job'.task.from = p
      BY <1>1 DEF ToldFollows
    <2>1. /\ files[p] # Gone => told[p] = files[p] \/ p \in PendingPaths
          /\ files[p] = Gone /\ p \notin excused' \cup renamed =>
                told[p] = Gone \/ p \in PendingPaths \cup Sources
      BY <1>1, <1>2, <1>6, <1>8 DEF ToldFollows
    <2>2. CASE p = t.path
      <3>1. p \in Paths /\ p \notin locked
        BY <1>4, <2>2
      <3>2. files[p] = Gone /\ p \notin excused' \cup renamed /\ cache[p] = Gone
               => told[p] = Gone
        BY <1>1, <1>2, <1>6, <1>8, <3>1 DEF KnownIsTold, Agrees
      <3> QED
        BY <1>10, <2>2, <3>2
    <2>3. CASE p = t.from
      <3>1. p \in Paths
        BY <1>2 DEF TypeOK
      <3> QED
        BY <1>3, <1>4, <1>10, <2>1, <2>3, <3>1
    <2>4. CASE p \notin {t.path, t.from}
      BY <1>3, <2>1, <2>4
    <2> QED
      BY <2>2, <2>3, <2>4
  <1>16. TasksOK'
    <2>1. Distinct(job'.task) /\ IF Busy' THEN job'.task \in Tasks ELSE job'.task = NoTask
      BY <1>3, <1>10, NoTaskFacts DEF Distinct
    <2> QED
      BY <1>1, <1>2, <1>3, <2>1 DEF TasksOK
  <1>17. Phases'
    BY <1>1, <1>2, <1>3 DEF Phases
  <1>18. TypeOK'
    <2>1. job' \in [at : {"idle", "hash", "submit", "ended"},
                    task : Tasks \cup {NoTask}, report : Contents \cup {Gone},
                    label : {"none", "created", "modified", "moved", "deleted"}]
      BY <1>1, <1>2, <1>3 DEF TypeOK, Idle
    <2>2. job'.at = "submit" => (job'.label = "deleted" <=> job'.report = Gone)
      BY <1>10
    <2> QED
      BY <1>1, <1>2, <1>3, <1>7, <1>8, <2>1, <2>2 DEF TypeOK
  <1> QED
    BY <1>11, <1>12, <1>13, <1>14, <1>15, <1>16, <1>17, <1>18 DEF IInv

\* fingerprint_file() and cache.put(): the row is the file's, and will be told.
LEMMA HashStep ==
    ASSUME IInv, Hash
    PROVE  IInv'
  <1> DEFINE p == job.task.path
             q == job.task.from
             mended == {p} \ PendingSources
  <1>1. PICK label \in {"created", "modified", "moved"} :
           /\ HashAs(label)
           /\ label = "moved" <=> q # NoPath
    BY DEF Hash
  <1>2. /\ job.at = "hash" /\ files[p] # Gone
        /\ cache' = [cache EXCEPT ![p] = files[p]]
        /\ job' = [job EXCEPT !.at = "submit", !.report = files[p], !.label = label]
        /\ excused' = excused \ mended /\ locked' = locked \ mended
        /\ UNCHANGED <<files, changes, events, slot, held, calls, queue, life, starts,
                       unscanned, told, renamed, watched>>
    BY <1>1 DEF HashAs, debouncer, host
  <1>3. TypeOK /\ Phases /\ TasksOK /\ SourcesGone /\ CacheFollows /\ KnownIsTold /\ JobOK
        /\ ToldFollows
    BY DEF IInv
  <1>4. Busy /\ job.task \in Tasks /\ p \in Paths /\ q \in Paths \cup {NoPath} /\ p # q
        /\ Distinct(job.task)
    BY <1>2, <1>3, NoTaskFacts DEF Busy, TasksOK, Distinct
  <1>5. job \in [at : {"idle", "hash", "submit", "ended"},
                 task : Tasks \cup {NoTask}, report : Contents \cup {Gone},
                 label : {"none", "created", "modified", "moved", "deleted"}]
    BY <1>3 DEF TypeOK
  <1>6. /\ job'.at = "submit" /\ job'.task = job.task /\ job'.report = files[p]
        /\ job'.label = label /\ Busy'
    BY <1>2, <1>5 DEF Busy
  <1>7. /\ cache' \in [Paths -> Contents \cup {Gone}] /\ cache'[p] = files[p]
        /\ \A x \in Paths \ {p} : cache'[x] = cache[x]
    BY <1>2, <1>3, <1>4 DEF TypeOK
  <1>8. /\ \A x \in Paths \ {p} : (x \in excused' <=> x \in excused) /\ (x \in locked' <=> x \in locked)
        /\ p \in Sources => (p \in excused' <=> p \in excused)
        /\ excused' \subseteq excused /\ locked' \subseteq locked
        /\ Sources \subseteq Paths
    BY <1>2 DEF Sources
  <1>9. PendingPaths' = PendingPaths /\ Sources' = Sources
    BY <1>2 DEF PendingPaths, Sources, PendingSources
  <1> HIDE DEF p, q
  <1>10. SourcesGone'
    <2>1. \A x \in Sources' : files'[x] # Gone => x \in excused'
      BY <1>2, <1>3, <1>8, <1>9 DEF SourcesGone
    <2>2. \A i \in DOMAIN events' :
             events'[i].path \in Ignored /\ events'[i].from \in Paths
                => events'[i].from \in excused'
      <3> SUFFICES ASSUME NEW i \in DOMAIN events, events[i].path \in Ignored,
                          events[i].from \in Paths
                   PROVE  events[i].from \in excused'
        BY <1>2
      <3>1. events[i].from \in excused
        BY <1>3 DEF SourcesGone
      <3>2. events[i].from \in Sources
        BY SourcesFacts DEF SourcesIn
      <3> QED
        BY <1>8, <3>1, <3>2
    <2> QED
      BY <2>1, <2>2 DEF SourcesGone
  <1>11. CacheFollows'
    <2> SUFFICES ASSUME NEW x \in Paths \ (Ignored \cup excused' \cup locked'), x # p
                 PROVE  \/ cache'[x] = files[x]
                        \/ /\ life = "running"
                           /\ x \in PendingPaths \cup Sources
                        \/ /\ life = "down" \/ (life = "scanning" /\ x \in unscanned)
                           /\ cache'[x] = Gone
      BY <1>2, <1>7, <1>9 DEF CacheFollows
    <2>1. x \in Paths \ (Ignored \cup excused \cup locked)
      BY <1>8
    <2> QED
      BY <1>2, <1>3, <1>7, <2>1 DEF CacheFollows, p
  <1>12. KnownIsTold'
    <2> SUFFICES ASSUME NEW x \in Paths \ (excused' \cup locked'), x # p
                 PROVE  \/ Agrees(x)'
                        \/ Busy' /\ job'.task.from = x
      BY <1>2, <1>6 DEF KnownIsTold, p
    <2>1. x \in Paths \ (excused \cup locked)
      BY <1>8
    <2> QED
      BY <1>2, <1>3, <1>6, <1>7, <2>1 DEF KnownIsTold, Agrees, p
  <1>13. JobOK'
    <2>1. q \in Paths => cache'[q] = Gone
      BY <1>3, <1>4, <1>7 DEF JobOK, q
    <2>2. job'.task.path = p /\ job'.task.from = q
      BY <1>6 DEF p, q
    <2>3. job'.label # "deleted" /\ (job'.label = "moved" <=> q # NoPath)
      BY <1>1, <1>6 DEF q
    <2> QED
      BY <1>2, <1>6, <1>7, <2>1, <2>2, <2>3 DEF JobOK
  <1>14. ToldFollows'
    <2> SUFFICES ASSUME NEW x \in watched \ (Ignored \cup locked')
                 PROVE  /\ files[x] # Gone =>
                              told[x] = files[x] \/ x \in PendingPaths
                              \/ (Busy' /\ job'.task.path = x)
                        /\ files[x] = Gone /\ x \notin excused' \cup renamed =>
                              \/ told[x] = Gone \/ x \in PendingPaths \cup Sources
                              \/ job'.at = "submit" /\ job'.task.path = x
                              \/ Busy' /\ job'.task.from = x
      BY <1>2, <1>9 DEF ToldFollows
    <2>1. CASE x = p
      BY <1>6, <2>1 DEF p
    <2>2. CASE x # p
      <3>1. x \in watched \ (Ignored \cup locked) /\ (x \notin excused' => x \notin excused)
        BY <1>3, <1>8, <2>2 DEF TypeOK
      <3> QED
        BY <1>2, <1>3, <1>6, <2>2, <3>1 DEF ToldFollows, p
    <2> QED
      BY <2>1, <2>2
  <1>15. TasksOK'
    BY <1>2, <1>3, <1>4, <1>6 DEF TasksOK
  <1>16. Phases'
    BY <1>2, <1>3, NoTaskFacts DEF Phases
  <1>17. TypeOK'
    <2>1. job' \in [at : {"idle", "hash", "submit", "ended"},
                    task : Tasks \cup {NoTask}, report : Contents \cup {Gone},
                    label : {"none", "created", "modified", "moved", "deleted"}]
      BY <1>2, <1>3, <1>4, <1>5 DEF TypeOK, p
    <2>2. job'.label # "deleted" /\ job'.report # Gone
      BY <1>1, <1>2, <1>6 DEF p
    <2> QED
      BY <1>2, <1>3, <1>7, <1>8, <2>1, <2>2 DEF TypeOK
  <1> QED
    BY <1>10, <1>11, <1>12, <1>13, <1>14, <1>15, <1>16, <1>17 DEF IInv

\* OSError: the task is dropped; what that leaves wrong is noted.
LEMMA HashFailsStep ==
    ASSUME IInv, HashFails
    PROVE  IInv'
  <1> DEFINE p == job.task.path
             q == job.task.from
  <1>1. /\ job.at = "hash"
        /\ locked' = locked \cup ({p} \cap {x \in Paths : files[x] # Gone})
        /\ excused' = excused \cup ({q} \cap Paths) /\ job' = Idle
        /\ UNCHANGED <<files, changes, events, slot, held, calls, queue, cache, life, starts,
                       unscanned, told, renamed, watched>>
    BY DEF HashFails, HashFailsTo, debouncer, host
  <1>2. TypeOK /\ Phases /\ TasksOK /\ SourcesGone /\ CacheFollows /\ KnownIsTold /\ JobOK
        /\ ToldFollows
    BY DEF IInv
  <1>3. Busy /\ p \in Paths /\ q \in Paths \cup {NoPath} /\ watched \subseteq Paths
    BY <1>1, <1>2, NoTaskFacts DEF Busy, TasksOK, TypeOK
  <1>4. job'.at = "idle" /\ job'.task = NoTask /\ ~Busy' /\ job'.report = Gone
    BY <1>1, NoTaskFacts DEF Busy
  <1>5. /\ files[p] # Gone => p \in locked'
        /\ q \in Paths => q \in excused'
        /\ locked \subseteq locked' /\ excused \subseteq excused'
        /\ locked' \subseteq Paths /\ excused' \subseteq Paths
    BY <1>1, <1>2, <1>3 DEF TypeOK
  <1>6. PendingPaths' = PendingPaths /\ Sources' = Sources
    BY <1>1 DEF PendingPaths, Sources, PendingSources
  <1>7. SourcesGone'
    BY <1>1, <1>2, <1>5, <1>6 DEF SourcesGone
  <1>8. CacheFollows'
    BY <1>1, <1>2, <1>5, <1>6 DEF CacheFollows
  <1>9. KnownIsTold'
    BY <1>1, <1>2, <1>5 DEF KnownIsTold, Agrees
  <1>10. JobOK'
    BY <1>4 DEF JobOK
  <1>11. ToldFollows'
    BY <1>1, <1>2, <1>3, <1>5, <1>6 DEF ToldFollows
  <1>12. TasksOK'
    BY <1>1, <1>2, <1>4, NoTaskFacts DEF TasksOK, Distinct
  <1>13. Phases'
    BY <1>1, <1>2 DEF Phases
  <1>14. TypeOK'
    BY <1>1, <1>2, <1>4, <1>5 DEF TypeOK, Idle
  <1> QED
    BY <1>7, <1>8, <1>9, <1>10, <1>11, <1>12, <1>13, <1>14 DEF IInv

\* The cache's database raises while a task is taken or hashed: its two names are noted.
LEMMA CacheFailsStep ==
    ASSUME IInv, CacheFails
    PROVE  IInv'
  <1> DEFINE begins == job.at = "idle" /\ queue # <<>> /\ Head(queue) # Sentinel
             t == IF begins THEN Head(queue) ELSE job.task
             p == t.path
             q == t.from
  <1>1. /\ changes + starts < Budget /\ changes' = changes + 1
        /\ begins \/ job.at = "hash"
        /\ queue' = IF begins THEN Tail(queue) ELSE queue
        /\ job' = Idle
        /\ \E c \in IF begins THEN {cache, WithoutSource(t)} ELSE {cache} :
              cache' \in {c, [c EXCEPT ![p] = files[p]]}
        /\ excused' = excused \cup ({p, q} \cap Paths)
        /\ locked' = locked \cup {p}
        /\ UNCHANGED <<files, events, slot, held, calls, life, starts, unscanned, told, renamed,
                       watched>>
    BY DEF CacheFails, debouncer, host
  <1>2. TypeOK /\ Phases /\ TasksOK /\ SourcesGone /\ CacheFollows /\ KnownIsTold /\ JobOK
        /\ ToldFollows
    BY DEF IInv
  <1>3. /\ queue' \in Seq(Tasks \cup {Sentinel})
        /\ \A i \in DOMAIN queue' : Distinct(queue'[i])
        /\ t \in Tasks /\ life \notin {"down", "scanning"}
        /\ PendingPaths \subseteq PendingPaths' \cup {p}
        /\ Sources' \subseteq Sources /\ Sources \subseteq Sources' \cup {q}
        /\ job.at # "submit" /\ (Busy => job.task = t)
    <2>1. CASE begins
      <3>1. t = Head(queue) /\ queue' = Tail(queue) /\ job.at = "idle" /\ queue # <<>>
            /\ t # Sentinel
        BY <1>1, <2>1
      <3> HIDE DEF t, begins
      <3> QED
        BY <1>1, <3>1, TakenWork DEF Busy
    <2>2. CASE ~begins
      <3>1. t = job.task /\ queue' = queue /\ job.at = "hash"
        BY <1>1, <2>2
      <3> HIDE DEF t, begins
      <3>2. PendingPaths' = PendingPaths /\ Sources' = Sources
        <4>1. UNCHANGED <<events, slot, held, queue>>
          BY <1>1, <3>1
        <4> QED
          BY <4>1 DEF PendingPaths, Sources, PendingSources
      <3>3. queue \in Seq(Tasks \cup {Sentinel})
        BY <1>2 DEF TypeOK
      <3>4. life \notin {"down", "scanning"}
        BY <1>2, <3>1, NoTaskFacts DEF Phases
      <3>5. t \in Tasks /\ \A i \in DOMAIN queue' : Distinct(queue'[i])
        BY <1>2, <3>1 DEF TasksOK, Busy
      <3> QED
        BY <3>1, <3>2, <3>3, <3>4, <3>5
    <2> QED
      BY <2>1, <2>2
  <1>4. p \in Paths /\ q \in Paths \cup {NoPath} /\ watched \subseteq Paths
    BY <1>2, <1>3, NoTaskFacts DEF TypeOK
  <1>5. /\ cache' \in [Paths -> Contents \cup {Gone}]
        /\ \A x \in Paths \ {p, q} : cache'[x] = cache[x]
    <2> HIDE DEF t
    <2>1. /\ cache \in [Paths -> Contents \cup {Gone}]
          /\ files \in [Paths -> Contents \cup {Gone}]
      BY <1>2 DEF TypeOK
    <2>2. /\ WithoutSource(t) \in [Paths -> Contents \cup {Gone}]
          /\ \A x \in Paths \ {q} : WithoutSource(t)[x] = cache[x]
      BY <1>4, <2>1 DEF WithoutSource
    <2>3. PICK c \in {cache, WithoutSource(t)} : cache' \in {c, [c EXCEPT ![p] = files[p]]}
      BY <1>1
    <2>4. c \in [Paths -> Contents \cup {Gone}] /\ \A x \in Paths \ {q} : c[x] = cache[x]
      BY <2>1, <2>2, <2>3
    <2> QED
      BY <1>4, <2>1, <2>3, <2>4
  <1> HIDE DEF t, begins
  <1>6. job'.at = "idle" /\ job'.task = NoTask /\ ~Busy' /\ job'.report = Gone
    BY <1>1, NoTaskFacts DEF Busy
  <1>7. /\ p \in locked' /\ p \in excused' /\ (q \in Paths => q \in excused')
        /\ locked \subseteq locked' /\ excused \subseteq excused'
        /\ locked' \subseteq Paths /\ excused' \subseteq Paths
    BY <1>1, <1>2, <1>4 DEF TypeOK
  <1>8. SourcesGone'
    BY <1>1, <1>2, <1>3, <1>7 DEF SourcesGone
  <1>9. CacheFollows'
    <2> SUFFICES ASSUME NEW x \in Paths \ (Ignored \cup excused' \cup locked')
                 PROVE  cache'[x] = files[x]
                        \/ (life = "running" /\ x \in PendingPaths' \cup Sources')
      BY <1>1 DEF CacheFollows
    <2>1. x \notin {p, q}
      BY <1>7
    <2>2. \/ cache[x] = files[x]
          \/ life = "running" /\ (x \in PendingPaths \cup Sources \/ (Busy /\ job.task.path = x))
      BY <1>2, <1>3, <1>7 DEF CacheFollows, Busy
    <2> QED
      BY <1>3, <1>5, <2>1, <2>2
  <1>10. KnownIsTold'
    <2> SUFFICES ASSUME NEW x \in Paths \ (excused' \cup locked')
                 PROVE  Agrees(x)'
      BY <1>1 DEF KnownIsTold
    <2>1. x \notin {p, q}
      BY <1>7
    <2>2. Agrees(x)
      BY <1>2, <1>3, <1>7, <2>1 DEF KnownIsTold
    <2> QED
      BY <1>1, <1>5, <2>1, <2>2 DEF Agrees
  <1>11. JobOK'
    BY <1>6 DEF JobOK
  <1>12. ToldFollows'
    <2> SUFFICES ASSUME NEW x \in watched \ (Ignored \cup locked')
                 PROVE  /\ files[x] # Gone => told[x] = files[x] \/ x \in PendingPaths'
                        /\ files[x] = Gone /\ x \notin excused' \cup renamed =>
                              told[x] = Gone \/ x \in PendingPaths' \cup Sources'
      BY <1>1 DEF ToldFollows
    <2>1. x \in watched \ (Ignored \cup locked) /\ x # p /\ x \in Paths
      BY <1>4, <1>7
    <2>2. files[x] # Gone => told[x] = files[x] \/ x \in PendingPaths
      BY <1>2, <1>3, <2>1 DEF ToldFollows
    <2>3. files[x] = Gone /\ x \notin excused' \cup renamed =>
             told[x] = Gone \/ x \in PendingPaths \cup Sources
      BY <1>2, <1>3, <1>7, <2>1 DEF ToldFollows
    <2> QED
      BY <1>3, <1>7, <2>1, <2>2, <2>3
  <1>13. TasksOK'
    BY <1>1, <1>2, <1>3, <1>6, NoTaskFacts DEF TasksOK, Distinct
  <1>14. Phases'
    BY <1>1, <1>2, <1>3, BudgetAssumption DEF Phases
  <1>15. TypeOK'
    BY <1>1, <1>2, <1>3, <1>5, <1>6, <1>7 DEF TypeOK, Idle
  <1> QED
    BY <1>8, <1>9, <1>10, <1>11, <1>12, <1>13, <1>14, <1>15 DEF IInv

\* core.submit(): what is told is in the cache, and true or comes up again.
LEMMA ReportStep ==
    ASSUME IInv, Report
    PROVE  IInv'
  <1> DEFINE p == job.task.path
             q == job.task.from
  <1>1. /\ job.at = "submit" /\ job' = Idle
        /\ told' = [told EXCEPT ![p] = job.report]
        /\ renamed' = (renamed \cup (IF job.label = "moved" THEN {q} \cap Paths ELSE {})) \ {p}
        /\ UNCHANGED <<files, changes, events, slot, held, calls, queue, cache, life, starts,
                       unscanned, watched, excused, locked>>
    BY DEF Report, debouncer, host
  <1>2. TypeOK /\ Phases /\ TasksOK /\ SourcesGone /\ CacheFollows /\ KnownIsTold /\ JobOK
        /\ ToldFollows
    BY DEF IInv
  <1>3. /\ Busy /\ p \in Paths /\ q \in Paths \cup {NoPath} /\ p # q /\ NoPath \notin Paths
        /\ watched \subseteq Paths /\ job.report \in Contents \cup {Gone}
    BY <1>1, <1>2, NoTaskFacts DEF Busy, TasksOK, TypeOK, Distinct
  <1>4. job'.at = "idle" /\ job'.task = NoTask /\ ~Busy' /\ job'.report = Gone
    BY <1>1, NoTaskFacts DEF Busy
  <1>5. /\ q \in Paths => cache[q] = Gone
        /\ cache[p] = job.report
        /\ q \in Paths => q \in excused \/ job.label = "moved"
        /\ p \in watched \ Ignored =>
              \/ job.report = files[p] \/ p \in PendingPaths
              \/ files[p] = Gone /\ p \in Sources \cup excused
    BY <1>1, <1>2, <1>3 DEF JobOK
  <1> HIDE DEF p, q
  <1>6. /\ told'[p] = job.report
        /\ \A x \in Paths \ {p} : told'[x] = told[x] /\ (x \in renamed => x \in renamed')
        /\ q \in Paths /\ q \notin excused => q \in renamed'
        /\ told' \in [Paths -> Contents \cup {Gone}] /\ renamed' \subseteq Paths
    BY <1>1, <1>2, <1>3, <1>5 DEF TypeOK
  <1>7. PendingPaths' = PendingPaths /\ Sources' = Sources
    <2>1. UNCHANGED <<events, slot, held, queue>>
      BY <1>1
    <2> QED
      BY <2>1 DEF PendingPaths, Sources, PendingSources
  <1>8. SourcesGone'
    BY <1>1, <1>2, <1>7 DEF SourcesGone
  <1>9. CacheFollows'
    BY <1>1, <1>2, <1>7 DEF CacheFollows
  <1>10. KnownIsTold'
    <2> SUFFICES ASSUME NEW x \in Paths \ (excused \cup locked)
                 PROVE  Agrees(x)'
      BY <1>1 DEF KnownIsTold
    <2>1. CASE x = p
      BY <1>1, <1>5, <1>6, <2>1 DEF Agrees
    <2>2. CASE x = q
      BY <1>1, <1>3, <1>5, <1>6, <2>2 DEF Agrees
    <2>3. CASE x \notin {p, q}
      BY <1>1, <1>2, <1>6, <2>3 DEF KnownIsTold, Agrees, p, q
    <2> QED
      BY <2>1, <2>2, <2>3
  <1>11. JobOK'
    BY <1>4 DEF JobOK
  <1>12. ToldFollows'
    <2> SUFFICES ASSUME NEW x \in watched \ (Ignored \cup locked)
                 PROVE  /\ files[x] # Gone => told'[x] = files[x] \/ x \in PendingPaths
                        /\ files[x] = Gone /\ x \notin excused \cup renamed' =>
                              told'[x] = Gone \/ x \in PendingPaths \cup Sources
      BY <1>1, <1>7 DEF ToldFollows
    <2>1. CASE x = p
      BY <1>5, <1>6, <2>1
    <2>2. CASE x = q
      <3>1. x \in Paths
        BY <1>3
      <3>2. files[x] # Gone => told[x] = files[x] \/ x \in PendingPaths
        BY <1>2, <1>3, <2>2 DEF ToldFollows, p, q
      <3> QED
        BY <1>3, <1>6, <2>2, <3>1, <3>2
    <2>3. CASE x \notin {p, q}
      <3>1. x \in Paths /\ told'[x] = told[x] /\ (x \in renamed => x \in renamed')
        BY <1>3, <1>6, <2>3
      <3> QED
        BY <1>2, <2>3, <3>1 DEF ToldFollows, p, q
    <2> QED
      BY <2>1, <2>2, <2>3
  <1>13. TasksOK'
    BY <1>1, <1>2, <1>4, NoTaskFacts DEF TasksOK, Distinct
  <1>14. Phases'
    BY <1>1, <1>2 DEF Phases
  <1>15. TypeOK'
    BY <1>1, <1>2, <1>4, <1>6 DEF TypeOK, Idle
  <1> QED
    BY <1>8, <1>9, <1>10, <1>11, <1>12, <1>13, <1>14, <1>15 DEF IInv

\* The thread takes the sentinel and ends.
LEMMA WorkerEndsStep ==
    ASSUME IInv, WorkerEnds
    PROVE  IInv'
  <1>1. /\ job.at = "idle" /\ queue # <<>> /\ Head(queue) = Sentinel /\ queue' = Tail(queue)
        /\ job' = [Idle EXCEPT !.at = "ended"]
        /\ UNCHANGED <<files, changes, events, slot, held, calls, cache, life, starts,
                       unscanned, told, renamed, watched, excused, locked>>
    BY DEF WorkerEnds, debouncer, host, ghosts
  <1>2. TypeOK /\ Phases /\ TasksOK /\ SourcesGone /\ CacheFollows /\ KnownIsTold /\ JobOK
        /\ ToldFollows
    BY DEF IInv
  <1>3. /\ queue' \in Seq(Tasks \cup {Sentinel})
        /\ \A i \in DOMAIN queue' : Distinct(queue'[i])
        /\ life \notin {"down", "scanning"}
        /\ PendingPaths \subseteq PendingPaths' \cup {NoPath}
        /\ Sources' \subseteq Sources /\ Sources \subseteq Sources' \cup {NoPath}
    BY <1>1, TakenWork, NoTaskFacts
  <1>4. ~Busy /\ watched \subseteq Paths /\ NoPath \notin Paths
    BY <1>1, <1>2, NoTaskFacts DEF Busy, TypeOK
  <1>5. job'.at = "ended" /\ job'.task = NoTask /\ ~Busy'
    BY <1>1, NoTaskFacts DEF Busy, Idle
  <1>6. SourcesGone'
    BY <1>1, <1>2, <1>3 DEF SourcesGone
  <1>7. CacheFollows'
    BY <1>1, <1>2, <1>3, <1>4 DEF CacheFollows
  <1>8. KnownIsTold'
    BY <1>1, <1>2, <1>4 DEF KnownIsTold, Agrees
  <1>9. JobOK'
    BY <1>5 DEF JobOK
  <1>10. ToldFollows'
    BY <1>1, <1>2, <1>3, <1>4 DEF ToldFollows
  <1>11. TasksOK'
    BY <1>1, <1>2, <1>3, <1>5, NoTaskFacts DEF TasksOK, Distinct
  <1>12. Phases'
    BY <1>1, <1>2, <1>3 DEF Phases
  <1>13. TypeOK'
    BY <1>1, <1>2, <1>3, <1>5 DEF TypeOK, Idle
  <1> QED
    BY <1>6, <1>7, <1>8, <1>9, <1>10, <1>11, <1>12, <1>13 DEF IInv

-----------------------------------------------------------------------------
(* Start, stop and crash *)

\* While nothing is under way, no name is pending.
LEMMA NothingUnderWay ==
    ASSUME events = <<>>, queue = <<>>, held = {}, \A p \in Paths : slot[p] = NoTask
    PROVE  PendingPaths = {} /\ Sources = {}
  <1>1. PathsIn(<<>>) = {} /\ SourcesIn(<<>>) = {}
    BY DEF PathsIn, SourcesIn
  <1>2. PendingPaths = {}
    BY <1>1 DEF PendingPaths
  <1>3. \A q : q \notin Sources
    BY <1>1, SourcesFacts, NoTaskFacts
  <1> QED
    BY <1>2, <1>3

\* main(): the next start; no row of the last run is taken for granted.
LEMMA StartStep ==
    ASSUME IInv, Start
    PROVE  IInv'
  <1>1. /\ life = "down" /\ life' = "scanning" /\ changes + starts < Budget
        /\ starts' = starts + 1 /\ unscanned' = Paths
        /\ UNCHANGED <<files, changes, events, slot, held, calls, queue, job, cache,
                       told, renamed, watched, excused, locked>>
    BY DEF Start, debouncer, ghosts
  <1>2. TypeOK /\ Phases /\ TasksOK /\ SourcesGone /\ CacheFollows /\ KnownIsTold /\ JobOK
        /\ ToldFollows
    BY DEF IInv
  <1>3. watched = {} /\ (Busy' <=> Busy)
    BY <1>1, <1>2 DEF Phases, Busy
  <1>4. PendingPaths' = PendingPaths /\ Sources' = Sources
    BY <1>1 DEF PendingPaths, Sources, PendingSources
  <1>5. SourcesGone'
    BY <1>1, <1>2, <1>4 DEF SourcesGone
  <1>6. CacheFollows'
    BY <1>1, <1>2 DEF CacheFollows
  <1>7. KnownIsTold'
    BY <1>1, <1>2, <1>3 DEF KnownIsTold, Agrees
  <1>8. JobOK'
    BY <1>1, <1>2, <1>3, <1>4 DEF JobOK
  <1>9. ToldFollows'
    BY <1>1, <1>3 DEF ToldFollows
  <1>10. TasksOK'
    BY <1>1, <1>2, <1>3 DEF TasksOK
  <1>11. Phases'
    BY <1>1, <1>2, BudgetAssumption DEF Phases
  <1>12. TypeOK'
    BY <1>1, <1>2 DEF TypeOK
  <1> QED
    BY <1>5, <1>6, <1>7, <1>8, <1>9, <1>10, <1>11, <1>12 DEF IInv

\* initial_scan() comes to a name.
LEMMA ScanStep ==
    ASSUME IInv, NEW p \in Paths, Scan(p)
    PROVE  IInv'
  <1>1. /\ life = "scanning" /\ p \in unscanned /\ unscanned' = unscanned \ {p}
        /\ UNCHANGED <<files, changes, events, slot, held, calls, queue, job, life, starts, watched>>
        /\ \/ /\ files[p] # Gone
              /\ cache' = [cache EXCEPT ![p] = files[p]]
              /\ told' = [told EXCEPT ![p] = files[p]] /\ renamed' = renamed \ {p}
              /\ excused' = excused \ {p} /\ locked' = locked \ {p}
           \/ /\ files[p] # Gone
              /\ excused' = excused \cup {p} /\ locked' = locked \cup {p}
              /\ UNCHANGED <<cache, told, renamed>>
           \/ /\ files[p] = Gone \/ p \in Ignored
              /\ UNCHANGED <<cache, told, renamed, excused, locked>>
    BY DEF Scan, debouncer
  <1>2. TypeOK /\ Phases /\ TasksOK /\ SourcesGone /\ CacheFollows /\ KnownIsTold /\ JobOK
        /\ ToldFollows
    BY DEF IInv
  <1>3. /\ watched = {} /\ events = <<>> /\ queue = <<>> /\ held = {} /\ job = Idle
        /\ \A x \in Paths : slot[x] = NoTask
    BY <1>1, <1>2 DEF Phases
  <1>4. ~Busy /\ job.at = "idle" /\ ~Busy' /\ job'.at = "idle"
    BY <1>1, <1>3, NoTaskFacts DEF Busy
  <1>5. Sources' = {} /\ PendingPaths = {} /\ Sources = {}
    <2>1. PendingPaths = {} /\ Sources = {}
      BY <1>3, NothingUnderWay
    <2>2. Sources' = Sources
      BY <1>1 DEF Sources, PendingSources
    <2> QED
      BY <2>1, <2>2
  <1>6. /\ cache \in [Paths -> Contents \cup {Gone}] /\ told \in [Paths -> Contents \cup {Gone}]
        /\ files \in [Paths -> Contents \cup {Gone}]
        /\ excused \subseteq Paths /\ locked \subseteq Paths /\ unscanned \subseteq Paths
        /\ renamed \subseteq Paths
    BY <1>2 DEF TypeOK
  <1>7. /\ cache' \in [Paths -> Contents \cup {Gone}] /\ told' \in [Paths -> Contents \cup {Gone}]
        /\ \A x \in Paths \ {p} :
              /\ cache'[x] = cache[x] /\ told'[x] = told[x] /\ (x \in renamed' <=> x \in renamed)
              /\ (x \in excused' <=> x \in excused) /\ (x \in locked' <=> x \in locked)
        /\ excused' \subseteq Paths /\ locked' \subseteq Paths /\ renamed' \subseteq Paths
    BY <1>1, <1>6
  <1>8. \/ cache'[p] = files[p] /\ told'[p] = files[p]
        \/ p \in excused'
        \/ /\ cache'[p] = cache[p] /\ told'[p] = told[p] /\ (p \in renamed' <=> p \in renamed)
           /\ p \in excused' <=> p \in excused
           /\ p \in locked' <=> p \in locked
           /\ files[p] = Gone \/ p \in Ignored
    BY <1>1, <1>6
  <1>9. SourcesGone'
    <2>1. DOMAIN events' = {}
      BY <1>1, <1>3
    <2> QED
      BY <1>5, <2>1 DEF SourcesGone
  <1>10. CacheFollows'
    <2> SUFFICES ASSUME NEW x \in Paths \ (Ignored \cup excused' \cup locked')
                 PROVE  \/ cache'[x] = files[x]
                        \/ x \in unscanned' /\ cache'[x] = Gone
      BY <1>1 DEF CacheFollows
    <2>1. x \notin Ignored \cup excused \cup locked =>
             cache[x] = files[x] \/ (x \in unscanned /\ cache[x] = Gone)
      BY <1>1, <1>2 DEF CacheFollows
    <2>2. CASE x = p
      BY <1>8, <2>1, <2>2
    <2>3. CASE x # p
      BY <1>1, <1>7, <2>1, <2>3
    <2> QED
      BY <2>2, <2>3
  <1>11. KnownIsTold'
    <2> SUFFICES ASSUME NEW x \in Paths \ (excused' \cup locked')
                 PROVE  Agrees(x)'
      BY DEF KnownIsTold
    <2>1. x \notin excused \cup locked => Agrees(x)
      BY <1>2, <1>4 DEF KnownIsTold
    <2>2. CASE x = p
      BY <1>8, <2>1, <2>2 DEF Agrees
    <2>3. CASE x # p
      BY <1>7, <2>1, <2>3 DEF Agrees
    <2> QED
      BY <2>2, <2>3
  <1>12. JobOK'
    BY <1>4 DEF JobOK
  <1>13. ToldFollows'
    BY <1>1, <1>3 DEF ToldFollows
  <1>14. TasksOK'
    BY <1>1, <1>2, <1>4 DEF TasksOK, Busy
  <1>15. Phases'
    BY <1>1, <1>2 DEF Phases
  <1>16. TypeOK'
    BY <1>1, <1>2, <1>6, <1>7 DEF TypeOK
  <1> QED
    BY <1>9, <1>10, <1>11, <1>12, <1>13, <1>14, <1>15, <1>16 DEF IInv

\* Watcher.start(): every file there was has its row.
LEMMA WatchStep ==
    ASSUME IInv, Watch
    PROVE  IInv'
  <1>1. /\ life = "scanning" /\ unscanned = {} /\ life' = "running"
        /\ UNCHANGED <<files, changes, events, slot, held, calls, queue, job, cache, starts,
                       unscanned, told, renamed, watched, excused, locked>>
    BY DEF Watch, debouncer, ghosts
  <1>2. TypeOK /\ Phases /\ TasksOK /\ SourcesGone /\ CacheFollows /\ KnownIsTold /\ JobOK
        /\ ToldFollows
    BY DEF IInv
  <1>3. Busy' <=> Busy
    BY <1>1 DEF Busy
  <1>4. PendingPaths' = PendingPaths /\ Sources' = Sources
    BY <1>1 DEF PendingPaths, Sources, PendingSources
  <1>5. SourcesGone'
    BY <1>1, <1>2, <1>4 DEF SourcesGone
  <1>6. CacheFollows'
    BY <1>1, <1>2 DEF CacheFollows
  <1>7. KnownIsTold'
    BY <1>1, <1>2, <1>3 DEF KnownIsTold, Agrees
  <1>8. JobOK'
    BY <1>1, <1>2, <1>3, <1>4 DEF JobOK
  <1>9. ToldFollows'
    BY <1>1, <1>2, <1>3, <1>4 DEF ToldFollows
  <1>10. TasksOK'
    BY <1>1, <1>2, <1>3 DEF TasksOK
  <1>11. Phases'
    BY <1>1, <1>2 DEF Phases
  <1>12. TypeOK'
    BY <1>1, <1>2 DEF TypeOK
  <1> QED
    BY <1>5, <1>6, <1>7, <1>8, <1>9, <1>10, <1>11, <1>12 DEF IInv

\* Everything pending is unfinished.
LEMMA UnfinishedFacts ==
    /\ PendingPaths \subseteq Unfinished /\ Sources \subseteq Unfinished
    /\ job.task.path \in Unfinished /\ job.task.from \in Unfinished
  BY DEF PendingPaths, Sources, Unfinished, PathsIn

\* What holds of the cache when work is lost and noted.
LEMMA LostWork ==
    ASSUME IInv, NEW p \in Paths \ (excused \cup locked), p \notin Unfinished
    PROVE  /\ p \notin Ignored =>
                 \/ cache[p] = files[p]
                 \/ /\ life = "down" \/ (life = "scanning" /\ p \in unscanned)
                    /\ cache[p] = Gone
           /\ Agrees(p)
  <1>1. CacheFollows /\ KnownIsTold
    BY DEF IInv
  <1>2. p \notin PendingPaths \cup Sources /\ job.task.path # p /\ job.task.from # p
    BY UnfinishedFacts
  <1>3. Agrees(p)
    BY <1>1, <1>2 DEF KnownIsTold
  <1> QED
    BY <1>1, <1>2, <1>3 DEF CacheFollows

\* Watcher.stop(): the events and what else is under way is noted.
LEMMA StopObserverStep ==
    ASSUME IInv, StopObserver
    PROVE  IInv'
  <1>1. /\ life = "running" /\ life' = "unwatched" /\ watched' = {} /\ events' = <<>>
        /\ excused' = excused \cup (Unfinished \cap Paths)
        /\ UNCHANGED <<files, changes, slot, held, calls, queue, job, cache, starts,
                       unscanned, told, renamed, locked>>
    BY DEF StopObserver, debouncer
  <1>2. TypeOK /\ Phases /\ TasksOK /\ SourcesGone /\ KnownIsTold /\ JobOK
    BY DEF IInv
  <1>3. /\ Busy' <=> Busy
        /\ Len(events') = 0 /\ Len(events) \in Nat /\ DOMAIN events' = {}
        /\ SourcesIn(events') = {} /\ events' \in Seq([path : Paths, from : Paths \cup {NoPath}])
    BY <1>1, <1>2 DEF Busy, SourcesIn, TypeOK
  <1>4. excused \subseteq excused' /\ excused' \subseteq Paths
    BY <1>1, <1>2 DEF TypeOK
  <1>5. \A q : q \in Sources' => q \in Sources
    BY <1>1, <1>3, SourcesFacts
  <1>6. SourcesGone'
    <2>1. \A q \in Sources' : files'[q] # Gone => q \in excused'
      BY <1>1, <1>2, <1>4, <1>5 DEF SourcesGone
    <2> QED
      BY <1>3, <2>1 DEF SourcesGone
  <1>7. CacheFollows'
    <2> SUFFICES ASSUME NEW p \in Paths \ (Ignored \cup excused' \cup locked)
                 PROVE  cache[p] = files[p]
      BY <1>1 DEF CacheFollows
    <2>1. p \notin Unfinished /\ p \notin excused
      BY <1>1
    <2> QED
      BY <1>1, <2>1, LostWork
  <1>8. KnownIsTold'
    BY <1>1, <1>2, <1>3, <1>4 DEF KnownIsTold, Agrees
  <1>9. JobOK'
    BY <1>1, <1>2, <1>3, <1>4 DEF JobOK
  <1>10. ToldFollows'
    BY <1>1 DEF ToldFollows
  <1>11. TasksOK'
    BY <1>1, <1>2, <1>3 DEF TasksOK
  <1>12. Phases'
    BY <1>1, <1>2, <1>3 DEF Phases
  <1>13. TypeOK'
    BY <1>1, <1>2, <1>3, <1>4 DEF TypeOK
  <1> QED
    BY <1>6, <1>7, <1>8, <1>9, <1>10, <1>11, <1>12, <1>13 DEF IInv

\* Debouncer.cancel_all(): what was waiting is noted by then.
LEMMA CancelAllStep ==
    ASSUME IInv, CancelAll
    PROVE  IInv'
  <1>1. /\ life = "unwatched" /\ life' = "cancelled"
        /\ slot' = [p \in Paths |-> NoTask]
        /\ UNCHANGED <<files, changes, events, held, calls, queue, job, cache, starts,
                       unscanned, told, renamed, watched, excused, locked>>
    BY DEF CancelAll, Slots!Clear, ghosts
  <1>2. TypeOK /\ Phases /\ TasksOK /\ SourcesGone /\ CacheFollows /\ KnownIsTold /\ JobOK
    BY DEF IInv
  <1>3. /\ Busy' <=> Busy
        /\ watched = {} /\ \A p \in Paths : slot'[p] = NoTask
    BY <1>1, <1>2 DEF Busy, Phases
  <1>4. \A q : q \in Sources' => q \in Sources
    BY <1>1, <1>3, SourcesFacts, NoTaskFacts
  <1>5. SourcesGone'
    BY <1>1, <1>2, <1>4 DEF SourcesGone
  <1>6. CacheFollows'
    BY <1>1, <1>2 DEF CacheFollows
  <1>7. KnownIsTold'
    BY <1>1, <1>2, <1>3 DEF KnownIsTold, Agrees
  <1>8. JobOK'
    BY <1>1, <1>2, <1>3 DEF JobOK
  <1>9. ToldFollows'
    BY <1>1, <1>3 DEF ToldFollows
  <1>10. TasksOK'
    BY <1>1, <1>2, <1>3 DEF TasksOK
  <1>11. Phases'
    BY <1>1, <1>2 DEF Phases
  <1>12. TypeOK'
    BY <1>1, <1>2 DEF TypeOK
  <1> QED
    BY <1>5, <1>6, <1>7, <1>8, <1>9, <1>10, <1>11, <1>12 DEF IInv

\* Worker.stop(): the sentinel names no file.
LEMMA StopWorkerStep ==
    ASSUME IInv, StopWorker
    PROVE  IInv'
  <1> DEFINE S == Tasks \cup {Sentinel}
             e == Sentinel
  <1>1. /\ life = "cancelled" /\ life' = "joining" /\ queue' = queue \o <<e>>
        /\ UNCHANGED <<files, changes, events, slot, held, calls, job, cache, starts,
                       unscanned, told, renamed, watched, excused, locked>>
    BY DEF StopWorker, StopWorkerWith, debouncer, ghosts
  <1>2. TypeOK /\ Phases /\ TasksOK /\ SourcesGone /\ CacheFollows /\ KnownIsTold /\ JobOK
    BY DEF IInv
  <1>3. queue \in Seq(S) /\ e \in S
    BY <1>2 DEF TypeOK
  <1>4. e.path = NoPath /\ e.from = NoPath /\ NoPath \notin Paths /\ Distinct(e)
    BY NoTaskFacts DEF Distinct
  <1> HIDE DEF S, e
  <1>5. queue' = Append(queue, e)
    BY <1>1, <1>3
  <1>6. /\ queue' \in Seq(S) /\ SourcesIn(queue') = SourcesIn(queue) \cup {NoPath}
        /\ \A i \in DOMAIN queue' : queue'[i] = e \/ \E j \in DOMAIN queue : queue'[i] = queue[j]
    BY <1>3, <1>4, <1>5, AppendFacts
  <1>7. /\ Busy' <=> Busy
        /\ watched = {}
    BY <1>1, <1>2 DEF Busy, Phases
  <1>8. \A q : q \in Sources' => q \in Sources
    BY <1>1, <1>4, <1>6, SourcesFacts
  <1>9. SourcesGone'
    BY <1>1, <1>2, <1>8 DEF SourcesGone
  <1>10. CacheFollows'
    BY <1>1, <1>2 DEF CacheFollows
  <1>11. KnownIsTold'
    BY <1>1, <1>2, <1>7 DEF KnownIsTold, Agrees
  <1>12. JobOK'
    BY <1>1, <1>2, <1>7 DEF JobOK
  <1>13. ToldFollows'
    BY <1>1, <1>7 DEF ToldFollows
  <1>14. TasksOK'
    BY <1>1, <1>2, <1>4, <1>6, <1>7 DEF TasksOK
  <1>15. Phases'
    BY <1>1, <1>2 DEF Phases
  <1>16. TypeOK'
    BY <1>1, <1>2, <1>6 DEF TypeOK, S, e
  <1> QED
    BY <1>9, <1>10, <1>11, <1>12, <1>13, <1>14, <1>15, <1>16 DEF IInv

\* The process ends: only the cache and what the core was told are left.
LEMMA ResetStep ==
    ASSUME IInv, Reset, UNCHANGED <<files, changes, cache, starts, told, renamed, locked>>,
           excused \subseteq excused', excused' \subseteq Paths,
           \A p \in Paths \ (excused' \cup locked) :
               /\ p \notin Ignored => cache[p] \in {files[p], Gone}
               /\ Agrees(p)
    PROVE  IInv'
  <1>1. /\ life' = "down" /\ events' = <<>> /\ slot' = [p \in Paths |-> NoTask] /\ held' = {}
        /\ calls' = 0 /\ queue' = <<>> /\ job' = Idle /\ unscanned' = {} /\ watched' = {}
    BY DEF Reset
  <1>2. TypeOK /\ Phases
    BY DEF IInv
  <1>3. /\ job'.at = "idle" /\ job'.task = NoTask /\ ~Busy'
        /\ Len(events') = 0 /\ DOMAIN events' = {} /\ DOMAIN queue' = {}
        /\ \A p \in Paths : slot'[p] = NoTask
    BY <1>1, NoTaskFacts DEF Busy
  <1>4. SourcesIn(events') = {} /\ SourcesIn(queue') = {}
    BY <1>3 DEF SourcesIn
  <1>5. \A q : q \notin Sources'
    BY <1>1, <1>3, <1>4, SourcesFacts, NoTaskFacts
  <1>6. SourcesGone'
    BY <1>3, <1>5 DEF SourcesGone
  <1>7. CacheFollows'
    BY <1>1 DEF CacheFollows
  <1>8. KnownIsTold'
    BY DEF KnownIsTold, Agrees
  <1>9. JobOK'
    BY <1>3 DEF JobOK
  <1>10. ToldFollows'
    BY <1>1 DEF ToldFollows
  <1>11. TasksOK'
    BY <1>1, <1>3, NoTaskFacts DEF TasksOK, Distinct
  <1>12. Phases'
    BY <1>1, <1>2, <1>3 DEF Phases
  <1>13. TypeOK'
    BY <1>1, <1>2 DEF TypeOK, Idle
  <1> QED
    BY <1>6, <1>7, <1>8, <1>9, <1>10, <1>11, <1>12, <1>13 DEF IInv

\* Worker.stop(): join() returns.
LEMMA JoinedStep ==
    ASSUME IInv, Joined
    PROVE  IInv'
  <1>1. /\ life = "joining" /\ job.at = "ended" /\ Reset
        /\ UNCHANGED <<files, changes, cache, starts, told, renamed, excused, locked>>
    BY DEF Joined
  <1>2. TypeOK /\ CacheFollows /\ KnownIsTold
    BY DEF IInv
  <1>3. \A p \in Paths \ (excused' \cup locked) :
            /\ p \notin Ignored => cache[p] \in {files[p], Gone}
            /\ Agrees(p)
    BY <1>1, <1>2 DEF CacheFollows, KnownIsTold, Busy
  <1>4. excused \subseteq excused' /\ excused' \subseteq Paths
    BY <1>1, <1>2 DEF TypeOK
  <1> QED
    BY <1>1, <1>3, <1>4, ResetStep

\* The process is killed: what was under way is noted.
LEMMA CrashStep ==
    ASSUME IInv, Crash
    PROVE  IInv'
  <1>1. /\ life # "down" /\ Reset /\ excused' = excused \cup (Unfinished \cap Paths)
        /\ UNCHANGED <<files, changes, cache, starts, told, renamed, locked>>
    BY DEF Crash
  <1>2. \A p \in Paths \ (excused' \cup locked) :
            /\ p \notin Ignored => cache[p] \in {files[p], Gone}
            /\ Agrees(p)
    BY <1>1, LostWork
  <1>3. excused \subseteq excused' /\ excused' \subseteq Paths
    BY <1>1 DEF IInv, TypeOK
  <1> QED
    BY <1>1, <1>2, <1>3, ResetStep

-----------------------------------------------------------------------------
(* The invariant *)

\* The inductive invariant holds when the agent was never started.
LEMMA InitIInv ==
    ASSUME Init
    PROVE  IInv
  <1>1. /\ events = <<>> /\ slot = [p \in Paths |-> NoTask] /\ held = {} /\ calls = 0
        /\ queue = <<>> /\ job = Idle /\ changes = 0 /\ starts = 0 /\ life = "down"
        /\ unscanned = {} /\ renamed = {} /\ watched = {} /\ excused = {} /\ locked = {}
        /\ files \in [Paths -> Contents \cup {Gone}]
        /\ cache = [p \in Paths |-> Gone] /\ told = [p \in Paths |-> Gone]
    BY DEF Init
  <1>2. /\ job.at = "idle" /\ job.task = NoTask /\ ~Busy
        /\ Len(events) = 0 /\ DOMAIN events = {} /\ DOMAIN queue = {}
        /\ \A p \in Paths : slot[p] = NoTask /\ cache[p] = Gone /\ told[p] = Gone
    BY <1>1, NoTaskFacts DEF Busy
  <1>3. Sources = {}
    BY <1>1, <1>2, NothingUnderWay
  <1>4. SourcesGone
    BY <1>2, <1>3 DEF SourcesGone
  <1>5. CacheFollows /\ KnownIsTold /\ JobOK /\ ToldFollows
    BY <1>1, <1>2 DEF CacheFollows, KnownIsTold, Agrees, JobOK, ToldFollows
  <1>6. TasksOK
    BY <1>1, <1>2, NoTaskFacts DEF TasksOK, Distinct
  <1>7. Phases
    BY <1>1, <1>2, BudgetAssumption DEF Phases
  <1>8. TypeOK
    BY <1>1 DEF TypeOK, Idle
  <1> QED
    BY <1>4, <1>5, <1>6, <1>7, <1>8 DEF IInv

\* Every step keeps the inductive invariant.
LEMMA NextIInv ==
    ASSUME IInv, [Next]_vars
    PROVE  IInv'
  <1>1. ASSUME Change
        PROVE  IInv'
    BY <1>1, ChangeStep
  <1>2. ASSUME Dispatch
        PROVE  IInv'
    BY <1>2, DispatchStep
  <1>3. ASSUME NEW p \in Paths, Fire(p) \/ Scan(p)
        PROVE  IInv'
    BY <1>3, FireStep, ScanStep
  <1>4. ASSUME NEW t \in held, Submit(t)
        PROVE  IInv'
    BY <1>4, SubmitStep
  <1>5. ASSUME Process
        PROVE  IInv'
    BY <1>5, BeginStep, HashStep, HashFailsStep, CacheFailsStep, ReportStep, WorkerEndsStep
       DEF Process
  <1>6. ASSUME Start \/ Watch \/ StopObserver \/ Crash
        PROVE  IInv'
    BY <1>6, StartStep, WatchStep, StopObserverStep, CrashStep
  <1>7. ASSUME Shutdown
        PROVE  IInv'
    BY <1>7, CancelAllStep, StopWorkerStep, JoinedStep DEF Shutdown
  <1>8. ASSUME UNCHANGED vars
        PROVE  IInv'
    <2>1. UNCHANGED <<files, changes, events, slot, held, calls, queue, job, cache, life,
                      starts, unscanned, told, renamed, watched, excused, locked>>
      BY <1>8 DEF vars, debouncer, host, ghosts
    <2>2. /\ PendingPaths' = PendingPaths /\ Sources' = Sources
          /\ Busy' <=> Busy
      BY <2>1 DEF PendingPaths, Sources, PendingSources, Busy
    <2>3. TypeOK' /\ Phases' /\ TasksOK' /\ SourcesGone'
      BY <2>1, <2>2 DEF IInv, TypeOK, Phases, TasksOK, SourcesGone
    <2>4. CacheFollows' /\ KnownIsTold'
      BY <2>1, <2>2 DEF IInv, CacheFollows, KnownIsTold, Agrees
    <2>5. JobOK' /\ ToldFollows'
      BY <2>1, <2>2 DEF IInv, JobOK, ToldFollows
    <2> QED
      BY <2>3, <2>4, <2>5 DEF IInv
  <1> QED
    BY <1>1, <1>2, <1>3, <1>4, <1>5, <1>6, <1>7, <1>8 DEF Next

\* The inductive invariant holds in every state.
LEMMA Invariant == SafetySpec => []IInv
  BY InitIInv, NextIInv, PTL DEF SafetySpec

\* Every variable keeps its type, through changes, failures, restarts and crashes.
THEOREM TypeCorrect == SafetySpec => []TypeOK
  <1>1. IInv => TypeOK
    BY DEF IInv
  <1> QED
    BY <1>1, Invariant, PTL

\* Once a burst of changes is worked off, FingerprintCache has exactly the rows of the
\* files that are there, with their contents, except for the noted gaps of the agent.
THEOREM CacheIsExact == SafetySpec => []QuietCacheExact
  <1>1. IInv => QuietCacheExact
    <2> SUFFICES ASSUME IInv, Quiet, NEW p \in Paths \ (Ignored \cup excused \cup locked)
                 PROVE  cache[p] = files[p]
      BY DEF QuietCacheExact
    <2>1. PendingPaths = {} /\ Sources = {} /\ life = "running" /\ job.at = "idle"
      BY NothingUnderWay, NoTaskFacts DEF Quiet
    <2> QED
      BY <2>1 DEF IInv, CacheFollows
  <1> QED
    BY <1>1, Invariant, PTL

\* Once a burst of changes is worked off, the last event that Worker.process submitted
\* for a changed file tells its present content, or its deletion if it was not renamed.
THEOREM ReportsAreCurrent == SafetySpec => []QuietReported
  <1>1. IInv => QuietReported
    <2> SUFFICES ASSUME IInv, Quiet, NEW p \in watched \ (Ignored \cup locked)
                 PROVE  /\ files[p] # Gone => told[p] = files[p]
                        /\ files[p] = Gone /\ p \notin excused \cup renamed => told[p] = Gone
      BY DEF QuietReported
    <2>1. PendingPaths = {} /\ Sources = {} /\ ~Busy /\ job.at = "idle"
      BY NothingUnderWay, NoTaskFacts DEF Quiet, Busy
    <2> QED
      BY <2>1 DEF IInv, ToldFollows
  <1> QED
    BY <1>1, Invariant, PTL

\* The label that Worker.process chooses by the cache is right for what the core was
\* told before: created of a name that is new or was renamed away, modified and deleted of
\* a known one only.
THEOREM LabelsAreNews == SafetySpec => LabelsTellNews
  <1> DEFINE News ==
               \A p \in Paths \ (excused \cup locked) :
                  job # job' /\ job'.at = "submit" /\ job'.task.path = p =>
                      /\ job'.label = "created" => told[p] = Gone \/ p \in renamed
                      /\ job'.label \in {"modified", "deleted"} => told[p] # Gone
  <1>1. IInv /\ [Next]_vars => [News]_vars
    <2> SUFFICES ASSUME IInv, Next, NEW p \in Paths \ (excused \cup locked),
                        job # job', job'.at = "submit", job'.task.path = p
                 PROVE  /\ job'.label = "created" => told[p] = Gone \/ p \in renamed
                        /\ job'.label \in {"modified", "deleted"} => told[p] # Gone
      OBVIOUS
    <2>1. TypeOK /\ TasksOK /\ KnownIsTold
      BY DEF IInv
    <2>2. Begin \/ Hash
      <3>1. Change => job' = job
        BY DEF Change, Write, Delete, Move, Notice
      <3>2. Dispatch \/ (\E q \in Paths : Fire(q) \/ Scan(q)) \/ (\E t \in held : Submit(t))
               => job' = job
        BY DEF Dispatch, DispatchIf, Fire, Scan, Submit, SubmitAs
      <3>3. HashFails \/ CacheFails \/ Report \/ WorkerEnds => job'.at \in {"idle", "ended"}
        BY NoTaskFacts DEF HashFails, HashFailsTo, CacheFails, Report, WorkerEnds, Idle
      <3>4. Start \/ Watch \/ StopObserver \/ CancelAll \/ StopWorker => job' = job
        BY DEF Start, Watch, StopObserver, CancelAll, StopWorker, StopWorkerWith
      <3>5. Joined \/ Crash => job'.at = "idle"
        BY NoTaskFacts DEF Joined, Crash, Reset
      <3> QED
        BY <3>1, <3>2, <3>3, <3>4, <3>5 DEF Next, Process, Shutdown
    <2>3. CASE Begin
      <3> DEFINE t == Head(queue)
      <3>1. /\ job.at = "idle" /\ job'.task = t /\ job'.label = "deleted"
            /\ queue # <<>> /\ t # Sentinel /\ queue' = Tail(queue)
            /\ WithoutSource(t)[t.path] # Gone
            /\ UNCHANGED <<events, slot, held>>
        BY <2>3 DEF Begin, BeginWith, Idle, debouncer
      <3>2. t \in Tasks /\ Distinct(t)
        BY <3>1, TakenWork
      <3> HIDE DEF t
      <3>3. p = t.path /\ t.path # t.from /\ t.path \in Paths /\ t.from \in Paths \cup {NoPath}
        BY <3>1, <3>2, NoTaskFacts DEF Distinct
      <3>4. cache[p] # Gone
        BY <2>1, <3>1, <3>3 DEF WithoutSource, TypeOK
      <3> QED
        BY <2>1, <3>1, <3>4 DEF KnownIsTold, Agrees, Busy
    <2>4. CASE Hash
      <3>1. /\ job.at = "hash" /\ job'.task = job.task
            /\ job'.label \in {"created", "modified", "moved"}
            /\ job'.label = "created" => cache[p] = Gone
            /\ job'.label = "modified" => cache[p] # Gone
        BY <2>1, <2>4 DEF Hash, HashAs, TypeOK
      <3>2. job.task.path = p /\ job.task.from # p
        BY <2>1, <3>1, NoTaskFacts DEF TasksOK, Distinct, Busy
      <3> QED
        BY <2>1, <3>1, <3>2 DEF KnownIsTold, Agrees
    <2> QED
      BY <2>2, <2>3, <2>4
  <1>2. [][News]_vars <=> LabelsTellNews
    BY DEF LabelsTellNews
  <1> QED
    BY <1>1, <1>2, Invariant, PTL DEF SafetySpec

-----------------------------------------------------------------------------
(* Ignored names *)

\* No work about an ignored name gets past the handler; moves away from one do.
KeptOut ==
    /\ IgnoredStaysOut
    /\ \A p \in Ignored :
          /\ slot[p] = NoTask /\ p \notin PathsIn(queue) /\ job.task.path # p
          /\ \A t \in held : t.path # p

\* Forgetting a move's source puts nothing into the cache.
LEMMA WithoutSourceFacts ==
    ASSUME NEW t, NEW p, cache[p] = Gone, p \in DOMAIN cache
    PROVE  p \in DOMAIN WithoutSource(t) /\ WithoutSource(t)[p] = Gone
  BY DEF WithoutSource

\* A step that takes the oldest task, if it is one.
LEMMA KeptOutTaken ==
    ASSUME IInv, KeptOut, queue # <<>>, queue' = Tail(queue), UNCHANGED <<slot, held>>
    PROVE  \A p \in Ignored :
              /\ p \in DOMAIN cache /\ Head(queue).path # p
              /\ slot'[p] = NoTask /\ p \notin PathsIn(queue') /\ \A t \in held' : t.path # p
  <1>1. queue \in Seq(Tasks \cup {Sentinel}) /\ cache \in [Paths -> Contents \cup {Gone}]
    BY DEF IInv, TypeOK
  <1>2. PathsIn(queue) = PathsIn(Tail(queue)) \cup {Head(queue).path}
    BY <1>1, TailFacts
  <1> QED
    BY <1>1, <1>2, NoTaskFacts DEF KeptOut

\* _Handler drops the events of ignored names, and nothing behind it makes up a name.
LEMMA KeptOutStep ==
    ASSUME IInv, KeptOut, [Next]_vars
    PROVE  KeptOut'
  <1> USE DEF IgnoredStaysOut
  <1>1. TypeOK /\ TasksOK
    BY DEF IInv
  <1>2. Ignored \subseteq Paths /\ NoPath \notin Ignored
    BY NamesAssumption
  <1>3. CASE UNCHANGED <<slot, held, queue, job, cache, told>>
    BY <1>3 DEF KeptOut
  <1>4. CASE Change
    <2>1. UNCHANGED <<slot, held, queue, job, cache, told>>
      BY <1>4 DEF Change, Write, Delete, Move, Notice, debouncer
    <2> QED
      BY <1>3, <2>1
  <1>5. CASE Dispatch
    <2> DEFINE e == Head(events)
               t == [n |-> calls + 1, path |-> e.path, from |-> e.from]
    <2>1. UNCHANGED <<job, cache, told>>
      BY <1>5 DEF Dispatch, DispatchIf
    <2>2. CASE e.path \in Ignored
      <3>1. UNCHANGED <<slot, held, queue>>
        BY <1>5, <2>2 DEF Dispatch, DispatchIf, debouncer
      <3> QED
        BY <1>3, <2>1, <3>1
    <2>3. CASE e.path \notin Ignored
      <3>1. slot' = [slot EXCEPT ![e.path] = t] /\ UNCHANGED <<held, queue>>
        BY <1>5, <2>3 DEF Dispatch, DispatchIf, Slots!Put
      <3>2. \A p \in Ignored : slot'[p] = slot[p]
        BY <1>1, <1>2, <2>3, <3>1 DEF TypeOK
      <3> QED
        BY <2>1, <3>1, <3>2 DEF KeptOut
    <2> QED
      BY <2>2, <2>3
  <1>6. ASSUME NEW p \in Paths, Fire(p)
        PROVE  KeptOut'
    <2>1. /\ slot[p] # NoTask /\ held' = held \cup {slot[p]}
          /\ slot' = [slot EXCEPT ![p] = NoTask] /\ queue' = queue
          /\ UNCHANGED <<job, cache, told>>
      BY <1>6 DEF Fire, Slots!Take, ghosts
    <2>2. p \notin Ignored /\ slot[p].path = p
      BY <1>1, <2>1 DEF KeptOut, TasksOK
    <2>3. \A q \in Ignored : slot'[q] = slot[q]
      BY <1>1, <1>2, <2>1, <2>2 DEF TypeOK
    <2> QED
      BY <2>1, <2>2, <2>3 DEF KeptOut
  <1>7. ASSUME NEW p \in Paths, Scan(p)
        PROVE  KeptOut'
    <2>1. UNCHANGED <<slot, held, queue, job>>
      BY <1>7 DEF Scan, debouncer
    <2>2. \A q \in Ignored : cache'[q] = cache[q] /\ told'[q] = told[q]
      BY <1>1, <1>2, <1>7 DEF Scan, TypeOK
    <2> QED
      BY <2>1, <2>2 DEF KeptOut
  <1>8. ASSUME NEW t \in held, Submit(t)
        PROVE  KeptOut'
    <2>1. /\ held' = held \ {t} /\ queue' = Append(queue, t)
          /\ UNCHANGED <<slot, job, cache, told>>
      BY <1>8 DEF Submit, SubmitAs, ghosts
    <2>2. queue \in Seq(Tasks \cup {Sentinel}) /\ t \in Tasks \cup {Sentinel}
      BY <1>1 DEF TypeOK
    <2>3. PathsIn(queue') = PathsIn(queue) \cup {t.path}
      BY <2>1, <2>2, AppendFacts
    <2> QED
      BY <2>1, <2>3 DEF KeptOut
  <1>9. CASE Begin
    <2> DEFINE t == Head(queue)
               cache1 == WithoutSource(t)
    <2>1. /\ queue # <<>> /\ queue' = Tail(queue) /\ UNCHANGED <<slot, held, told>>
          /\ cache' \in {cache1, [cache1 EXCEPT ![t.path] = Gone]}
          /\ job' = job \/ job'.task = t
      BY <1>9 DEF Begin, BeginWith, Idle, debouncer
    <2>2. \A p \in Ignored : p \in DOMAIN cache /\ t.path # p
      BY <2>1, KeptOutTaken
    <2>3. \A p \in Ignored : p \in DOMAIN cache1 /\ cache1[p] = Gone
      BY <2>2, WithoutSourceFacts DEF KeptOut
    <2> HIDE DEF cache1
    <2>4. \A p \in Ignored : cache'[p] = Gone
      BY <2>1, <2>2, <2>3
    <2>5. \A p \in Ignored : job'.task.path # p
      BY <2>1, <2>2 DEF KeptOut
    <2> QED
      BY <2>1, <2>4, <2>5, KeptOutTaken DEF KeptOut
  <1>10. CASE Hash
    <2>1. /\ cache' = [cache EXCEPT ![job.task.path] = files[job.task.path]]
          /\ job'.task = job.task /\ UNCHANGED <<slot, held, queue, told>>
      BY <1>1, <1>10 DEF Hash, HashAs, TypeOK, debouncer
    <2>2. \A p \in Ignored : cache'[p] = cache[p]
      BY <1>1, <1>2, <2>1 DEF KeptOut, TypeOK
    <2> QED
      BY <2>1, <2>2 DEF KeptOut
  <1>11. CASE HashFails
    <2>1. job'.task.path = NoPath /\ UNCHANGED <<slot, held, queue, cache, told>>
      BY <1>11, NoTaskFacts DEF HashFails, HashFailsTo, debouncer
    <2> QED
      BY <1>2, <2>1 DEF KeptOut
  <1>12. CASE CacheFails
    <2> DEFINE begins == job.at = "idle" /\ queue # <<>> /\ Head(queue) # Sentinel
               t == IF begins THEN Head(queue) ELSE job.task
    <2>1. /\ queue' = IF begins THEN Tail(queue) ELSE queue
          /\ job'.task.path = NoPath /\ UNCHANGED <<slot, held, told>>
          /\ \E c \in {cache, WithoutSource(t)} :
                cache' \in {c, [c EXCEPT ![t.path] = files[t.path]]}
      BY <1>12, NoTaskFacts DEF CacheFails, debouncer
    <2>2. \A p \in Ignored : t.path # p
      BY <2>1, KeptOutTaken DEF KeptOut
    <2>3. PICK c \in {cache, WithoutSource(t)} :
             cache' \in {c, [c EXCEPT ![t.path] = files[t.path]]}
      BY <2>1
    <2>4. \A p \in Ignored : p \in DOMAIN cache /\ cache[p] = Gone
      BY <1>1, <1>2 DEF KeptOut, TypeOK
    <2>5. \A p \in Ignored : p \in DOMAIN c /\ c[p] = Gone
      BY <2>3, <2>4, WithoutSourceFacts
    <2> HIDE DEF t
    <2>6. \A p \in Ignored : cache'[p] = Gone
      BY <2>2, <2>3, <2>5
    <2>7. \A p \in Ignored : p \notin PathsIn(queue')
      BY <2>1, KeptOutTaken DEF KeptOut
    <2> QED
      BY <1>2, <2>1, <2>6, <2>7 DEF KeptOut
  <1>13. CASE Report
    <2>1. /\ UNCHANGED <<slot, held, queue, cache>> /\ job'.task.path = NoPath
          /\ \A p \in Paths : p # job.task.path => told'[p] = told[p]
      BY <1>13, NoTaskFacts DEF Report, debouncer
    <2> QED
      BY <1>2, <2>1 DEF KeptOut
  <1>14. CASE WorkerEnds
    <2>1. /\ queue # <<>> /\ queue' = Tail(queue) /\ job'.task.path = NoPath
          /\ UNCHANGED <<slot, held, cache, told>>
      BY <1>14, NoTaskFacts DEF WorkerEnds, debouncer, ghosts
    <2> QED
      BY <1>2, <2>1, KeptOutTaken DEF KeptOut
  <1>15. CASE Start \/ Watch \/ StopObserver
    <2>1. UNCHANGED <<slot, held, queue, job, cache, told>>
      BY <1>15 DEF Start, Watch, StopObserver, debouncer, ghosts
    <2> QED
      BY <1>3, <2>1
  <1>16. CASE CancelAll
    <2>1. /\ slot' = [p \in Paths |-> NoTask] /\ UNCHANGED <<held, queue, job, cache, told>>
      BY <1>16 DEF CancelAll, Slots!Clear, ghosts
    <2> QED
      BY <1>2, <2>1 DEF KeptOut
  <1>17. CASE StopWorker
    <2>1. /\ queue' = queue \o <<Sentinel>> /\ UNCHANGED <<slot, held, job, cache, told>>
      BY <1>17 DEF StopWorker, StopWorkerWith, debouncer, ghosts
    <2>2. queue \in Seq(Tasks \cup {Sentinel})
      BY <1>1 DEF TypeOK
    <2>3. queue' = Append(queue, Sentinel)
      BY <2>1, <2>2
    <2>4. PathsIn(queue') = PathsIn(queue) \cup {NoPath}
      BY <2>2, <2>3, AppendFacts, NoTaskFacts
    <2> QED
      BY <1>2, <2>1, <2>4 DEF KeptOut
  <1>18. CASE Joined \/ Crash
    <2>1. /\ slot' = [p \in Paths |-> NoTask] /\ held' = {} /\ queue' = <<>>
          /\ job'.task.path = NoPath /\ UNCHANGED <<cache, told>>
      BY <1>18, NoTaskFacts DEF Joined, Crash, Reset
    <2> QED
      BY <1>2, <2>1 DEF KeptOut, PathsIn
  <1>19. CASE UNCHANGED vars
    BY <1>3, <1>19 DEF vars, debouncer, ghosts
  <1> QED
    BY <1>4, <1>5, <1>6, <1>7, <1>8, <1>9, <1>10, <1>11, <1>12, <1>13, <1>14, <1>15, <1>16,
       <1>17, <1>18, <1>19 DEF Next, Process, Shutdown

\* Nothing of a name that ignore_globs matches gets into FingerprintCache or to the core:
\* initial_scan and _Handler filter it, and no task makes it up again.
THEOREM IgnoredNamesStayOut == SafetySpec => []IgnoredStaysOut
  <1>1. Init => KeptOut
    BY NamesAssumption, NoTaskFacts DEF Init, KeptOut, IgnoredStaysOut, PathsIn
  <1>2. IInv /\ KeptOut /\ [Next]_vars => KeptOut'
    BY KeptOutStep
  <1>3. KeptOut => IgnoredStaysOut
    BY DEF KeptOut
  <1> QED
    BY <1>1, <1>2, <1>3, Invariant, PTL DEF SafetySpec

=============================================================================
