-------------------------------- MODULE Host --------------------------------
(***************************************************************************)
(* client/main.py with client/connector: one process that hosts the core,  *)
(* the file agent and the intake of the browser bridge, from its start to  *)
(* its end, and the bridge beside it.                                      *)
(*                                                                         *)
(*   Chrome -> bridge -> (a detached thread a POST) -> intake --+          *)
(*                                     file agent's worker -----+-> core   *)
(*                                                                         *)
(* The core is used through what it promises (module CoreQueue, which      *)
(* Egress implements), the file agent is its worker thread: it submits,    *)
(* and stops once it is told to (module FileAgent).  Ctrl-C can come at    *)
(* any point of main(), also twice.                                        *)
(***************************************************************************)
EXTENDS Connector, CoreQueue

CONSTANTS
    Analyses,       \* bound: content analysis requests of Chrome
    RequestsOf(_),  \* what an analysis request may hold: [connector, url, text, file, digest]
    Rewrites,       \* what a file may become: a content, Empty or Unreadable
    Versions,       \* bound: what a file is, one after the other, while its request is under way
    NoOne

\* What reading a file gives is never None.
ASSUME HostAssumption ==
    /\ Analyses \subseteq Events /\ End \notin Events /\ NoOne \notin Events
    /\ Null \notin Rewrites

FileEvents == Events \ Analyses

VARIABLES
    main,       \* the main thread: [at, n]
    process,    \* "up", or how it ended: "clean" or "failed"
    alive,      \* daemon threads that run: of "core", "worker", "intake"
    told,       \* threads that were told to stop
    listening,  \* the intake's port is bound
    backlog,    \* connections that wait to be accepted
    handling,   \* the connection the intake's only thread is busy with
    bridge,     \* the bridge's process
    chrome,     \* an analysis request, as Chrome sees it
    request,    \* its contents; a file's name stands for what Chrome saw in it
    disk,       \* what the request's file was since then; the last it is now
    post,       \* the POST of an analysis request, as its thread in the bridge sees it
    trace       \* the TraceEvent submitted for it

intakeVars == <<listening, backlog, handling>>
chromeVars == <<bridge, chrome, request, disk>>
vars == <<queueVars, main, process, alive, told, intakeVars, chromeVars, post, trace>>

\* main() starts these in this order ...
StartOrder == <<"config", "core", "scan", "worker", "port", "intake">>

\* Mutant of main(): the core is stopped before the file agent.
StopCoreEarly == <<"intake", "core", "worker">>

StopWatcherThenCore == <<"intake", "worker", "core">>

\* ... and stops these in this order.
StopOrder == StopWatcherThenCore

At(where, n) == [at |-> where, n |-> n]

TypeOK ==
    /\ main \in [at : {"start", "loop", "tell", "await", "returned", "raised"}, n : 0 .. 6]
    /\ process \in {"up", "clean", "failed"}
    /\ alive \cup told \subseteq {"core", "worker", "intake"}
    /\ listening \in BOOLEAN
    /\ backlog \in Seq(Analyses) /\ handling \in Analyses \cup {NoOne}
    /\ handling # NoOne => "intake" \in alive
    /\ bridge \in {"up", "down"}
    /\ chrome \in [Analyses -> {"unasked", "asked", "spawned", "answered", "failopen"}]
    /\ \A r \in Analyses : disk[r] \in Seq({a.file : a \in RequestsOf(r)} \cup Rewrites)
    /\ post \in [Analyses -> {"none", "thread", "open", "whole", "late", "cut",
                              "ok", "error", "lost"}]
    /\ \A i \in DOMAIN waiting : waiting[i] \in Events \cup {End}
    /\ \A i \in DOMAIN backlog : post[backlog[i]] \in {"open", "whole", "late", "cut"}

Init ==
    /\ QueueInit
    /\ main = At("start", 1) /\ process = "up"
    /\ alive = {} /\ told = {}
    /\ listening = FALSE /\ backlog = <<>> /\ handling = NoOne
    /\ bridge = "up"
    /\ chrome = [r \in Analyses |-> "unasked"]
    /\ request = [r \in Analyses |-> Null] /\ disk = [r \in Analyses |-> <<>>]
    /\ post = [r \in Analyses |-> "none"]
    /\ trace = [r \in Analyses |-> NoEvent]

-----------------------------------------------------------------------------
(* The main thread *)

Up == process = "up"

\* load_config, cache, core.start, initial_scan, watcher.start, serve, Thread.start.
Start ==
    LET part == StartOrder[main.n] IN
    /\ Up /\ main.at = "start"
    /\ main' = IF main.n = Len(StartOrder) THEN At("loop", 0) ELSE At("start", main.n + 1)
    /\ alive' = alive \cup ({part} \cap {"core", "worker", "intake"})
    /\ listening' = (listening \/ part = "port")
    /\ UNCHANGED <<queueVars, process, told, backlog, handling, chromeVars, post, trace>>

\* An exception on the way (an invalid config, an unreadable database, a watch path
\* that is gone, a port that is taken) or Ctrl-C: all of it is outside the try, so
\* nothing that was started is stopped.  The thread of the step may be running already.
StartFails ==
    /\ Up /\ main.at = "start"
    /\ main' = At("raised", 0)
    /\ alive' \in {alive, alive \cup ({StartOrder[main.n]} \cap {"worker", "intake"})}
    /\ UNCHANGED <<queueVars, process, told, intakeVars, chromeVars, post, trace>>

\* Ctrl-C in the loop leads to the finally clause.
Interrupt ==
    /\ Up /\ main.at = "loop"
    /\ main' = At("tell", 1)
    /\ UNCHANGED <<queueVars, process, alive, told, intakeVars, chromeVars, post, trace>>

\* Mutant of CollectorCore.stop: the sentinel is not queued.
CloseWithoutSentinel == UNCHANGED queueVars

CloseCore == Close

\* httpd.shutdown() sets its flag; watcher.stop() ends the observer, cancels the
\* timers and queues the worker's sentinel; core.stop() queues the core's.
Tell ==
    LET part == StopOrder[main.n] IN
    /\ Up /\ main.at = "tell"
    /\ main' = At("await", main.n)
    /\ told' = told \cup {part}
    /\ IF part = "core" THEN CloseCore ELSE UNCHANGED queueVars
    /\ UNCHANGED <<process, alive, intakeVars, chromeVars, post, trace>>

\* Mutant of shutdown and stop: nobody waits for the thread.
AwaitNothing ==
    /\ Up /\ main.at = "await"
    /\ main' = IF main.n = Len(StopOrder) THEN At("returned", 0) ELSE At("tell", main.n + 1)
    /\ UNCHANGED <<queueVars, process, alive, told, intakeVars, chromeVars, post, trace>>

\* ... and each waits for its thread.
Await ==
    /\ Up /\ main.at = "await" /\ StopOrder[main.n] \notin alive
    /\ main' = IF main.n = Len(StopOrder) THEN At("returned", 0) ELSE At("tell", main.n + 1)
    /\ UNCHANGED <<queueVars, process, alive, told, intakeVars, chromeVars, post, trace>>

\* A second Ctrl-C, in the finally clause: what is not stopped yet never is.
InterruptAgain ==
    /\ Up /\ main.at \in {"tell", "await"}
    /\ main' = At("raised", 0)
    /\ UNCHANGED <<queueVars, process, alive, told, intakeVars, chromeVars, post, trace>>

\* The process ends: daemon threads with it, and the connections are reset.
Exit ==
    /\ Up /\ main.at \in {"returned", "raised"}
    /\ process' = IF main.at = "returned" THEN "clean" ELSE "failed"
    /\ alive' = {} /\ listening' = FALSE /\ backlog' = <<>> /\ handling' = NoOne
    /\ post' = [r \in Analyses |->
                  IF post[r] \in {"open", "whole", "late", "cut"} THEN "lost" ELSE post[r]]
    /\ UNCHANGED <<queueVars, main, told, chromeVars, trace>>

-----------------------------------------------------------------------------
(* The threads that submit and the core *)

\* Tasks the worker had before it was told to stop; Worker.process calls submit.
WorkerSubmits(f) ==
    /\ "worker" \in alive
    /\ Offer(f)
    /\ UNCHANGED <<main, process, alive, told, intakeVars, chromeVars, post, trace>>

WorkerEnds ==
    /\ "worker" \in alive \cap told
    /\ alive' = alive \ {"worker"}
    /\ UNCHANGED <<queueVars, main, process, told, intakeVars, chromeVars, post, trace>>

CoreStep ==
    /\ "core" \in alive
    /\ Decide \/ Finish
    /\ alive' = IF ended' THEN alive \ {"core"} ELSE alive
    /\ UNCHANGED <<main, process, told, intakeVars, chromeVars, post, trace>>

-----------------------------------------------------------------------------
(* The intake: serve_forever, one connection after the other *)

\* Mutant of serve_forever: the connection stays in the queue.
AcceptKeeping ==
    /\ "intake" \in alive \ told /\ handling = NoOne /\ backlog # <<>>
    /\ handling' = Head(backlog)
    /\ UNCHANGED <<queueVars, main, process, alive, told, listening, backlog, chromeVars, post, trace>>

Accept ==
    /\ "intake" \in alive \ told /\ handling = NoOne /\ backlog # <<>>
    /\ handling' = Head(backlog)
    /\ backlog' = Tail(backlog)
    /\ UNCHANGED <<queueVars, main, process, alive, told, listening, chromeVars, post, trace>>

HandleIn(r, survivors) ==
    /\ handling = r /\ post[r] \in {"whole", "late"}
    /\ LET read == disk[r][Len(disk[r])]
           result == HandleRequest(BuildJson(request[r]), read)
       IN
       /\ IF result.event # NoEvent THEN Offer(r) ELSE UNCHANGED queueVars
       /\ trace' = [trace EXCEPT ![r] = result.event]
       /\ post' = [post EXCEPT ![r] = IF @ = "late" THEN "lost" ELSE result.status]
       /\ alive' = IF result.status = "error" THEN survivors ELSE alive
    /\ handling' = NoOne
    /\ UNCHANGED <<main, process, told, listening, backlog, chromeVars>>

\* Mutant of do_POST: an exception ends the thread.
HandleFatally(r) == HandleIn(r, alive \ {"intake"})

\* do_POST with a whole body: handle_request, which reads the file as it is now and
\* compares it with nothing, and the answer.
Handle(r) == HandleIn(r, alive)

\* do_POST with a body that ends too early: JSON that cannot be parsed.  Nothing ends
\* the wait for a body that does not come.
HandleCut(r) ==
    /\ handling = r /\ post[r] = "cut"
    /\ post' = [post EXCEPT ![r] = "lost"]
    /\ handling' = NoOne
    /\ UNCHANGED <<queueVars, main, process, alive, told, listening, backlog, chromeVars, trace>>

\* serve_forever sees the flag of shutdown() between two connections.
ServeEnds ==
    /\ "intake" \in alive \cap told /\ handling = NoOne
    /\ alive' = alive \ {"intake"}
    /\ UNCHANGED <<queueVars, main, process, told, intakeVars, chromeVars, post, trace>>

-----------------------------------------------------------------------------
(* Chrome and the bridge *)

Ask(r) ==
    /\ bridge = "up" /\ chrome[r] = "unasked"
    /\ chrome' = [chrome EXCEPT ![r] = "asked"]
    /\ \E a \in RequestsOf(r) : /\ request' = [request EXCEPT ![r] = a]
                               /\ disk' = [disk EXCEPT ![r] = <<a.file>>]
    /\ UNCHANGED <<queueVars, main, process, alive, told, intakeVars, bridge, post, trace>>

\* Nobody holds the file: before the intake gets to it, it may be changed, emptied,
\* deleted or locked.  What becomes of it once nobody will read it is of no interest.
Rewrite(r) ==
    /\ post[r] \in {"thread", "open", "whole", "late"}
    /\ Given(request[r].file) /\ Len(disk[r]) < Versions
    /\ \E c \in Rewrites : disk' = [disk EXCEPT ![r] = Append(@, c)]
    /\ UNCHANGED <<queueVars, main, process, alive, told, intakeVars, bridge, chrome, request,
                   post, trace>>

\* The handler builds the JSON and detaches a thread for it ...
Spawn(r) ==
    /\ bridge = "up" /\ chrome[r] = "asked"
    /\ chrome' = [chrome EXCEPT ![r] = "spawned"]
    /\ post' = [post EXCEPT ![r] = "thread"]
    /\ UNCHANGED <<queueVars, main, process, alive, told, intakeVars, bridge, request, disk, trace>>

\* ... and returns ALLOW without waiting for it.
Answer(r) ==
    /\ bridge = "up" /\ chrome[r] = "spawned"
    /\ chrome' = [chrome EXCEPT ![r] = "answered"]
    /\ UNCHANGED <<queueVars, main, process, alive, told, intakeVars, bridge, request, disk,
                   post, trace>>

\* post_to_intake: the connection is made or fails, the body is sent, the thread
\* waits for the response, at most for WinHTTP's timeouts.
Connect(r) ==
    /\ post[r] = "thread"
    /\ \/ /\ listening
          /\ post' = [post EXCEPT ![r] = "open"]
          /\ backlog' = Append(backlog, r)
       \/ /\ post' = [post EXCEPT ![r] = "lost"]
          /\ UNCHANGED backlog
    /\ UNCHANGED <<queueVars, main, process, alive, told, listening, handling, chromeVars, trace>>

PostGoes(r, from, to) ==
    /\ post[r] = from
    /\ post' = [post EXCEPT ![r] = to]
    /\ UNCHANGED <<queueVars, main, process, alive, told, intakeVars, chromeVars, trace>>

SendBody(r) == PostGoes(r, "open", "whole")

GiveUp(r) == PostGoes(r, "open", "cut") \/ PostGoes(r, "whole", "late")

\* The bridge's process ends, its threads with it; Chrome's policy allows what was
\* not answered.
BridgeEnds ==
    /\ bridge = "up"
    /\ bridge' = "down"
    /\ chrome' = [r \in Analyses |->
                    IF chrome[r] \in {"asked", "spawned"} THEN "failopen" ELSE chrome[r]]
    /\ post' = [r \in Analyses |-> CASE post[r] = "thread" -> "lost"
                                     [] post[r] = "open" -> "cut"
                                     [] post[r] = "whole" -> "late"
                                     [] OTHER -> post[r]]
    /\ UNCHANGED <<queueVars, main, process, alive, told, intakeVars, request, disk, trace>>

-----------------------------------------------------------------------------
MainThread == Start \/ StartFails \/ Tell \/ Await \/ Exit

IntakeThread == Accept \/ ServeEnds \/ \E r \in Analyses : Handle(r) \/ HandleCut(r)

Handler == \E r \in Analyses : Spawn(r) \/ Answer(r)

PostThreads == \E r \in Analyses : Connect(r) \/ SendBody(r)

Next ==
    \/ MainThread \/ Interrupt \/ InterruptAgain
    \/ \E f \in FileEvents : WorkerSubmits(f)
    \/ WorkerEnds \/ CoreStep
    \/ IntakeThread
    \/ Handler \/ PostThreads \/ BridgeEnds
    \/ \E r \in Analyses : Ask(r) \/ GiveUp(r) \/ Rewrite(r)

\* The host's threads run and so do the bridge's once they are detached: the core decides
\* what it is given (Egress), the worker ends when told (FileAgent), a POST's thread
\* sends the body it announced.  Nobody has to ask, to detach a thread, to
\* interrupt, record, rewrite a file or give up.
Spec ==
    /\ Init /\ [][Next]_vars
    /\ WF_vars(MainThread) /\ WF_vars(IntakeThread)
    /\ WF_vars(WorkerEnds) /\ WF_vars(CoreStep)
    /\ WF_vars(PostThreads)

-----------------------------------------------------------------------------
(* Properties *)

\* Nothing is ever submitted behind the core's sentinel, from either producer: what is
\* there would never be sent and nobody would be told.
NothingBehindSentinel ==
    /\ \A i \in DOMAIN waiting : waiting[i] = End => i = Len(waiting)
    /\ ended => waiting = <<>>

\* main() and the producers keep their part of the queue's contract, whenever they are
\* interrupted, and the core its part: what Egress shows under that contract holds here.
KeepsContract == QueueSpec

\* A host that was stopped by one Ctrl-C has decided everything that was submitted
\* and everything a POST was answered for.
CleanExitDelivers ==
    process = "clean" =>
        waiting = <<>> /\ \A r \in Analyses : trace[r] # NoEvent => r \in decided

\* What the file of a request was, from Chrome's question to the intake's read.
Held(r) == {disk[r][i] : i \in DOMAIN disk[r]}

\* A browser event that leaves the host has a destination and a fingerprint of something:
\* of a text that is not empty, of what the file held at some moment since Chrome asked,
\* never mixed, or the digest Chrome gave, and that without a fuzzy hash and only if the
\* file could not be read.  The intake drops nothing else while it says 200 (the
\* detection design, 8).
SubmittedIffTraceable ==
    \A r \in Analyses :
        LET a == request[r]
            event == trace[r]
            kinds == {"FILE_ATTACHED", "FILE_DOWNLOADED", "BULK_DATA_ENTRY"}
            kept == /\ a.text = Null /\ Given(a.file)
                    /\ Unreadable \in Held(r) => Given(a.digest)
        IN
        /\ event # NoEvent =>
              /\ Given(event.url) /\ event.url = a.url
              /\ \/ Given(a.text) /\ event.sha256 = a.text
                 \/ /\ a.text = Null /\ event.sha256 \in Held(r) \ {Unreadable}
                    /\ event.fuzzy_hash = Fingerprint(event.sha256).fuzzy_hash
                 \/ /\ a.text = Null /\ Unreadable \in Held(r) /\ Given(a.digest)
                    /\ event.sha256 = a.digest /\ event.fuzzy_hash = Null
        /\ post[r] = "ok" /\ a.connector \in kinds /\ Given(a.url) /\ (Given(a.text) \/ kept)
              => event # NoEvent

\* The detection design, 6: Chrome's digest is there to cross-check the fingerprint.  So
\* the content that is submitted for a file is the one Chrome asked about.
FingerprintIsWhatChromeSaw ==
    \A r \in Analyses :
        trace[r] # NoEvent /\ request[r].text = Null /\ Given(request[r].digest) =>
            trace[r].sha256 = request[r].digest

\* A POST that was sent completely is handled, whatever the ones before it were like,
\* unless the host stops or the bridge gives up waiting.
EveryPostHandled == []<>(main.at # "loop" \/ \A r \in Analyses : post[r] # "whole")

\* One Ctrl-C ends the process, through whatever the threads are busy with.
StopCompletes == main.at = "tell" ~> process # "up"

=============================================================================
