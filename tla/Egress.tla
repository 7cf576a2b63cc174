------------------------------- MODULE Egress -------------------------------
(***************************************************************************)
(* client/core: the one way out of the agent host.  Collector threads      *)
(* submit TraceEvents, the core's thread posts them one by one and retries,*)
(* the server records what reaches it.                                     *)
(*                                                                         *)
(* An event is its place in the submission order.  One POST is the pair of *)
(* the event and the attempt.  The client waits for an answer at most for  *)
(* its timeout; a POST it has given up on may be lost or may still reach   *)
(* the server, at any later time.                                          *)
(***************************************************************************)
EXTENDS Naturals, Sequences, FiniteSets

CONSTANTS
    MaxEvents,    \* bound: events submitted
    Retries       \* Sender's retries

ASSUME EgressAssumption == MaxEvents \in Nat /\ Retries \in Nat

Events == 1 .. MaxEvents
Attempts == 1 .. (Retries + 1)
Sentinel == 0
Idle == [at |-> "idle", event |-> Sentinel, attempt |-> 0]

VARIABLES
    submitted,   \* events submitted so far
    queue,       \* CollectorCore._queue
    core,        \* the core's thread: [at, event, attempt]
    wire,        \* POSTs on their way to the server or being handled by it
    answer,      \* what the client's connection holds for the current attempt
    record,      \* the server's event rows, in order: the POSTs they came from
    outcome,     \* what became of an event, as the core sees it
    stopping     \* stop() has queued the sentinel

vars == <<submitted, queue, core, wire, answer, record, outcome, stopping>>

Posts == [event : Events, attempt : Attempts]

TypeOK ==
    /\ submitted \in 0 .. MaxEvents
    /\ queue \in Seq(Events \cup {Sentinel})
    /\ core \in [at : {"idle", "sending", "waiting", "ended"}, event : Events \cup {Sentinel},
                 attempt : 0 .. (Retries + 1)]
    /\ wire \subseteq Posts
    /\ answer \in {"none", "ok", "error"}
    /\ record \in Seq(Posts)
    /\ outcome \in [Events -> {"none", "acked", "dropped", "raised"}]
    /\ stopping \in BOOLEAN

Init ==
    /\ submitted = 0 /\ queue = <<>> /\ core = Idle
    /\ wire = {} /\ answer = "none" /\ record = <<>>
    /\ outcome = [e \in Events |-> "none"]
    /\ stopping = FALSE

Current == [event |-> core.event, attempt |-> core.attempt]

\* submit(), by the file worker or the connector intake.  The host stops both
\* before it stops the core.
Submit ==
    /\ ~stopping /\ submitted < MaxEvents
    /\ submitted' = submitted + 1
    /\ queue' = Append(queue, submitted + 1)
    /\ UNCHANGED <<core, wire, answer, record, outcome, stopping>>

\* Mutant of stop(): the queue is thrown away.
StopDiscards ==
    /\ ~stopping
    /\ stopping' = TRUE
    /\ queue' = <<Sentinel>>
    /\ UNCHANGED <<submitted, core, wire, answer, record, outcome>>

\* stop(): the sentinel goes behind everything submitted.
Stop ==
    /\ ~stopping
    /\ stopping' = TRUE
    /\ queue' = Append(queue, Sentinel)
    /\ UNCHANGED <<submitted, core, wire, answer, record, outcome>>

\* _run: the next event, or the end.
Take ==
    /\ core.at = "idle" /\ queue # <<>>
    /\ queue' = Tail(queue)
    /\ core' = IF Head(queue) = Sentinel THEN [Idle EXCEPT !.at = "ended"]
               ELSE [at |-> "sending", event |-> Head(queue), attempt |-> 1]
    /\ UNCHANGED <<submitted, wire, answer, record, outcome, stopping>>

\* Sender.send: client.post().
Post ==
    /\ core.at = "sending"
    /\ wire' = wire \cup {Current}
    /\ core' = [core EXCEPT !.at = "waiting"]
    /\ answer' = "none"
    /\ UNCHANGED <<submitted, queue, record, outcome, stopping>>

Resolve(how) ==
    /\ outcome' = [outcome EXCEPT ![core.event] = how]
    /\ core' = Idle
    /\ UNCHANGED <<submitted, queue, wire, record, stopping>>

\* Mutant of send: any response counts as success.
AckAnyAnswer ==
    /\ core.at = "waiting" /\ answer # "none"
    /\ answer' = "none"
    /\ Resolve("acked")

\* Status 200.
Ack ==
    /\ core.at = "waiting" /\ answer = "ok"
    /\ answer' = "none"
    /\ Resolve("acked")

\* Another status, or httpx.HTTPError: refused, reset or timed out.
Failed == core.at = "waiting" /\ answer # "ok"

\* Mutant of send: the loop never runs out.
RetryForever ==
    /\ Failed
    /\ core' = [core EXCEPT !.at = "sending"]
    /\ answer' = "none"
    /\ UNCHANGED <<submitted, queue, wire, record, outcome, stopping>>

\* Mutant of _run: a failed event goes to the end of the queue.
RetryAtTheEnd ==
    /\ Failed /\ core.attempt < Retries + 1
    /\ queue' = Append(queue, core.event)
    /\ core' = Idle
    /\ answer' = "none"
    /\ UNCHANGED <<submitted, wire, record, outcome, stopping>>

\* Mutant of send: one round too many.
RetryOnceTooOften ==
    /\ Failed
    /\ core' = [core EXCEPT !.at = "sending", !.attempt = core.attempt + 1]
    /\ answer' = "none"
    /\ UNCHANGED <<submitted, queue, wire, record, outcome, stopping>>

\* The loop of send goes on ...
Retry ==
    /\ Failed /\ core.attempt < Retries + 1
    /\ core' = [core EXCEPT !.at = "sending", !.attempt = core.attempt + 1]
    /\ answer' = "none"
    /\ UNCHANGED <<submitted, queue, wire, record, outcome, stopping>>

\* ... until the attempts are used up.
Drop ==
    /\ Failed /\ core.attempt = Retries + 1
    /\ answer' = "none"
    /\ Resolve("dropped")

\* post() raises what is not an HTTPError (an invalid URL, a payload json cannot
\* encode): send does not retry, _run logs it and goes on.
Raise ==
    /\ core.at = "sending"
    /\ UNCHANGED answer
    /\ Resolve("raised")

\* The server handles a POST: it may record the event, it may answer 200 only if
\* it did, and the answer is read only if the client still waits for this attempt.
Handle(w, records, status) ==
    /\ w \in wire
    /\ wire' = wire \ {w}
    /\ record' = IF records THEN Append(record, w) ELSE record
    /\ answer' = IF core.at = "waiting" /\ w = Current /\ answer = "none"
                 THEN status ELSE answer
    /\ UNCHANGED <<submitted, queue, core, outcome, stopping>>

\* record_event() went through; the 200 may get lost on its way back.
ServerRecords(w) == \E status \in {"ok", "none"} : Handle(w, TRUE, status)

\* An error response; the event row may have been committed before the error.
ServerFails(w) == \E records \in BOOLEAN : Handle(w, records, "error")

\* The POST never reaches the server.
Lose(w) == Handle(w, FALSE, "none")

Next ==
    \/ Submit \/ Stop
    \/ Take \/ Post \/ Ack \/ Retry \/ Drop \/ Raise
    \/ \E w \in wire : ServerRecords(w) \/ ServerFails(w) \/ Lose(w)

CoreThread == Take \/ Post \/ Ack \/ Retry \/ Drop

\* The core's thread runs and its client times out; the network and the server
\* owe nothing.
Spec == Init /\ [][Next]_vars /\ WF_vars(CoreThread)

-----------------------------------------------------------------------------
(* Properties *)

RowsOf(e) == {i \in DOMAIN record : record[i].event = e}

\* send() returns True only for an event the server has recorded.
AckedIsRecorded ==
    \A e \in Events : outcome[e] = "acked" => RowsOf(e) # {}

\* Two events that were both acknowledged are first recorded in the order of their
\* submission, however many late duplicates of them turn up in between.
AckedInOrder ==
    \A e, f \in Events : e < f /\ outcome[e] = "acked" /\ outcome[f] = "acked" =>
        \E i \in RowsOf(e) : \A j \in RowsOf(f) : i < j

\* The server cannot tell a repeated POST from a new event, so every attempt may
\* leave a row; it is never more than one per attempt, and the attempts are bounded.
BoundedDelivery ==
    \A e \in Events : Cardinality(RowsOf(e)) <= Retries + 1

\* When stop() has returned, every event submitted before it has been decided.
StopDrains ==
    core.at = "ended" => \A e \in 1 .. submitted : outcome[e] # "none"

\* Everything above in one: the core and a network that loses, delays and repeats
\* are, to the threads that submit, one queue that is decided front to back.
Underway == IF core.at \in {"sending", "waiting"} THEN <<core.event>> ELSE <<>>

Promise == INSTANCE Delivery WITH
    Events <- 1 .. MaxEvents, End <- Sentinel, Copies <- Retries + 1,
    waiting <- Underway \o queue,
    record <- [i \in DOMAIN record |-> record[i].event],
    decided <- {e \in Events : outcome[e] # "none"},
    acked <- {e \in Events : outcome[e] = "acked"},
    ended <- (core.at = "ended")

ImplementsDelivery == Promise!DeliverySpec

\* The part of it that has no fairness.
ImplementsDeliverySafely == Promise!SafetySpec

\* An event that was submitted is eventually decided: a server that does not
\* answer delays the events behind it and does not block them.
EveryEventDecided ==
    \A e \in Events : submitted >= e ~> outcome[e] # "none"

=============================================================================
