--------------------------- MODULE EgressProofs -----------------------------
(***************************************************************************)
(* What the way out of the host guarantees for every number of events and  *)
(* of retries.                                                             *)
(*                                                                         *)
(* The argument: events are taken from the queue in the order of their     *)
(* numbers, so Taken, the last one that left it, says everything about the *)
(* past: all below it are decided, it is decided unless the core is busy   *)
(* with it, and no POST of a later one exists (Orderly, PostsOfThePast).   *)
(* An attempt is counted up before each POST of an event, so a POST that   *)
(* is on the wire or recorded is never sent again (PostedOnce): this       *)
(* bounds the rows.  When an event is acknowledged it has a row and no     *)
(* later event has one; rows are only added behind, hence the order of     *)
(* the first rows (FirstRows).  The same invariant makes every step one of *)
(* module Delivery: what the core is busy with is the front of the queue.  *)
(***************************************************************************)
EXTENDS Egress, FiniteSetTheorems, SequenceTheorems, TLAPS

Busy == core.at \in {"sending", "waiting"}

\* Events in the queue, and the last event that left it.
Queued == IF stopping /\ core.at # "ended" THEN Len(queue) - 1 ELSE Len(queue)
Taken == submitted - Queued

\* The queue holds the events after Taken in order, and behind them the sentinel from
\* stop() until it is taken.
Orderly ==
    /\ Queued \in Nat /\ Taken \in Nat
    /\ \A i \in 1 .. Queued : queue[i] = Taken + i
    /\ stopping /\ core.at # "ended" => queue[Len(queue)] = Sentinel
    /\ core.at = "ended" => stopping /\ queue = <<>>

\* The core is busy with the last event it took; all others it took are decided.
DecidedInOrder ==
    /\ Busy => Taken \in Events /\ core.event = Taken /\ core.attempt \in Attempts
    /\ \A e \in Events : outcome[e] # "none" <=> e <= Taken /\ ~(Busy /\ e = Taken)

\* A POST that was sent: of an event that was taken, and not of an attempt to come.
Past(w) ==
    /\ w.event <= Taken
    /\ Busy /\ w.event = Taken =>
          w.attempt <= core.attempt /\ (core.at = "sending" => w.attempt < core.attempt)

PostsOfThePast ==
    /\ \A w \in wire : Past(w)
    /\ \A i \in DOMAIN record : Past(record[i])

\* No POST is sent twice, and none comes back from the record to the wire.
PostedOnce ==
    /\ \A i \in DOMAIN record : record[i] \notin wire
    /\ \A i, j \in DOMAIN record : record[i] = record[j] => i = j

\* The 200 the client holds is for an event that has a row.
AnsweredIsRecorded ==
    core.at = "waiting" /\ answer = "ok" => RowsOf(core.event) # {}

\* An acknowledged event has a row in front of all rows of later events.
FirstRows ==
    \A e \in Events : outcome[e] = "acked" =>
        \E i \in RowsOf(e) : \A j \in DOMAIN record : record[j].event > e => i < j

IInv ==
    /\ TypeOK /\ Orderly /\ DecidedInOrder
    /\ PostsOfThePast /\ PostedOnce /\ AnsweredIsRecorded /\ FirstRows

-----------------------------------------------------------------------------
(* Sequences *)

\* submit(), stop() and a recorded POST extend a sequence by one element.
LEMMA AppendFacts ==
    ASSUME NEW S, NEW s \in Seq(S), NEW e \in S
    PROVE  /\ Append(s, e) \in Seq(S)
           /\ DOMAIN s = 1 .. Len(s)
           /\ Len(Append(s, e)) = Len(s) + 1
           /\ DOMAIN Append(s, e) = 1 .. (Len(s) + 1)
           /\ Append(s, e)[Len(s) + 1] = e
           /\ \A i \in 1 .. Len(s) : Append(s, e)[i] = s[i]
           /\ Len(s) \in Nat
  OBVIOUS

\* The core's thread takes the first element of its queue.
LEMMA TailFacts ==
    ASSUME NEW S, NEW s \in Seq(S), s # <<>>
    PROVE  /\ Head(s) \in S /\ Head(s) = s[1]
           /\ Tail(s) \in Seq(S)
           /\ Len(s) \in Nat \ {0}
           /\ Len(Tail(s)) = Len(s) - 1
           /\ \A i \in 1 .. (Len(s) - 1) : Tail(s)[i] = s[i + 1]
  OBVIOUS

-----------------------------------------------------------------------------
(* The inductive invariant *)

\* Nothing is submitted, on the wire or recorded at the start.
LEMMA InitIInv == Init => IInv
  <1> SUFFICES ASSUME Init PROVE IInv
    OBVIOUS
  <1>1. queue = <<>> /\ record = <<>> /\ Len(queue) = 0 /\ DOMAIN record = {}
    BY DEF Init
  <1>2. Queued = 0 /\ Taken = 0 /\ ~Busy
    <2>1. core.at = "idle" /\ stopping = FALSE /\ submitted = 0
      BY DEF Init, Idle
    <2>2. Queued = 0
      BY <1>1, <2>1 DEF Queued
    <2>3. Taken = 0
      BY <2>1, <2>2 DEF Taken
    <2> QED
      BY <2>1, <2>2, <2>3 DEF Busy
  <1>3. TypeOK
    <2>1. queue \in Seq(Events \cup {Sentinel}) /\ record \in Seq(Posts)
      BY <1>1
    <2>2. submitted \in 0 .. MaxEvents
      BY EgressAssumption DEF Init
    <2>3. core \in [at : {"idle", "sending", "waiting", "ended"},
                    event : Events \cup {Sentinel}, attempt : 0 .. (Retries + 1)]
      BY EgressAssumption DEF Init, Idle
    <2>4. outcome \in [Events -> {"none", "acked", "dropped", "raised"}]
      BY DEF Init
    <2> QED
      BY <2>1, <2>2, <2>3, <2>4 DEF Init, TypeOK
  <1>4. Orderly
    BY <1>1, <1>2 DEF Init, Idle, Orderly
  <1>5. DecidedInOrder
    BY <1>2, EgressAssumption DEF Init, DecidedInOrder, Events
  <1> QED
    BY <1>1, <1>2, <1>3, <1>4, <1>5
       DEF Init, Idle, IInv, PostsOfThePast, PostedOnce, AnsweredIsRecorded, FirstRows

\* Only what the server does changes an event's rows.
LEMMA SameRecord ==
    ASSUME UNCHANGED record
    PROVE  \A e : RowsOf(e)' = RowsOf(e)
  BY DEF RowsOf

\* submit(): one more event behind the others, nothing taken.
LEMMA SubmitStep ==
    ASSUME IInv, Submit
    PROVE  IInv'
  <1> USE DEF IInv
  <1>1. /\ submitted + 1 \in Events /\ submitted' = submitted + 1
        /\ submitted' \in 0 .. MaxEvents
    BY EgressAssumption DEF Submit, TypeOK, Events
  <1>2. /\ queue' \in Seq(Events \cup {Sentinel})
        /\ Len(queue') = Len(queue) + 1
        /\ queue'[Len(queue) + 1] = submitted + 1
        /\ \A i \in 1 .. Len(queue) : queue'[i] = queue[i]
        /\ Len(queue) \in Nat
    BY <1>1, AppendFacts DEF Submit, TypeOK
  <1>3. ~stopping /\ core.at # "ended"
    BY DEF Submit, Orderly
  <1>4. /\ Queued = Len(queue) /\ Queued' = Len(queue) + 1
        /\ Taken' = Taken
        /\ Busy' = Busy
    BY <1>1, <1>2, <1>3 DEF Submit, Queued, Taken, Busy, TypeOK
  <1>5. TypeOK'
    BY <1>1, <1>2 DEF Submit, TypeOK
  <1>6. Orderly'
    <2>1. ASSUME NEW i \in 1 .. Queued'
          PROVE  queue'[i] = Taken + i
      <3>1. CASE i \in 1 .. Len(queue)
        BY <1>2, <1>4, <3>1 DEF Orderly
      <3>2. CASE i = Len(queue) + 1
        BY <1>2, <1>4, <3>2 DEF Taken, TypeOK
      <3> QED
        BY <1>2, <1>4, <3>1, <3>2
    <2> QED
      BY <2>1, <1>2, <1>3, <1>4 DEF Submit, Orderly
  <1>7. DecidedInOrder'
    BY <1>4 DEF Submit, DecidedInOrder
  <1>8. PostsOfThePast' /\ PostedOnce'
    BY <1>4 DEF Submit, PostsOfThePast, Past, PostedOnce
  <1>9. AnsweredIsRecorded' /\ FirstRows'
    BY SameRecord DEF Submit, AnsweredIsRecorded, FirstRows
  <1> QED
    BY <1>5, <1>6, <1>7, <1>8, <1>9

\* stop(): the sentinel behind the last event, nothing taken.
LEMMA StopStep ==
    ASSUME IInv, Stop
    PROVE  IInv'
  <1> USE DEF IInv
  <1>1. /\ queue' \in Seq(Events \cup {Sentinel})
        /\ Len(queue') = Len(queue) + 1
        /\ queue'[Len(queue) + 1] = Sentinel
        /\ \A i \in 1 .. Len(queue) : queue'[i] = queue[i]
        /\ Len(queue) \in Nat
    BY AppendFacts DEF Stop, TypeOK
  <1>2. ~stopping /\ core.at # "ended"
    BY DEF Stop, Orderly
  <1>3. /\ Queued = Len(queue) /\ Queued' = Queued
        /\ Taken' = Taken
        /\ Busy' = Busy
    BY <1>1, <1>2 DEF Stop, Queued, Taken, Busy
  <1>4. TypeOK'
    BY <1>1 DEF Stop, TypeOK
  <1>5. Orderly'
    <2>1. ASSUME NEW i \in 1 .. Queued'
          PROVE  queue'[i] = Taken + i
      BY <1>1, <1>3 DEF Orderly
    <2> QED
      BY <2>1, <1>1, <1>2, <1>3 DEF Stop, Orderly
  <1>6. DecidedInOrder'
    BY <1>3 DEF Stop, DecidedInOrder
  <1>7. PostsOfThePast' /\ PostedOnce'
    BY <1>3 DEF Stop, PostsOfThePast, Past, PostedOnce
  <1>8. AnsweredIsRecorded' /\ FirstRows'
    BY SameRecord DEF Stop, AnsweredIsRecorded, FirstRows
  <1> QED
    BY <1>4, <1>5, <1>6, <1>7, <1>8

\* _run finds the sentinel only when no event is left, and an event is the next one.
LEMMA TakeStep ==
    ASSUME IInv, Take
    PROVE  IInv'
  <1> USE DEF IInv
  <1>1. /\ Head(queue) \in Events \cup {Sentinel} /\ Head(queue) = queue[1]
        /\ queue' \in Seq(Events \cup {Sentinel})
        /\ Len(queue) \in Nat \ {0} /\ Len(queue') = Len(queue) - 1
        /\ \A i \in 1 .. (Len(queue) - 1) : queue'[i] = queue[i + 1]
    BY TailFacts DEF Take, TypeOK
  <1>2. core.at = "idle" /\ ~Busy
    BY DEF Take, Busy
  <1>3. Queued = 0 => stopping /\ Len(queue) = 1 /\ Head(queue) = Sentinel
    BY <1>1, <1>2 DEF Orderly, Queued
  <1>4. Queued # 0 => Head(queue) = Taken + 1 /\ Head(queue) # Sentinel
    BY <1>1 DEF Orderly, Sentinel
  <1>5. CASE Head(queue) = Sentinel
    <2>1. /\ core' = [at |-> "ended", event |-> Sentinel, attempt |-> 0]
          /\ stopping /\ queue' = <<>> /\ Queued = 0
      BY <1>1, <1>3, <1>4, <1>5 DEF Take, Idle, Orderly
    <2>2. Queued' = 0 /\ Taken' = Taken /\ ~Busy'
      BY <2>1 DEF Take, Queued, Taken, Busy
    <2>3. TypeOK'
      BY <1>1, <2>1, EgressAssumption DEF Take, TypeOK
    <2>4. Orderly'
      BY <2>1, <2>2 DEF Take, Orderly
    <2>5. DecidedInOrder'
      BY <1>2, <2>2 DEF Take, DecidedInOrder
    <2>6. PostsOfThePast' /\ PostedOnce'
      BY <1>2, <2>2 DEF Take, PostsOfThePast, Past, PostedOnce
    <2>7. AnsweredIsRecorded' /\ FirstRows'
      BY <2>1, SameRecord DEF Take, AnsweredIsRecorded, FirstRows
    <2> QED
      BY <2>3, <2>4, <2>5, <2>6, <2>7
  <1>6. CASE Head(queue) # Sentinel
    <2>1. /\ core' = [at |-> "sending", event |-> Head(queue), attempt |-> 1]
          /\ Head(queue) = Taken + 1 /\ Head(queue) \in Events /\ Queued # 0
      BY <1>1, <1>3, <1>4, <1>6 DEF Take
    <2>2. Queued' = Queued - 1 /\ Taken' = Taken + 1 /\ Busy'
      BY <1>1, <1>2, <2>1 DEF Take, Queued, Taken, Busy, Orderly, TypeOK
    <2>3. TypeOK'
      BY <1>1, <2>1, EgressAssumption DEF Take, TypeOK
    <2>4. Orderly'
      <3>1. ASSUME NEW i \in 1 .. Queued'
            PROVE  queue'[i] = Taken' + i
        BY <1>1, <1>2, <2>1, <2>2 DEF Orderly, Queued
      <3>2. stopping => queue'[Len(queue')] = Sentinel
        BY <1>1, <1>2, <2>1 DEF Orderly, Queued
      <3>3. Queued' \in Nat /\ Taken' \in Nat
        BY <2>1, <2>2 DEF Orderly
      <3>4. core'.at = "sending" /\ stopping' = stopping
        BY <2>1 DEF Take
      <3> QED
        BY <2>2, <3>1, <3>2, <3>3, <3>4 DEF Orderly
    <2>5. DecidedInOrder'
      <3>1. core'.attempt \in Attempts
        BY <2>1, EgressAssumption DEF Attempts
      <3>2. ASSUME NEW e \in Events
            PROVE  (outcome'[e] # "none") <=> (e <= Taken' /\ ~(e = Taken'))
        BY <1>2, <2>2 DEF Take, DecidedInOrder, Orderly, Events
      <3> QED
        BY <2>1, <2>2, <3>1, <3>2 DEF DecidedInOrder
    <2>6. PostsOfThePast'
      <3>1. ASSUME NEW w \in Posts, Past(w)
            PROVE  Past(w)'
        BY <2>2, <3>1 DEF Past, Orderly, Posts, Events
      <3> QED
        BY <3>1 DEF Take, PostsOfThePast, TypeOK
    <2>7. PostedOnce'
      BY DEF Take, PostedOnce
    <2>8. AnsweredIsRecorded' /\ FirstRows'
      BY <2>1, SameRecord DEF Take, AnsweredIsRecorded, FirstRows
    <2> QED
      BY <2>3, <2>4, <2>5, <2>6, <2>7, <2>8
  <1> QED
    BY <1>5, <1>6


\* client.post() sends an attempt that was not sent before.
LEMMA PostStep ==
    ASSUME IInv, Post
    PROVE  IInv'
  <1> USE DEF IInv
  <1>1. core.at = "sending" /\ Busy
    BY DEF Post, Busy
  <1>2. /\ Taken \in Events /\ core.event = Taken /\ core.attempt \in Attempts
        /\ Current \in Posts
        /\ Current.event = Taken /\ Current.attempt = core.attempt
    BY <1>1 DEF DecidedInOrder, Current, Posts
  <1>3. /\ core'.at = "waiting" /\ core'.event = core.event
        /\ core'.attempt = core.attempt
    BY <1>1 DEF Post, TypeOK
  <1>4. Busy' /\ Queued' = Queued /\ Taken' = Taken
    BY <1>1, <1>3 DEF Post, Busy, Queued, Taken
  <1>5. TypeOK'
    <2>1. wire' \subseteq Posts
      BY <1>2 DEF Post, TypeOK
    <2> QED
      BY <2>1 DEF Post, TypeOK
  <1>6. Orderly'
    BY <1>1, <1>3, <1>4 DEF Post, Orderly
  <1>7. DecidedInOrder'
    BY <1>1, <1>2, <1>3, <1>4 DEF Post, DecidedInOrder
  <1>8. PostsOfThePast'
    <2>1. ASSUME NEW w \in Posts, Past(w)
          PROVE  Past(w)'
      BY <1>1, <1>3, <1>4, <2>1 DEF Past, Posts, Attempts
    <2>2. ASSUME NEW w \in Posts, w = Current
          PROVE  Past(w)'
      BY <1>2, <1>3, <1>4, <2>2 DEF Past, Attempts, Events
    <2>3. wire' = wire \cup {Current} /\ record' = record
      BY DEF Post
    <2> QED
      BY <1>2, <2>1, <2>2, <2>3 DEF PostsOfThePast, TypeOK
  <1>9. PostedOnce'
    <2>1. ~Past(Current)
      BY <1>1, <1>2 DEF Past, Attempts
    <2> QED
      BY <2>1 DEF Post, PostedOnce, PostsOfThePast
  <1>10. AnsweredIsRecorded' /\ FirstRows'
    BY SameRecord DEF Post, AnsweredIsRecorded, FirstRows
  <1> QED
    BY <1>5, <1>6, <1>7, <1>8, <1>9, <1>10

\* send() returns, or raises: the event the core was busy with is decided, and the
\* core takes the next one.
LEMMA ResolveStep ==
    ASSUME IInv, Busy, NEW how \in {"acked", "dropped", "raised"}, Resolve(how),
           answer' \in {"none", "ok", "error"},
           how = "acked" => core.at = "waiting" /\ answer = "ok"
    PROVE  IInv'
  <1> USE DEF IInv
  <1>1. Taken \in Events /\ core.event = Taken
    BY DEF DecidedInOrder
  <1>2. core.at # "ended" /\ core'.at = "idle" /\ ~Busy'
    BY DEF Resolve, Idle, Busy
  <1>3. Queued' = Queued /\ Taken' = Taken
    BY <1>2 DEF Resolve, Queued, Taken
  <1>4. /\ outcome' \in [Events -> {"none", "acked", "dropped", "raised"}]
        /\ outcome'[Taken] = how /\ how # "none"
        /\ \A e \in Events \ {Taken} : outcome'[e] = outcome[e]
    BY <1>1 DEF Resolve, TypeOK
  <1>5. TypeOK'
    <2>1. core' \in [at : {"idle", "sending", "waiting", "ended"},
                     event : Events \cup {Sentinel}, attempt : 0 .. (Retries + 1)]
      BY EgressAssumption DEF Resolve, Idle
    <2> QED
      BY <1>4, <2>1 DEF Resolve, TypeOK
  <1>6. Orderly'
    BY <1>2, <1>3 DEF Resolve, Orderly
  <1>7. DecidedInOrder'
    <2>1. ASSUME NEW e \in Events
          PROVE  (outcome'[e] # "none") <=> (e <= Taken)
      BY <1>1, <1>4 DEF DecidedInOrder, Events
    <2> QED
      BY <1>2, <1>3, <2>1 DEF DecidedInOrder
  <1>8. PostsOfThePast' /\ PostedOnce'
    BY <1>2, <1>3 DEF Resolve, PostsOfThePast, Past, PostedOnce
  <1>9. AnsweredIsRecorded'
    BY <1>2 DEF AnsweredIsRecorded
  <1>10. FirstRows'
    <2> SUFFICES ASSUME NEW e \in Events, outcome'[e] = "acked"
                 PROVE  \E i \in RowsOf(e) : \A j \in DOMAIN record :
                            record[j].event > e => i < j
      BY SameRecord DEF Resolve, FirstRows
    <2>1. CASE e # Taken
      BY <1>4, <2>1 DEF FirstRows
    <2>2. CASE e = Taken
      <3>1. RowsOf(e) # {}
        BY <1>1, <1>4, <2>2 DEF AnsweredIsRecorded
      <3>2. ASSUME NEW j \in DOMAIN record
            PROVE  ~(record[j].event > e)
        <4>1. record[j] \in Posts
          BY DEF TypeOK
        <4> QED
          BY <1>1, <2>2, <4>1 DEF PostsOfThePast, Past, Posts, Events
      <3> QED
        BY <3>1, <3>2
    <2> QED
      BY <2>1, <2>2
  <1> QED
    BY <1>5, <1>6, <1>7, <1>8, <1>9, <1>10

\* The loop of send() goes on with the next attempt.
LEMMA RetryStep ==
    ASSUME IInv, Retry
    PROVE  IInv'
  <1> USE DEF IInv
  <1>1. core.at = "waiting" /\ Busy /\ core.attempt < Retries + 1
    BY DEF Retry, Failed, Busy
  <1>2. Taken \in Events /\ core.event = Taken /\ core.attempt \in Attempts
    BY <1>1 DEF DecidedInOrder
  <1>3. /\ core'.at = "sending" /\ core'.event = core.event
        /\ core'.attempt = core.attempt + 1
    BY <1>1 DEF Retry, TypeOK
  <1>4. core'.attempt \in Attempts
    BY <1>1, <1>2, <1>3, EgressAssumption DEF Attempts
  <1>5. Busy' /\ Queued' = Queued /\ Taken' = Taken
    BY <1>1, <1>3 DEF Retry, Busy, Queued, Taken
  <1>6. TypeOK'
    <2>1. core.attempt + 1 \in 0 .. (Retries + 1)
      BY <1>3, <1>4, EgressAssumption DEF Attempts
    <2> QED
      BY <2>1 DEF Retry, TypeOK
  <1>7. Orderly'
    BY <1>1, <1>3, <1>5 DEF Retry, Orderly
  <1>8. DecidedInOrder'
    BY <1>1, <1>2, <1>3, <1>4, <1>5 DEF Retry, DecidedInOrder
  <1>9. PostsOfThePast'
    <2>1. ASSUME NEW w \in Posts, Past(w)
          PROVE  Past(w)'
      BY <1>1, <1>2, <1>3, <1>5, <2>1 DEF Past, Posts, Attempts
    <2> QED
      BY <2>1 DEF Retry, PostsOfThePast, TypeOK
  <1>10. PostedOnce'
    BY DEF Retry, PostedOnce
  <1>11. AnsweredIsRecorded' /\ FirstRows'
    BY <1>3, SameRecord DEF Retry, AnsweredIsRecorded, FirstRows
  <1> QED
    BY <1>6, <1>7, <1>8, <1>9, <1>10, <1>11

\* The server's end of a POST: a row is added behind the others, for a POST that
\* leaves the wire; a 200 is only sent with a row.
LEMMA HandleStep ==
    ASSUME IInv, NEW w \in wire, NEW records \in BOOLEAN, NEW status \in {"none", "ok", "error"},
           Handle(w, records, status), status = "ok" => records
    PROVE  IInv'
  <1> USE DEF IInv
  <1>1. w \in Posts /\ Past(w)
    BY DEF TypeOK, PostsOfThePast
  <1>2. UNCHANGED <<submitted, queue, core, outcome, stopping>> /\ wire' = wire \ {w}
    BY DEF Handle
  <1>3. Busy' = Busy /\ Queued' = Queued /\ Taken' = Taken
    BY <1>2 DEF Busy, Queued, Taken
  <1>4. \A v : Past(v)' <=> Past(v)
    BY <1>2, <1>3 DEF Past
  <1>5. /\ record' \in Seq(Posts)
        /\ DOMAIN record = 1 .. Len(record) /\ Len(record) \in Nat
        /\ \A i \in DOMAIN record : i \in DOMAIN record' /\ record'[i] = record[i]
        /\ \A i \in DOMAIN record' \ DOMAIN record :
              records /\ i = Len(record) + 1 /\ record'[i] = w
        /\ records => Len(record) + 1 \in DOMAIN record' /\ record'[Len(record) + 1] = w
    BY <1>1, AppendFacts DEF Handle, TypeOK
  <1>6. \A e : RowsOf(e) \subseteq RowsOf(e)'
    BY <1>5 DEF RowsOf
  <1>7. TypeOK'
    BY <1>2, <1>5 DEF Handle, TypeOK
  <1>8. Orderly' /\ DecidedInOrder'
    BY <1>2, <1>3 DEF Orderly, DecidedInOrder
  <1>9. PostsOfThePast'
    <2>1. ASSUME NEW i \in DOMAIN record'
          PROVE  Past(record'[i])
      BY <1>1, <1>5 DEF PostsOfThePast
    <2> QED
      BY <1>2, <1>4, <2>1 DEF PostsOfThePast
  <1>10. PostedOnce'
    BY <1>2, <1>5 DEF PostedOnce
  <1>11. AnsweredIsRecorded'
    <2> SUFFICES ASSUME core.at = "waiting", answer' = "ok"
                 PROVE  RowsOf(core.event)' # {}
      BY <1>2 DEF AnsweredIsRecorded
    <2>1. CASE answer = "ok"
      BY <1>2, <1>6, <2>1 DEF AnsweredIsRecorded
    <2>2. CASE answer # "ok"
      <3>1. w = Current /\ records
        BY <2>2 DEF Handle
      <3>2. Len(record) + 1 \in RowsOf(core.event)'
        BY <1>2, <1>5, <3>1 DEF RowsOf, Current
      <3> QED
        BY <3>2
    <2> QED
      BY <2>1, <2>2
  <1>12. FirstRows'
    <2> SUFFICES ASSUME NEW e \in Events, outcome[e] = "acked"
                 PROVE  \E i \in RowsOf(e)' : \A j \in DOMAIN record' :
                            record'[j].event > e => i < j
      BY <1>2 DEF FirstRows
    <2>1. PICK i \in RowsOf(e) : \A j \in DOMAIN record : record[j].event > e => i < j
      BY DEF FirstRows
    <2>2. i \in DOMAIN record
      BY DEF RowsOf
    <2>3. ASSUME NEW j \in DOMAIN record', record'[j].event > e
          PROVE  i < j
      BY <1>5, <2>1, <2>2, <2>3
    <2> QED
      BY <1>6, <2>1, <2>3
  <1> QED
    BY <1>7, <1>8, <1>9, <1>10, <1>11, <1>12

\* Every step of the system keeps the invariant.
LEMMA NextIInv == IInv /\ [Next]_vars => IInv'
  <1> SUFFICES ASSUME IInv, [Next]_vars PROVE IInv'
    OBVIOUS
  <1>1. CASE Ack
    <2>1. Busy /\ Resolve("acked") /\ core.at = "waiting" /\ answer = "ok" /\ answer' = "none"
      BY <1>1 DEF Ack, Busy
    <2> QED
      BY <2>1, ResolveStep
  <1>2. CASE Drop
    <2>1. Busy /\ Resolve("dropped") /\ answer' = "none"
      BY <1>2 DEF Drop, Failed, Busy
    <2> QED
      BY <2>1, ResolveStep
  <1>3. CASE Raise
    <2>1. Busy /\ Resolve("raised") /\ answer' = answer
      BY <1>3 DEF Raise, Busy
    <2>2. answer' \in {"none", "ok", "error"}
      BY <2>1 DEF IInv, TypeOK
    <2> QED
      BY <2>1, <2>2, ResolveStep
  <1>4. CASE \E w \in wire : ServerRecords(w) \/ ServerFails(w) \/ Lose(w)
    <2>1. PICK w \in wire, records \in BOOLEAN, status \in {"none", "ok", "error"} :
              Handle(w, records, status) /\ (status = "ok" => records)
      BY <1>4 DEF ServerRecords, ServerFails, Lose
    <2> QED
      BY <2>1, HandleStep
  <1>5. CASE UNCHANGED vars
    BY <1>5 DEF vars, IInv, TypeOK, Orderly, Queued, Taken, Busy, DecidedInOrder,
                PostsOfThePast, Past, PostedOnce, AnsweredIsRecorded, FirstRows, RowsOf
  <1> QED
    BY <1>1, <1>2, <1>3, <1>4, <1>5, SubmitStep, StopStep, TakeStep, PostStep, RetryStep DEF Next


-----------------------------------------------------------------------------
(* The theorems *)

\* Every reachable state satisfies the invariant.
LEMMA Invariant == Spec => []IInv
  BY InitIInv, NextIInv, PTL DEF Spec

\* Every variable keeps its type, whatever the network and the server do.
THEOREM TypeCorrect == Spec => []TypeOK
  BY Invariant, PTL DEF IInv

\* send() returns True only for an event of which the server has a row, also when
\* answers are lost, late or given for another attempt.
THEOREM AckMeansRow == Spec => []AckedIsRecorded
  <1>1. IInv => AckedIsRecorded
    BY DEF IInv, FirstRows, AckedIsRecorded
  <1> QED
    BY <1>1, Invariant, PTL

\* The first rows of two acknowledged events are in the order of submission.
THEOREM OrderOfFirstRows == Spec => []AckedInOrder
  <1>1. IInv => AckedInOrder
    <2> SUFFICES ASSUME IInv, NEW e \in Events, NEW f \in Events, e < f,
                        outcome[e] = "acked"
                 PROVE  \E i \in RowsOf(e) : \A j \in RowsOf(f) : i < j
      BY DEF AckedInOrder
    <2>1. PICK i \in RowsOf(e) : \A j \in DOMAIN record : record[j].event > e => i < j
      BY DEF IInv, FirstRows
    <2>2. ASSUME NEW j \in RowsOf(f) PROVE i < j
      BY <2>1 DEF RowsOf, Events
    <2> QED
      BY <2>1, <2>2
  <1> QED
    BY <1>1, Invariant, PTL

\* The rows of an event come from different attempts, of which there are Retries + 1;
\* a POST that is still on the wire is a further one.
LEMMA RowsBound ==
    ASSUME IInv, NEW e \in Events
    PROVE  /\ Cardinality(RowsOf(e)) \in Nat
           /\ Cardinality(RowsOf(e)) <= Retries + 1
           /\ (\E w \in wire : w.event = e) => Cardinality(RowsOf(e)) < Retries + 1
  <1> DEFINE attempt == [i \in RowsOf(e) |-> record[i].attempt]
  <1>1. /\ IsFiniteSet(Attempts) /\ Cardinality(Attempts) = Retries + 1
        /\ Retries + 1 \in Nat
    BY FS_Interval, EgressAssumption DEF Attempts
  <1>2. ASSUME NEW i \in RowsOf(e)
        PROVE  i \in DOMAIN record /\ record[i] \in Posts /\ record[i].event = e
    BY DEF RowsOf, IInv, TypeOK
  <1>3. attempt \in Injection(RowsOf(e), Attempts)
    <2>1. attempt \in [RowsOf(e) -> Attempts]
      BY <1>2 DEF Posts
    <2>2. ASSUME NEW i \in RowsOf(e), NEW j \in RowsOf(e), attempt[i] = attempt[j]
          PROVE  i = j
      <3>1. record[i] = record[j]
        BY <1>2, <2>2 DEF Posts
      <3> QED
        BY <1>2, <3>1 DEF IInv, PostedOnce
    <2> QED
      BY <2>1, <2>2 DEF Injection, IsInjective
  <1>4. /\ IsFiniteSet(RowsOf(e)) /\ Cardinality(RowsOf(e)) <= Retries + 1
        /\ Cardinality(RowsOf(e)) = Retries + 1 => attempt \in Surjection(RowsOf(e), Attempts)
    BY <1>1, <1>3, FS_Injection
  <1>5. Cardinality(RowsOf(e)) \in Nat
    BY <1>4, FS_CardinalityType
  <1>6. ASSUME NEW w \in wire, w.event = e
        PROVE  attempt \notin Surjection(RowsOf(e), Attempts)
    <2>1. w \in Posts
      BY DEF IInv, TypeOK
    <2>2. ASSUME NEW i \in RowsOf(e) PROVE attempt[i] # w.attempt
      <3>1. record[i] # w
        BY <1>2 DEF IInv, PostedOnce
      <3> QED
        BY <1>2, <1>6, <2>1, <3>1 DEF Posts
    <2>3. w.attempt \in Attempts
      BY <2>1 DEF Posts
    <2> QED
      BY <2>2, <2>3 DEF Surjection
  <1> QED
    BY <1>1, <1>4, <1>5, <1>6

\* Every attempt leaves at most one row, so an event leaves at most Retries + 1.
THEOREM RowsBounded == Spec => []BoundedDelivery
  <1>1. IInv => BoundedDelivery
    BY RowsBound DEF BoundedDelivery
  <1> QED
    BY <1>1, Invariant, PTL

\* When the core's thread has ended, every event submitted before stop() was decided.
THEOREM EndMeansDrained == Spec => []StopDrains
  <1>1. IInv => StopDrains
    <2> SUFFICES ASSUME IInv, core.at = "ended", NEW e \in 1 .. submitted
                 PROVE  outcome[e] # "none"
      BY DEF StopDrains
    <2>1. Queued = 0 /\ Taken = submitted /\ ~Busy
      BY DEF IInv, Orderly, TypeOK, Queued, Taken, Busy
    <2>2. e \in Events /\ e <= submitted
      BY EgressAssumption DEF IInv, TypeOK, Events
    <2> QED
      BY <2>1, <2>2 DEF IInv, DecidedInOrder
  <1> QED
    BY <1>1, Invariant, PTL


-----------------------------------------------------------------------------
(* The refinement *)

\* The rows and the waiting events as module Delivery sees them.
Arrived == [i \in DOMAIN record |-> record[i].event]
Undecided == Underway \o queue

\* Delivery counts as Egress does.
LEMMA SameCardinality == \A S : Promise!Cardinality(S) = Cardinality(S)
  BY DEF Promise!Cardinality, Cardinality

\* What the core is busy with is in front of its queue.
LEMMA UndecidedFacts ==
    ASSUME IInv
    PROVE  /\ Undecided \in Seq(Events \cup {Sentinel})
           /\ Busy => /\ Underway = <<Taken>> /\ Taken \in Events
                      /\ Undecided # <<>> /\ Head(Undecided) = Taken
                      /\ Tail(Undecided) = queue
           /\ ~Busy => Underway = <<>> /\ Undecided = queue
  <1>1. queue \in Seq(Events \cup {Sentinel})
    BY DEF IInv, TypeOK
  <1>2. CASE Busy
    <2>1. Underway = <<Taken>> /\ Taken \in Events
      BY <1>2 DEF Underway, Busy, IInv, DecidedInOrder
    <2> QED
      BY <1>1, <1>2, <2>1 DEF Undecided
  <1>3. CASE ~Busy
    <2>1. Underway = <<>>
      BY <1>3 DEF Underway, Busy
    <2> QED
      BY <1>1, <1>3, <2>1 DEF Undecided
  <1> QED
    BY <1>2, <1>3

\* What is put into the queue comes last of what is undecided.
LEMMA UndecidedGrows ==
    ASSUME IInv, NEW e \in Events \cup {Sentinel}, queue' = Append(queue, e), core' = core
    PROVE  Undecided' = Append(Undecided, e)
  <1>1. queue \in Seq(Events \cup {Sentinel})
    BY DEF IInv, TypeOK
  <1>2. Underway' = Underway
    BY DEF Underway
  <1>3. CASE Busy
    BY <1>1, <1>2, <1>3, UndecidedFacts DEF Undecided
  <1>4. CASE ~Busy
    <2>1. Undecided = queue /\ Undecided' = <<>> \o queue'
      BY <1>2, <1>4, UndecidedFacts DEF Undecided
    <2>2. queue' \in Seq(Events \cup {Sentinel})
      BY <1>1, AppendFacts
    <2> QED
      BY <2>1, <2>2
  <1> QED
    BY <1>3, <1>4

\* The queue is open until stop(), and then for ever closed.
LEMMA OpenUntilStop ==
    ASSUME IInv, ~stopping
    PROVE  Promise!Open
  <1>1. core.at # "ended" /\ queue \in Seq(Events \cup {Sentinel})
    BY DEF IInv, TypeOK, Orderly
  <1>2. \A i \in 1 .. Len(queue) : queue[i] # Sentinel
    <2>1. Queued = Len(queue)
      BY DEF Queued
    <2>2. Taken \in Nat /\ \A i \in 1 .. Len(queue) : queue[i] = Taken + i
      BY <2>1 DEF IInv, Orderly
    <2> QED
      BY <2>2 DEF Sentinel
  <1>3. \A i \in DOMAIN Undecided : Undecided[i] # Sentinel
    <2>1. CASE Busy
      <3>1. Undecided = <<Taken>> \o queue /\ Taken \in Events
        BY <2>1, UndecidedFacts DEF Undecided
      <3>2. Taken # Sentinel
        BY <3>1 DEF Events, Sentinel
      <3> QED
        BY <1>1, <1>2, <3>1, <3>2
    <2>2. CASE ~Busy
      BY <1>1, <1>2, <2>2, UndecidedFacts
    <2> QED
      BY <2>1, <2>2
  <1> QED
    BY <1>1, <1>3 DEF Promise!Open, Undecided

\* submit() offers an event that is neither waiting nor decided.
LEMMA SubmitOffers ==
    ASSUME IInv, Submit
    PROVE  Promise!Enqueue
  <1> DEFINE e == submitted + 1
  <1>1. e \in Events
    BY EgressAssumption DEF Submit, IInv, TypeOK, Events
  <1>2. e > Taken /\ Taken \in Nat /\ outcome[e] = "none"
    BY <1>1 DEF IInv, TypeOK, Orderly, Taken, DecidedInOrder
  <1>3. queue \in Seq(Events \cup {Sentinel})
    BY DEF IInv, TypeOK
  <1>4. \A i \in 1 .. Len(queue) : queue[i] # e
    BY <1>3 DEF Submit, IInv, TypeOK, Orderly, Queued, Taken
  <1>5. \A i \in DOMAIN Undecided : Undecided[i] # e
    <2>1. CASE Busy
      <3>1. Undecided = <<Taken>> \o queue
        BY <2>1, UndecidedFacts DEF Undecided
      <3> QED
        BY <1>2, <1>3, <1>4, <3>1
    <2>2. CASE ~Busy
      BY <1>3, <1>4, <2>2, UndecidedFacts
    <2> QED
      BY <2>1, <2>2
  <1>6. Undecided' = Append(Undecided, e)
    BY <1>1, UndecidedGrows DEF Submit
  <1>7. Promise!Offer(e)
    BY <1>2, <1>5, <1>6 DEF Promise!Offer, Undecided, Submit
  <1>8. Promise!Open
    BY OpenUntilStop DEF Submit
  <1>9. Promise!Submission
    BY <1>1, <1>7, <1>8 DEF Promise!Submission, Events
  <1> QED
    BY <1>9 DEF Promise!Enqueue, Submit

\* stop() closes the queue.
LEMMA StopCloses ==
    ASSUME IInv, Stop
    PROVE  Promise!Enqueue
  <1>1. Undecided' = Append(Undecided, Sentinel)
    BY UndecidedGrows DEF Stop
  <1>2. Promise!Close
    BY <1>1 DEF Promise!Close, Undecided, Stop
  <1>3. Promise!Open
    BY OpenUntilStop DEF Stop
  <1> QED
    BY <1>2, <1>3 DEF Promise!Submission, Promise!Enqueue, Stop

\* Taking an event changes nothing outside; taking the sentinel is the end.
LEMMA TakeFinishes ==
    ASSUME IInv, Take
    PROVE  Promise!Progress \/ UNCHANGED Promise!deliveryVars
  <1>1. queue \in Seq(Events \cup {Sentinel}) /\ queue # <<>>
    BY DEF IInv, TypeOK, Take
  <1>2. core.at = "idle" /\ ~Busy /\ Undecided = queue
    BY UndecidedFacts DEF Take, Busy
  <1>3. UNCHANGED <<record, outcome>> /\ queue' = Tail(queue)
    BY DEF Take
  <1>4. CASE Head(queue) = Sentinel
    <2>1. core'.at = "ended"
      BY <1>4 DEF Take, Idle
    <2>2. Undecided' = Tail(Undecided)
      BY <1>1, <1>2, <1>3, <2>1 DEF Undecided, Underway
    <2>3. Promise!Finish
      BY <1>1, <1>2, <1>3, <1>4, <2>1, <2>2 DEF Promise!Finish, Undecided
    <2> QED
      BY <1>3, <2>3 DEF Promise!Progress
  <1>5. CASE Head(queue) # Sentinel
    <2>1. core'.at = "sending" /\ core'.event = Head(queue)
      BY <1>5 DEF Take
    <2>2. Undecided' = <<Head(queue)>> \o Tail(queue)
      BY <1>3, <2>1 DEF Undecided, Underway
    <2>3. Undecided' = Undecided
      BY <1>1, <1>2, <2>2
    <2> QED
      BY <1>2, <1>3, <2>1, <2>3 DEF Promise!deliveryVars, Promise!queueVars, Undecided
  <1> QED
    BY <1>4, <1>5

\* send() returns or raises: the event at the front is decided.
LEMMA ResolveDecides ==
    ASSUME IInv, Busy, NEW how \in {"acked", "dropped", "raised"}, Resolve(how),
           how = "acked" => core.at = "waiting" /\ answer = "ok"
    PROVE  Promise!Progress
  <1>1. /\ Undecided # <<>> /\ Head(Undecided) = Taken /\ Tail(Undecided) = queue
        /\ Taken \in Events /\ core.event = Taken
    BY UndecidedFacts DEF IInv, DecidedInOrder
  <1>2. /\ queue' = queue /\ record' = record /\ core'.at = "idle"
        /\ outcome' = [outcome EXCEPT ![Taken] = how]
    BY <1>1 DEF Resolve, Idle
  <1>3. Undecided' = queue
    BY <1>2 DEF Undecided, Underway, IInv, TypeOK
  <1>4. core.at # "ended" /\ Taken # Sentinel
    BY <1>1 DEF Busy, Events, Sentinel
  <1>5. outcome'[Taken] = how /\ \A e \in Events \ {Taken} : outcome'[e] = outcome[e]
    BY <1>1, <1>2 DEF IInv, TypeOK
  <1>6. outcome[Taken] = "none"
    BY <1>1 DEF IInv, DecidedInOrder
  <1>7. Promise!Decide
    <2>1. {e \in Events : outcome'[e] # "none"} = {e \in Events : outcome[e] # "none"} \cup {Taken}
      BY <1>1, <1>5
    <2> QED
      BY <1>1, <1>2, <1>3, <1>4, <2>1 DEF Promise!Decide, Undecided
  <1>8. CASE how = "acked"
    <2>1. Promise!Rows(Taken) # {}
      BY <1>1, <1>8 DEF IInv, AnsweredIsRecorded, Promise!Rows, RowsOf
    <2>2. {e \in Events : outcome'[e] = "acked"} = {e \in Events : outcome[e] = "acked"} \cup {Taken}
      BY <1>1, <1>5, <1>8
    <2>3. Promise!Acknowledge
      BY <1>1, <1>2, <1>7, <2>1, <2>2 DEF Promise!Acknowledge, Undecided
    <2> QED
      BY <2>3 DEF Promise!Progress
  <1>9. CASE how # "acked"
    <2>1. {e \in Events : outcome'[e] = "acked"} = {e \in Events : outcome[e] = "acked"}
      BY <1>1, <1>5, <1>6, <1>9
    <2>2. Promise!GiveUp
      BY <1>2, <1>7, <2>1 DEF Promise!GiveUp
    <2> QED
      BY <2>2 DEF Promise!Progress
  <1> QED
    BY <1>8, <1>9

\* A recorded POST is an arrival of an event that is decided or at the front, and one
\* that was still due to it.
LEMMA HandleArrives ==
    ASSUME IInv, NEW w \in wire, NEW records \in BOOLEAN, NEW status,
           Handle(w, records, status)
    PROVE  (\E e \in Promise!Sent : Promise!Arrive(e)) \/ UNCHANGED Promise!deliveryVars
  <1>1. UNCHANGED <<submitted, queue, core, outcome>>
    BY DEF Handle
  <1>2. UNCHANGED Promise!queueVars
    BY <1>1 DEF Promise!queueVars, Underway
  <1>3. CASE ~records
    BY <1>1, <1>2, <1>3 DEF Handle, Promise!deliveryVars
  <1>4. CASE records
    <2>1. w \in Posts /\ w.event \in Events /\ w.event <= Taken
      BY DEF IInv, TypeOK, PostsOfThePast, Past, Posts
    <2>2. w.event \in Promise!Sent
      <3>1. CASE Busy /\ w.event = Taken
        <4>1. Undecided # <<>> /\ Head(Undecided) = w.event /\ core.at # "ended"
          BY <3>1, UndecidedFacts DEF Busy
        <4> QED
          BY <2>1, <4>1 DEF Promise!Sent, Undecided, Events
      <3>2. CASE ~(Busy /\ w.event = Taken)
        <4>1. outcome[w.event] # "none"
          BY <2>1, <3>2 DEF IInv, DecidedInOrder
        <4> QED
          BY <2>1, <4>1 DEF Promise!Sent
      <3> QED
        BY <3>1, <3>2
    <2>3. Cardinality(Promise!Rows(w.event)) < Retries + 1
      <3>1. Promise!Rows(w.event) = RowsOf(w.event)
        BY DEF Promise!Rows, RowsOf
      <3> QED
        BY <2>1, <3>1, RowsBound
    <2>4. Arrived' = Append(Arrived, w.event)
      <3>1. record' = Append(record, w) /\ record \in Seq(Posts)
        BY <1>4 DEF Handle, IInv, TypeOK
      <3>2. /\ DOMAIN record = 1 .. Len(record) /\ Len(record) \in Nat
            /\ DOMAIN record' = 1 .. (Len(record) + 1)
            /\ record'[Len(record) + 1] = w
            /\ \A i \in 1 .. Len(record) : record'[i] = record[i]
        BY <2>1, <3>1, AppendFacts
      <3>3. Arrived \in Seq(Events) /\ Len(Arrived) = Len(record)
        <4>1. \A i \in 1 .. Len(record) : record[i].event \in Events
          <5>1. \A i \in 1 .. Len(record) : record[i] \in Posts
            BY <3>1, <3>2
          <5> QED
            BY <5>1 DEF Posts
        <4>2. Arrived \in [1 .. Len(record) -> Events]
          BY <3>2, <4>1 DEF Arrived
        <4>3. Arrived \in Seq(Events)
          BY <3>2, <4>2, SeqDef
        <4> QED
          BY <3>2, <4>2, <4>3, LenProperties
      <3> QED
        BY <2>1, <3>2, <3>3 DEF Arrived
    <2>5. Promise!Arrive(w.event)
      BY <1>1, <1>2, <2>3, <2>4, SameCardinality DEF Promise!Arrive, Arrived
    <2> QED
      BY <2>2, <2>5
  <1> QED
    BY <1>3, <1>4


\* Every step is one of Delivery's, or none.
LEMMA DeliveryStep ==
    ASSUME IInv, [Next]_vars
    PROVE  [Promise!DeliveryNext]_(Promise!deliveryVars)
  <1>1. CASE Submit \/ Stop
    BY <1>1, SubmitOffers, StopCloses DEF Promise!DeliveryNext
  <1>2. CASE Take
    BY <1>2, TakeFinishes DEF Promise!DeliveryNext
  <1>3. CASE Post \/ Retry
    <2>1. /\ UNCHANGED <<queue, record, outcome>>
          /\ core.at \in {"sending", "waiting"} /\ core'.at \in {"sending", "waiting"}
          /\ core'.event = core.event
      BY <1>3 DEF Post, Retry, Failed, IInv, TypeOK
    <2> QED
      BY <2>1 DEF Promise!deliveryVars, Promise!queueVars, Underway
  <1>4. CASE Ack
    <2>1. Busy /\ Resolve("acked") /\ core.at = "waiting" /\ answer = "ok"
      BY <1>4 DEF Ack, Busy
    <2> QED
      BY <2>1, ResolveDecides DEF Promise!DeliveryNext
  <1>5. CASE Drop
    <2>1. Busy /\ Resolve("dropped")
      BY <1>5 DEF Drop, Failed, Busy
    <2> QED
      BY <2>1, ResolveDecides DEF Promise!DeliveryNext
  <1>6. CASE Raise
    <2>1. Busy /\ Resolve("raised")
      BY <1>6 DEF Raise, Busy
    <2> QED
      BY <2>1, ResolveDecides DEF Promise!DeliveryNext
  <1>7. CASE \E w \in wire : ServerRecords(w) \/ ServerFails(w) \/ Lose(w)
    <2>1. PICK w \in wire, records \in BOOLEAN, status \in {"none", "ok", "error"} :
              Handle(w, records, status)
      BY <1>7 DEF ServerRecords, ServerFails, Lose
    <2> QED
      BY <2>1, HandleArrives DEF Promise!DeliveryNext
  <1>8. CASE UNCHANGED vars
    BY <1>8 DEF vars, Promise!deliveryVars, Promise!queueVars, Underway
  <1> QED
    BY <1>1, <1>2, <1>3, <1>4, <1>5, <1>6, <1>7, <1>8 DEF Next

\* To the threads that submit, the core with its retries and a network that loses,
\* delays and repeats is one queue that is decided front to back (the safety part of
\* ImplementsDelivery).
THEOREM DeliveryImplemented == Spec => ImplementsDeliverySafely
  <1>1. Init => Promise!DeliveryInit
    <2> SUFFICES ASSUME Init PROVE Promise!DeliveryInit
      OBVIOUS
    <2>1. core.at = "idle" /\ queue = <<>> /\ record = <<>>
      BY DEF Init, Idle
    <2>2. Underway \o queue = <<>>
      BY <2>1 DEF Underway
    <2>3. [i \in DOMAIN record |-> record[i].event] = <<>>
      BY <2>1
    <2> QED
      BY <2>1, <2>2, <2>3 DEF Init, Promise!DeliveryInit, Promise!QueueInit
  <1>2. IInv /\ [Next]_vars => [Promise!DeliveryNext]_(Promise!deliveryVars)
    BY DeliveryStep
  <1> QED
    BY <1>1, <1>2, Invariant, PTL DEF Spec, ImplementsDeliverySafely, Promise!SafetySpec

=============================================================================
