---------------------------- MODULE HostProofs ------------------------------
(***************************************************************************)
(* What the host guarantees for every set of events and every number of    *)
(* requests of Chrome.                                                     *)
(*                                                                         *)
(* The argument: the core is told to stop last, and main() goes on to the  *)
(* next part only when the one before it has ended; threads are started    *)
(* only before anything is stopped.  So whoever could submit is gone when  *)
(* the sentinel is queued (StopsInOrder), and it stays the last element    *)
(* (Closed).  Up to then the core runs (CoreRuns), hence its end means     *)
(* that everything in front of the sentinel was decided.  That the intake  *)
(* submits what it says it does needs that no connection is in two places  *)
(* at once (Connections) and that Chrome asks before anything is posted    *)
(* (BrowserSide).                                                          *)
(***************************************************************************)
EXTENDS Host, TLAPS

\* A part is told to stop when those before it have ended; the core is the last.
StopsInOrder ==
    /\ main.at = "start" => main.n \in 1 .. 6
    /\ main.at \in {"tell", "await"} =>
          main.n \in 1 .. 3 /\ \A j \in 1 .. (main.n - 1) : StopOrder[j] \notin alive
    /\ main.at = "returned" => "core" \in told /\ alive = {}
    /\ "core" \in told =>
          /\ alive \subseteq {"core"}
          /\ main.at \in {"await", "returned", "raised"}
          /\ main.at = "await" => main.n = 3
    /\ process = "clean" => main.at = "returned"

\* From its start on the core runs until it has taken the sentinel.
CoreRuns ==
    /\ Up /\ ~ended /\ main.at \in {"loop", "tell", "await"} => "core" \in alive
    /\ Up /\ ~ended /\ main.at = "start" /\ main.n > 2 => "core" \in alive
    /\ main.at = "returned" => ended

\* The sentinel is queued when the core is told to stop, and stays behind everything.
Closed ==
    /\ waiting \in Seq(Events \cup {End}) /\ ended \in BOOLEAN
    /\ "core" \notin told => ~ended /\ \A i \in DOMAIN waiting : waiting[i] # End
    /\ "core" \in told /\ ~ended => waiting # <<>> /\ waiting[Len(waiting)] = End
    /\ NothingBehindSentinel

\* What the intake submitted is waiting or decided.
Kept ==
    \A r \in Analyses : trace[r] # NoEvent =>
        r \in decided \/ \E i \in DOMAIN waiting : waiting[i] = r

InTransit == {"open", "whole", "late", "cut"}

\* A connection waits once to be accepted, or is handled.
Connections ==
    /\ \A i, j \in DOMAIN backlog : backlog[i] = backlog[j] => i = j
    /\ handling # NoOne => post[handling] \in InTransit
                           /\ \A i \in DOMAIN backlog : backlog[i] # handling

\* Before the bridge has a thread for a request there is no POST and no event of it, and
\* from Chrome's question on its file is what Chrome saw or what it became.
BrowserSide ==
    /\ DOMAIN trace = Analyses /\ DOMAIN request = Analyses /\ DOMAIN disk = Analyses
    /\ \A r \in Analyses : chrome[r] \in {"unasked", "asked"} =>
          post[r] = "none" /\ trace[r] = NoEvent
    /\ \A r \in Analyses : chrome[r] # "unasked" =>
          disk[r] # <<>> /\ Held(r) \subseteq {request[r].file} \cup Rewrites

IInv ==
    /\ TypeOK /\ StopsInOrder /\ CoreRuns /\ Closed
    /\ Kept /\ Connections /\ BrowserSide

-----------------------------------------------------------------------------
(* What an action does not touch *)

\* The threads' state: main, process, alive, told and the core's queue.
LEMMA ThreadsFrame ==
    ASSUME IInv, UNCHANGED <<queueVars, main, process, alive, told>>
    PROVE  StopsInOrder' /\ CoreRuns' /\ Closed'
  BY DEF IInv, queueVars, StopsInOrder, CoreRuns, Up, Closed, NothingBehindSentinel

\* The core's queue and whether it was told to stop.
LEMMA QueueFrame ==
    ASSUME IInv, UNCHANGED queueVars, "core" \in told' <=> "core" \in told
    PROVE  Closed'
  BY DEF IInv, queueVars, Closed, NothingBehindSentinel

\* What was submitted and what became of it.
LEMMA KeptFrame ==
    ASSUME IInv, UNCHANGED <<queueVars, trace>>
    PROVE  Kept'
  BY DEF IInv, queueVars, Kept

\* The connections and Chrome's side.
LEMMA BrowserFrame ==
    ASSUME IInv, UNCHANGED <<backlog, handling, chromeVars, post, trace>>
    PROVE  Connections' /\ BrowserSide'
  BY DEF IInv, chromeVars, Connections, BrowserSide, Held

-----------------------------------------------------------------------------
(* The inductive invariant: the main thread *)

\* Nothing runs at the start.
LEMMA InitIInv == Init => IInv
  <1> SUFFICES ASSUME Init PROVE IInv
    OBVIOUS
  <1>1. TypeOK
    <2>1. main \in [at : {"start", "loop", "tell", "await", "returned", "raised"}, n : 0 .. 6]
      BY DEF Init, At
    <2>2. backlog \in Seq(Analyses) /\ DOMAIN backlog = {} /\ DOMAIN waiting = {}
      BY DEF Init, QueueInit
    <2>3. /\ chrome \in [Analyses -> {"unasked", "asked", "spawned", "answered", "failopen"}]
          /\ post \in [Analyses -> {"none", "thread", "open", "whole", "late", "cut",
                                    "ok", "error", "lost"}]
      BY DEF Init
    <2>4. \A r \in Analyses : disk[r] \in Seq({a.file : a \in RequestsOf(r)} \cup Rewrites)
      BY DEF Init
    <2> QED
      BY <2>1, <2>2, <2>3, <2>4 DEF Init, TypeOK
  <1>2. StopsInOrder /\ CoreRuns
    <2>1. main.at = "start" /\ main.n = 1 /\ told = {} /\ process = "up"
      BY DEF Init, At
    <2> QED
      BY <2>1 DEF StopsInOrder, CoreRuns
  <1>3. Closed
    <2>1. waiting = <<>> /\ DOMAIN waiting = {} /\ ended = FALSE /\ told = {}
      BY DEF Init, QueueInit
    <2>2. waiting \in Seq(Events \cup {End})
      BY <2>1
    <2> QED
      BY <2>1, <2>2 DEF Closed, NothingBehindSentinel
  <1>4. Kept /\ Connections /\ BrowserSide
    BY DEF Init, QueueInit, Kept, Connections, BrowserSide
  <1> QED
    BY <1>1, <1>2, <1>3, <1>4 DEF IInv

\* The order of starting, seen from the core.
LEMMA StartOrderFacts ==
    ASSUME NEW n \in 1 .. 6
    PROVE  /\ Len(StartOrder) = 6
           /\ StartOrder[2] = "core" /\ (n # 2 => StartOrder[n] # "core")
  BY DEF StartOrder

\* The order of stopping.
LEMMA StopOrderFacts ==
    /\ Len(StopOrder) = 3
    /\ StopOrder[1] = "intake" /\ StopOrder[2] = "worker" /\ StopOrder[3] = "core"
  BY DEF StopOrder, StopWatcherThenCore

\* One more part runs; the core does from the second step on.
LEMMA StartStep ==
    ASSUME IInv, Start
    PROVE  IInv'
  <1> USE DEF IInv
  <1>1. /\ main.at = "start" /\ main.n \in 1 .. 6 /\ Up /\ "core" \notin told
        /\ UNCHANGED <<queueVars, process, told, backlog, handling, chromeVars, post, trace>>
    BY DEF Start, StopsInOrder
  <1>2. alive \subseteq alive' /\ alive' \subseteq {"core", "worker", "intake"}
    BY DEF Start, TypeOK
  <1>3. \/ main' = At("loop", 0) /\ main.n = 6
        \/ main' = At("start", main.n + 1) /\ main.n \in 1 .. 5
    BY <1>1, StartOrderFacts DEF Start
  <1>4. TypeOK'
    <2>1. main' \in [at : {"start", "loop", "tell", "await", "returned", "raised"}, n : 0 .. 6]
      BY <1>3 DEF At
    <2>2. listening' \in BOOLEAN
      <3>1. listening' = (listening \/ StartOrder[main.n] = "port")
        BY DEF Start
      <3> QED
        BY <3>1
    <2> QED
      BY <1>1, <1>2, <2>1, <2>2 DEF TypeOK, chromeVars, queueVars
  <1>5. StopsInOrder'
    <2>1. main'.at \in {"start", "loop"} /\ (main'.at = "start" => main'.n \in 1 .. 6)
      BY <1>3 DEF At
    <2> QED
      BY <1>1, <2>1 DEF StopsInOrder, Up
  <1>6. CoreRuns'
    <2>1. main.n = 2 => "core" \in alive'
      <3>1. alive' = alive \cup ({StartOrder[main.n]} \cap {"core", "worker", "intake"})
        BY DEF Start
      <3> QED
        BY <1>1, <3>1, StartOrderFacts
    <2>2. main.n > 2 /\ ~ended => "core" \in alive'
      BY <1>1, <1>2 DEF CoreRuns
    <2>3. main'.at \in {"start", "loop"} /\ (main'.at = "start" => main'.n = main.n + 1)
      BY <1>3 DEF At
    <2>4. main'.at = "loop" => main.n = 6
      BY <1>3 DEF At
    <2> QED
      BY <1>1, <2>1, <2>2, <2>3, <2>4 DEF CoreRuns, queueVars
  <1>7. Closed' /\ Kept'
    BY <1>1, QueueFrame, KeptFrame
  <1>8. Connections' /\ BrowserSide'
    BY <1>1, BrowserFrame
  <1> QED
    BY <1>4, <1>5, <1>6, <1>7, <1>8

\* main() raises: the threads that run stay.
LEMMA StartFailsStep ==
    ASSUME IInv, StartFails
    PROVE  IInv'
  <1> USE DEF IInv
  <1>1. /\ main.at = "start" /\ "core" \notin told /\ main'.at = "raised" /\ main'.n = 0
        /\ UNCHANGED <<queueVars, process, told, intakeVars, chromeVars, post, trace>>
    BY DEF StartFails, StopsInOrder, At
  <1>2. alive \subseteq alive' /\ alive' \subseteq {"core", "worker", "intake"}
    BY DEF StartFails, TypeOK
  <1>3. TypeOK'
    <2>1. main' \in [at : {"start", "loop", "tell", "await", "returned", "raised"}, n : 0 .. 6]
      BY DEF StartFails, At
    <2> QED
      BY <1>1, <1>2, <2>1 DEF TypeOK, chromeVars, queueVars, intakeVars
  <1>4. StopsInOrder' /\ CoreRuns'
    BY <1>1 DEF StopsInOrder, CoreRuns, Up
  <1>5. Closed' /\ Kept' /\ Connections' /\ BrowserSide'
    BY <1>1, QueueFrame, KeptFrame, BrowserFrame DEF intakeVars
  <1> QED
    BY <1>3, <1>4, <1>5

\* Ctrl-C, the first one or one more.
LEMMA InterruptStep ==
    ASSUME IInv, Interrupt \/ InterruptAgain
    PROVE  IInv'
  <1> USE DEF IInv
  <1>1. /\ UNCHANGED <<queueVars, process, alive, told, intakeVars, chromeVars, post, trace>>
        /\ Up
        /\ \/ main.at = "loop" /\ main' = At("tell", 1)
           \/ main' = At("raised", 0)
    BY DEF Interrupt, InterruptAgain
  <1>2. TypeOK'
    <2>1. main' \in [at : {"start", "loop", "tell", "await", "returned", "raised"}, n : 0 .. 6]
      BY <1>1 DEF At
    <2> QED
      BY <1>1, <2>1 DEF TypeOK, chromeVars, queueVars, intakeVars
  <1>3. \/ main.at = "loop" /\ main'.at = "tell" /\ main'.n = 1
        \/ main'.at = "raised"
    BY <1>1 DEF At
  <1>4. StopsInOrder' /\ CoreRuns'
    BY <1>1, <1>3 DEF StopsInOrder, CoreRuns, Up, queueVars
  <1>5. Closed' /\ Kept' /\ Connections' /\ BrowserSide'
    BY <1>1, QueueFrame, KeptFrame, BrowserFrame DEF intakeVars
  <1> QED
    BY <1>2, <1>4, <1>5

\* The next part is told to stop.  The core is the third: the others have ended, and
\* its sentinel is the only one.
LEMMA TellStep ==
    ASSUME IInv, Tell
    PROVE  IInv'
  <1> USE DEF IInv
  <1>1. /\ UNCHANGED <<process, alive, intakeVars, chromeVars, post, trace>> /\ Up
        /\ main.at = "tell" /\ main.n \in 1 .. 3 /\ main'.at = "await" /\ main'.n = main.n
        /\ "core" \notin told
        /\ told' = told \cup {StopOrder[main.n]}
    BY DEF Tell, At, StopsInOrder
  <1>2. "core" \in told' <=> main.n = 3
    BY <1>1, StopOrderFacts
  <1>3. main.n = 3 => alive \subseteq {"core"}
    BY <1>1, StopOrderFacts DEF StopsInOrder, TypeOK
  <1>4. /\ ended' = ended /\ decided' = decided
        /\ main.n # 3 => waiting' = waiting
        /\ main.n = 3 => waiting' = Append(waiting, End)
    BY <1>1, StopOrderFacts DEF Tell, CloseCore, Close, queueVars
  <1>5. /\ waiting' \in Seq(Events \cup {End})
        /\ \A i \in DOMAIN waiting : i \in DOMAIN waiting' /\ waiting'[i] = waiting[i]
        /\ \A i \in DOMAIN waiting' \ DOMAIN waiting :
              main.n = 3 /\ i = Len(waiting') /\ waiting'[i] = End
        /\ main.n = 3 => waiting' # <<>> /\ waiting'[Len(waiting')] = End
    BY <1>4 DEF Closed
  <1>6. TypeOK'
    <2>1. main' \in [at : {"start", "loop", "tell", "await", "returned", "raised"}, n : 0 .. 6]
      BY <1>1 DEF Tell, At
    <2>2. told' \subseteq {"core", "worker", "intake"}
      BY <1>1, StopOrderFacts DEF TypeOK
    <2>3. \A i \in DOMAIN waiting' : waiting'[i] \in Events \cup {End}
      BY <1>5
    <2> QED
      BY <1>1, <2>1, <2>2, <2>3 DEF TypeOK, chromeVars, intakeVars
  <1>7. StopsInOrder'
    BY <1>1, <1>2, <1>3 DEF StopsInOrder, Up
  <1>8. CoreRuns'
    BY <1>1, <1>4 DEF CoreRuns, Up
  <1>9. Closed'
    <2>1. ~ended /\ \A i \in DOMAIN waiting : waiting[i] # End
      BY <1>1 DEF Closed
    <2> QED
      BY <1>2, <1>4, <1>5, <2>1 DEF Closed, NothingBehindSentinel
  <1>10. Kept'
    BY <1>1, <1>4, <1>5 DEF Kept
  <1>11. Connections' /\ BrowserSide'
    BY <1>1, BrowserFrame DEF intakeVars
  <1> QED
    BY <1>6, <1>7, <1>8, <1>9, <1>10, <1>11

\* The part has ended; for the core that means that it took the sentinel.
LEMMA AwaitStep ==
    ASSUME IInv, Await
    PROVE  IInv'
  <1> USE DEF IInv
  <1>1. /\ UNCHANGED <<queueVars, process, alive, told, intakeVars, chromeVars, post, trace>>
        /\ Up /\ main.at = "await" /\ main.n \in 1 .. 3 /\ StopOrder[main.n] \notin alive
        /\ \A j \in 1 .. (main.n - 1) : StopOrder[j] \notin alive
    BY DEF Await, StopsInOrder
  <1>2. \/ main.n = 3 /\ main'.at = "returned" /\ main'.n = 0
        \/ main.n \in 1 .. 2 /\ main'.at = "tell" /\ main'.n = main.n + 1
    BY <1>1, StopOrderFacts DEF Await, At
  <1>3. TypeOK'
    <2>1. main' \in [at : {"start", "loop", "tell", "await", "returned", "raised"}, n : 0 .. 6]
      BY <1>1, StopOrderFacts DEF Await, At
    <2> QED
      BY <1>1, <2>1 DEF TypeOK, chromeVars, queueVars, intakeVars
  <1>4. CASE main.n = 3
    <2>1. alive = {} /\ "core" \notin alive
      BY <1>1, <1>4, StopOrderFacts DEF TypeOK
    <2>2. ended
      BY <1>1, <2>1 DEF CoreRuns
    <2>3. "core" \in told
      BY <2>2 DEF Closed
    <2> QED
      BY <1>1, <1>2, <1>3, <1>4, <2>1, <2>2, <2>3, QueueFrame, KeptFrame, BrowserFrame
         DEF StopsInOrder, CoreRuns, Up, queueVars, intakeVars
  <1>5. CASE main.n # 3
    <2>1. main'.at = "tell" /\ main'.n \in 2 .. 3 /\ main'.n = main.n + 1
      BY <1>2, <1>5
    <2>2. \A j \in 1 .. (main'.n - 1) : StopOrder[j] \notin alive
      BY <1>1, <2>1
    <2>3. "core" \notin told
      BY <1>1, <1>5 DEF StopsInOrder
    <2>4. StopsInOrder'
      BY <1>1, <2>1, <2>2, <2>3 DEF StopsInOrder, Up
    <2>5. CoreRuns'
      BY <1>1, <2>1 DEF CoreRuns, Up, queueVars
    <2> QED
      BY <1>1, <1>3, <2>4, <2>5, QueueFrame, KeptFrame, BrowserFrame DEF intakeVars
  <1> QED
    BY <1>4, <1>5

\* The process ends, and what the connections were waiting for is lost.
LEMMA ExitStep ==
    ASSUME IInv, Exit
    PROVE  IInv'
  <1> USE DEF IInv
  <1>1. /\ UNCHANGED <<queueVars, main, told, chromeVars, trace>>
        /\ main.at \in {"returned", "raised"}
        /\ process' = IF main.at = "returned" THEN "clean" ELSE "failed"
        /\ alive' = {} /\ listening' = FALSE /\ backlog' = <<>> /\ handling' = NoOne
    BY DEF Exit
  <1>2. /\ post' \in [Analyses -> {"none", "thread", "ok", "error", "lost"}]
        /\ \A r \in Analyses : post[r] = "none" => post'[r] = "none"
    BY DEF Exit, TypeOK
  <1>3. backlog' \in Seq(Analyses) /\ DOMAIN backlog' = {}
    BY <1>1
  <1>4. TypeOK'
    <2>1. post' \in [Analyses -> {"none", "thread", "open", "whole", "late", "cut",
                                  "ok", "error", "lost"}]
      BY <1>2
    <2>2. process' \in {"up", "clean", "failed"}
      BY <1>1
    <2> QED
      BY <1>1, <1>3, <2>1, <2>2 DEF TypeOK, chromeVars, queueVars
  <1>5. StopsInOrder' /\ CoreRuns'
    BY <1>1 DEF StopsInOrder, CoreRuns, queueVars, Up
  <1>6. Closed' /\ Kept'
    BY <1>1, QueueFrame, KeptFrame
  <1>7. Connections' /\ BrowserSide'
    BY <1>1, <1>2, <1>3 DEF Connections, BrowserSide, chromeVars, Held
  <1> QED
    BY <1>4, <1>5, <1>6, <1>7

-----------------------------------------------------------------------------
(* The inductive invariant: the threads that submit and the core *)

\* A thread that was told to stop is over.
LEMMA ThreadEndsStep ==
    ASSUME IInv, WorkerEnds \/ ServeEnds
    PROVE  IInv'
  <1> USE DEF IInv
  <1>1. /\ UNCHANGED <<queueVars, main, process, told, intakeVars, chromeVars, post, trace>>
        /\ alive' \subseteq alive
        /\ "core" \in alive => "core" \in alive'
        /\ handling # NoOne => alive' = alive \ {"worker"}
    BY DEF WorkerEnds, ServeEnds
  <1>2. TypeOK'
    BY <1>1 DEF TypeOK, chromeVars, queueVars, intakeVars
  <1>3. StopsInOrder' /\ CoreRuns'
    BY <1>1 DEF StopsInOrder, CoreRuns, queueVars, Up
  <1>4. Closed' /\ Kept' /\ Connections' /\ BrowserSide'
    BY <1>1, QueueFrame, KeptFrame, BrowserFrame DEF intakeVars
  <1> QED
    BY <1>2, <1>3, <1>4

\* Whoever offers an event to the core runs, so the core was not told to stop.
LEMMA OfferFacts ==
    ASSUME IInv, NEW e \in Events, Offer(e), alive \cap {"worker", "intake"} # {}
    PROVE  /\ waiting' \in Seq(Events \cup {End})
           /\ "core" \notin told /\ ~ended /\ ended' = ended /\ decided' = decided
           /\ \A i \in DOMAIN waiting' : waiting'[i] # End
           /\ \A i \in DOMAIN waiting : i \in DOMAIN waiting' /\ waiting'[i] = waiting[i]
           /\ \E i \in DOMAIN waiting' : waiting'[i] = e
  <1>1. waiting' = Append(waiting, e) /\ waiting \in Seq(Events \cup {End})
        /\ ended' = ended /\ decided' = decided
    BY DEF Offer, IInv, Closed
  <1>2. "core" \notin told
    BY DEF IInv, StopsInOrder
  <1>3. ~ended /\ \A i \in DOMAIN waiting : waiting[i] # End
    BY <1>2 DEF IInv, Closed
  <1>4. e # End
    BY HostAssumption
  <1>5. /\ waiting' \in Seq(Events \cup {End})
        /\ DOMAIN waiting = 1 .. Len(waiting) /\ DOMAIN waiting' = 1 .. (Len(waiting) + 1)
        /\ Len(waiting) \in Nat
        /\ waiting'[Len(waiting) + 1] = e
        /\ \A i \in 1 .. Len(waiting) : waiting'[i] = waiting[i]
    BY <1>1
  <1> QED
    BY <1>1, <1>2, <1>3, <1>4, <1>5

\* Worker.process submits an event.
LEMMA WorkerSubmitsStep ==
    ASSUME IInv, NEW f \in FileEvents, WorkerSubmits(f)
    PROVE  IInv'
  <1> USE DEF IInv
  <1>1. /\ UNCHANGED <<main, process, alive, told, intakeVars, chromeVars, post, trace>>
        /\ f \in Events /\ Offer(f) /\ alive \cap {"worker", "intake"} # {}
    BY DEF WorkerSubmits, FileEvents
  <1>2. /\ waiting' \in Seq(Events \cup {End})
        /\ "core" \notin told /\ ~ended /\ ended' = ended /\ decided' = decided
        /\ \A i \in DOMAIN waiting' : waiting'[i] # End
        /\ \A i \in DOMAIN waiting : i \in DOMAIN waiting' /\ waiting'[i] = waiting[i]
    BY <1>1, OfferFacts
  <1>3. TypeOK'
    <2>1. \A i \in DOMAIN waiting' : waiting'[i] \in Events \cup {End}
      BY <1>2
    <2> QED
      BY <1>1, <2>1 DEF TypeOK, chromeVars, intakeVars
  <1>4. StopsInOrder' /\ CoreRuns'
    BY <1>1, <1>2 DEF StopsInOrder, CoreRuns, Up
  <1>5. Closed'
    BY <1>1, <1>2 DEF Closed, NothingBehindSentinel
  <1>6. Kept'
    BY <1>1, <1>2 DEF Kept
  <1>7. Connections' /\ BrowserSide'
    BY <1>1, BrowserFrame DEF intakeVars
  <1> QED
    BY <1>3, <1>4, <1>5, <1>6, <1>7

\* The core decides what is in front, and ends at the sentinel, which is the last.
LEMMA CoreStepStep ==
    ASSUME IInv, CoreStep
    PROVE  IInv'
  <1> USE DEF IInv
  <1>1. /\ UNCHANGED <<main, process, told, intakeVars, chromeVars, post, trace>>
        /\ ~ended /\ waiting # <<>> /\ waiting' = Tail(waiting)
        /\ alive' \subseteq alive /\ "core" \in alive
        /\ handling # NoOne => ("intake" \in alive <=> "intake" \in alive')
    BY DEF CoreStep, Decide, Finish
  <1>2. /\ waiting \in Seq(Events \cup {End}) /\ Head(waiting) = waiting[1]
        /\ waiting' \in Seq(Events \cup {End})
        /\ Len(waiting) \in Nat \ {0} /\ DOMAIN waiting = 1 .. Len(waiting)
        /\ DOMAIN waiting' = 1 .. (Len(waiting) - 1) /\ Len(waiting') = Len(waiting) - 1
        /\ \A i \in 1 .. (Len(waiting) - 1) : waiting'[i] = waiting[i + 1]
    BY <1>1 DEF Closed
  <1>3. \/ /\ Head(waiting) # End /\ decided' = decided \cup {Head(waiting)}
           /\ ended' = ended /\ alive' = alive
        \/ /\ Head(waiting) = End /\ decided' = decided
           /\ ended' = TRUE
    BY <1>1 DEF CoreStep, Decide, Finish, Closed
  <1>4. Head(waiting) = End => Len(waiting) = 1 /\ waiting' = <<>>
    BY <1>2 DEF Closed, NothingBehindSentinel
  <1>5. TypeOK'
    <2>1. \A i \in DOMAIN waiting' : waiting'[i] \in Events \cup {End}
      BY <1>2
    <2> QED
      BY <1>1, <2>1 DEF TypeOK, chromeVars, intakeVars
  <1>6. StopsInOrder'
    BY <1>1 DEF StopsInOrder, Up
  <1>7. CoreRuns'
    BY <1>1, <1>3 DEF CoreRuns, Up
  <1>8. Closed'
    <2>1. CASE Head(waiting) = End
      <3>1. "core" \in told
        BY <1>2, <2>1 DEF Closed
      <3>2. waiting' = <<>> /\ DOMAIN waiting' = {} /\ ended' = TRUE
        BY <1>2, <1>3, <1>4, <2>1
      <3> QED
        BY <1>1, <1>2, <3>1, <3>2 DEF Closed, NothingBehindSentinel
    <2>2. CASE Head(waiting) # End
      <3>1. ended' = ended
        BY <1>3, <2>2
      <3>2. "core" \notin told => \A i \in DOMAIN waiting' : waiting'[i] # End
        BY <1>2 DEF Closed
      <3>3. "core" \in told => waiting' # <<>> /\ waiting'[Len(waiting')] = End
        <4> SUFFICES ASSUME "core" \in told
                     PROVE  waiting' # <<>> /\ waiting'[Len(waiting')] = End
          OBVIOUS
        <4>1. waiting[Len(waiting)] = End
          BY <1>1 DEF Closed
        <4>2. Len(waiting) - 1 \in 1 .. (Len(waiting) - 1)
          BY <1>2, <2>2, <4>1
        <4>3. waiting'[Len(waiting) - 1] = waiting[Len(waiting)]
          BY <1>2, <4>2
        <4> QED
          BY <1>2, <4>1, <4>2, <4>3
      <3>4. \A i \in DOMAIN waiting' : waiting'[i] = End => i = Len(waiting')
        BY <1>2 DEF Closed, NothingBehindSentinel
      <3> QED
        BY <1>1, <1>2, <3>1, <3>2, <3>3, <3>4 DEF Closed, NothingBehindSentinel
    <2> QED
      BY <2>1, <2>2
  <1>9. Kept'
    <2> SUFFICES ASSUME NEW r \in Analyses, trace[r] # NoEvent
                 PROVE  r \in decided' \/ \E i \in DOMAIN waiting' : waiting'[i] = r
      BY <1>1 DEF Kept
    <2>1. CASE r \in decided
      BY <1>3, <2>1
    <2>2. CASE \E i \in DOMAIN waiting : waiting[i] = r
      <3>1. PICK i \in DOMAIN waiting : waiting[i] = r
        BY <2>2
      <3>2. CASE i = 1
        BY <1>2, <1>3, <3>1, <3>2, HostAssumption
      <3>3. CASE i # 1
        <4>1. i - 1 \in DOMAIN waiting' /\ waiting'[i - 1] = r
          BY <1>2, <3>1, <3>3
        <4> QED
          BY <4>1
      <3> QED
        BY <3>2, <3>3
    <2> QED
      BY <2>1, <2>2 DEF Kept
  <1>10. Connections' /\ BrowserSide'
    BY <1>1, BrowserFrame DEF intakeVars
  <1> QED
    BY <1>5, <1>6, <1>7, <1>8, <1>9, <1>10

-----------------------------------------------------------------------------
(* The inductive invariant: the intake *)

\* The intake takes the oldest connection.
LEMMA AcceptStep ==
    ASSUME IInv, Accept
    PROVE  IInv'
  <1> USE DEF IInv
  <1>1. /\ UNCHANGED <<queueVars, main, process, alive, told, listening, chromeVars, post, trace>>
        /\ "intake" \in alive
        /\ backlog # <<>> /\ handling' = Head(backlog) /\ backlog' = Tail(backlog)
    BY DEF Accept
  <1>2. /\ backlog' \in Seq(Analyses) /\ handling' \in Analyses /\ handling' = backlog[1]
        /\ Len(backlog) \in Nat \ {0} /\ DOMAIN backlog = 1 .. Len(backlog)
        /\ DOMAIN backlog' = 1 .. (Len(backlog) - 1)
        /\ \A i \in 1 .. (Len(backlog) - 1) : backlog'[i] = backlog[i + 1]
    BY <1>1 DEF TypeOK
  <1>3. post[handling'] \in InTransit /\ \A i \in DOMAIN backlog' : post[backlog'[i]] \in InTransit
    <2>1. \A i \in DOMAIN backlog : post[backlog[i]] \in InTransit
      BY DEF TypeOK, InTransit
    <2>2. 1 \in DOMAIN backlog /\ \A i \in DOMAIN backlog' : i + 1 \in DOMAIN backlog
      BY <1>2
    <2> QED
      BY <1>2, <2>1, <2>2
  <1>4. TypeOK'
    BY <1>1, <1>2, <1>3 DEF TypeOK, InTransit, chromeVars, queueVars
  <1>5. Connections'
    BY <1>1, <1>2, <1>3 DEF Connections
  <1>6. BrowserSide'
    BY <1>1 DEF BrowserSide, chromeVars, Held
  <1> QED
    BY <1>1, <1>4, <1>5, <1>6, ThreadsFrame, KeptFrame

\* The connection that is handled is no longer in transit, whatever it ends in.
LEMMA HandledFacts ==
    ASSUME IInv, NEW r \in Analyses, handling = r, handling' = NoOne, backlog' = backlog,
           NEW status \in {"ok", "error", "lost"}, post' = [post EXCEPT ![r] = status]
    PROVE  /\ post' \in [Analyses -> {"none", "thread", "open", "whole", "late", "cut",
                                      "ok", "error", "lost"}]
           /\ \A i \in DOMAIN backlog' : post'[backlog'[i]] \in InTransit
           /\ Connections'
           /\ chrome[r] \notin {"unasked", "asked"}
           /\ "intake" \in alive
  <1>1. r # NoOne
    BY HostAssumption
  <1>2. /\ "intake" \in alive /\ post[r] \in InTransit
        /\ \A i \in DOMAIN backlog : backlog[i] # r
    BY <1>1 DEF IInv, TypeOK, Connections
  <1>3. chrome[r] \notin {"unasked", "asked"}
    BY <1>2 DEF IInv, BrowserSide, InTransit
  <1>4. /\ post' \in [Analyses -> {"none", "thread", "open", "whole", "late", "cut",
                                   "ok", "error", "lost"}]
        /\ \A q \in Analyses \ {r} : post'[q] = post[q]
    BY DEF IInv, TypeOK
  <1>5. \A i \in DOMAIN backlog : backlog[i] \in Analyses /\ post'[backlog[i]] \in InTransit
    <2>1. \A i \in DOMAIN backlog : backlog[i] \in Analyses /\ post[backlog[i]] \in InTransit
      BY DEF IInv, TypeOK, InTransit
    <2> QED
      BY <1>2, <1>4, <2>1
  <1>6. Connections'
    BY DEF IInv, Connections
  <1> QED
    BY <1>2, <1>3, <1>4, <1>5, <1>6

\* handle_request answers 200 or 500.
LEMMA AnswerFacts ==
    ASSUME NEW req, NEW read
    PROVE  HandleRequest(req, read).status \in {"ok", "error"}
  BY DEF HandleRequest

\* do_POST: the event, if there is one, is offered to a core that is not told to stop.
LEMMA HandleRequestStep ==
    ASSUME IInv, NEW r \in Analyses, Handle(r)
    PROVE  IInv'
  <1> USE DEF IInv
  <1>1. PICK read : LET result == HandleRequest(BuildJson(request[r]), read) IN
          /\ IF result.event # NoEvent THEN Offer(r) ELSE UNCHANGED queueVars
          /\ trace' = [trace EXCEPT ![r] = result.event]
          /\ post' = [post EXCEPT ![r] = IF @ = "late" THEN "lost" ELSE result.status]
          /\ alive' = IF result.status = "error" THEN alive ELSE alive
    BY DEF Handle, HandleIn
  <1> DEFINE result == HandleRequest(BuildJson(request[r]), read)
  <1> HIDE DEF result
  <1>2. /\ UNCHANGED <<main, process, alive, told, listening, backlog, chromeVars>>
        /\ handling = r /\ handling' = NoOne
        /\ IF result.event # NoEvent THEN Offer(r) ELSE UNCHANGED queueVars
        /\ trace' = [trace EXCEPT ![r] = result.event]
    BY <1>1 DEF Handle, HandleIn, result
  <1>3. PICK status \in {"ok", "error", "lost"} : post' = [post EXCEPT ![r] = status]
    <2>1. result.status \in {"ok", "error"}
      BY AnswerFacts DEF result
    <2> QED
      BY <1>1, <2>1 DEF result
  <1>4. /\ post' \in [Analyses -> {"none", "thread", "open", "whole", "late", "cut",
                                   "ok", "error", "lost"}]
        /\ \A i \in DOMAIN backlog' : post'[backlog'[i]] \in InTransit
        /\ Connections'
        /\ chrome[r] \notin {"unasked", "asked"}
        /\ "intake" \in alive
    BY <1>2, <1>3, HandledFacts
  <1>5. r \in Events
    BY HostAssumption
  <1>6. /\ DOMAIN trace' = Analyses /\ trace'[r] = result.event
        /\ \A q \in Analyses \ {r} : trace'[q] = trace[q] /\ post'[q] = post[q]
    BY <1>2, <1>3 DEF BrowserSide, TypeOK
  <1>7. BrowserSide'
    BY <1>2, <1>4, <1>6 DEF BrowserSide, chromeVars, Held
  <1>8. CASE result.event # NoEvent
    <2>1. /\ waiting' \in Seq(Events \cup {End})
          /\ "core" \notin told /\ ~ended /\ ended' = ended /\ decided' = decided
          /\ \A i \in DOMAIN waiting' : waiting'[i] # End
          /\ \A i \in DOMAIN waiting : i \in DOMAIN waiting' /\ waiting'[i] = waiting[i]
          /\ \E i \in DOMAIN waiting' : waiting'[i] = r
      BY <1>2, <1>4, <1>5, <1>8, OfferFacts
    <2>2. TypeOK'
      <3>1. \A i \in DOMAIN waiting' : waiting'[i] \in Events \cup {End}
        BY <2>1
      <3> QED
        BY <1>2, <1>4, <3>1 DEF TypeOK, chromeVars, InTransit
    <2>3. StopsInOrder' /\ CoreRuns'
      BY <1>2, <2>1 DEF StopsInOrder, CoreRuns, Up
    <2>4. Closed'
      BY <1>2, <2>1 DEF Closed, NothingBehindSentinel
    <2>5. Kept'
      BY <1>6, <2>1 DEF Kept
    <2> QED
      BY <1>4, <1>7, <2>2, <2>3, <2>4, <2>5
  <1>9. CASE result.event = NoEvent
    <2>1. UNCHANGED queueVars
      BY <1>2, <1>9
    <2>2. TypeOK'
      BY <1>2, <1>4, <2>1 DEF TypeOK, chromeVars, queueVars, InTransit
    <2>3. Kept'
      BY <1>6, <1>9, <2>1 DEF Kept, queueVars
    <2> QED
      BY <1>2, <1>4, <1>7, <2>1, <2>2, <2>3, ThreadsFrame
  <1> QED
    BY <1>8, <1>9

\* do_POST with a body that was cut.
LEMMA HandleCutStep ==
    ASSUME IInv, NEW r \in Analyses, HandleCut(r)
    PROVE  IInv'
  <1>1. /\ UNCHANGED <<queueVars, main, process, alive, told, listening, backlog, chromeVars, trace>>
        /\ handling = r /\ handling' = NoOne /\ post' = [post EXCEPT ![r] = "lost"]
    BY DEF HandleCut
  <1>2. /\ post' \in [Analyses -> {"none", "thread", "open", "whole", "late", "cut",
                                   "ok", "error", "lost"}]
        /\ \A i \in DOMAIN backlog' : post'[backlog'[i]] \in InTransit
        /\ Connections'
        /\ chrome[r] \notin {"unasked", "asked"}
    BY <1>1, HandledFacts
  <1>3. TypeOK'
    BY <1>1, <1>2 DEF IInv, TypeOK, chromeVars, queueVars, InTransit
  <1>4. BrowserSide'
    BY <1>1, <1>2 DEF IInv, BrowserSide, TypeOK, chromeVars, Held
  <1> QED
    BY <1>1, <1>2, <1>3, <1>4, ThreadsFrame, KeptFrame DEF IInv

-----------------------------------------------------------------------------
(* The inductive invariant: Chrome and the bridge *)

\* A request is made before anything else happens to it.
LEMMA AskStep ==
    ASSUME IInv, NEW r \in Analyses, Ask(r)
    PROVE  IInv'
  <1>1. /\ UNCHANGED <<queueVars, main, process, alive, told, intakeVars, bridge, post, trace>>
        /\ chrome' = [chrome EXCEPT ![r] = "asked"] /\ chrome[r] = "unasked"
    BY DEF Ask
  <1>2. PICK a \in RequestsOf(r) : /\ request' = [request EXCEPT ![r] = a]
                                   /\ disk' = [disk EXCEPT ![r] = <<a.file>>]
    BY DEF Ask
  <1>3. DOMAIN disk = Analyses
    BY DEF IInv, BrowserSide
  <1>4. \A q \in Analyses : disk'[q] \in Seq({b.file : b \in RequestsOf(q)} \cup Rewrites)
    <2>1. ASSUME NEW q \in Analyses
          PROVE  disk'[q] \in Seq({b.file : b \in RequestsOf(q)} \cup Rewrites)
      <3> DEFINE S == {b.file : b \in RequestsOf(q)} \cup Rewrites
      <3>1. disk[q] \in Seq(S)
        BY DEF IInv, TypeOK
      <3>2. q = r => a.file \in S
        BY <1>2
      <3> HIDE DEF S
      <3>3. disk'[q] \in Seq(S)
        BY <1>2, <1>3, <3>1, <3>2
      <3> QED
        BY <3>3 DEF S
    <2> QED
      BY <2>1
  <1>5. TypeOK'
    BY <1>1, <1>4 DEF IInv, TypeOK, queueVars, intakeVars
  <1>6. Connections'
    BY <1>1 DEF IInv, Connections, intakeVars
  <1>7. BrowserSide'
    <2>1. ASSUME NEW q \in Analyses, chrome'[q] # "unasked"
          PROVE  disk'[q] # <<>> /\ Held(q)' \subseteq {request'[q].file} \cup Rewrites
      <3>1. CASE q = r
        <4>1. disk'[r] = <<a.file>> /\ request'[r] = a
          BY <1>2, <1>3 DEF IInv, BrowserSide
        <4> QED
          BY <3>1, <4>1 DEF Held
      <3>2. CASE q # r
        <4>1. disk'[q] = disk[q] /\ request'[q] = request[q] /\ chrome'[q] = chrome[q]
          BY <1>1, <1>2, <1>3, <3>2 DEF IInv, BrowserSide, TypeOK
        <4> QED
          BY <2>1, <4>1 DEF IInv, BrowserSide, Held
      <3> QED
        BY <3>1, <3>2
    <2> QED
      BY <1>1, <1>2, <2>1 DEF IInv, BrowserSide, TypeOK
  <1> QED
    BY <1>1, <1>5, <1>6, <1>7, ThreadsFrame, KeptFrame DEF IInv

\* What a file was stays, and what it becomes is the last.
LEMMA GrowthFacts ==
    ASSUME IInv, NEW r \in Analyses, NEW c \in Rewrites,
           disk' = [disk EXCEPT ![r] = Append(@, c)], NEW q \in Analyses
    PROVE  /\ Held(q) \subseteq Held(q)' /\ Held(q)' \subseteq Held(q) \cup {c}
           /\ disk[q] # <<>> => disk'[q] # <<>>
  <1>1. /\ DOMAIN disk = Analyses
        /\ disk[r] \in Seq({a.file : a \in RequestsOf(r)} \cup Rewrites)
    BY DEF IInv, BrowserSide, TypeOK
  <1>2. CASE q # r
    BY <1>1, <1>2 DEF Held
  <1>3. CASE q = r
    <2>1. disk'[r] = Append(disk[r], c)
      BY <1>1
    <2> DEFINE S == {a.file : a \in RequestsOf(r)} \cup Rewrites
               old == disk[r]
               new == disk'[r]
    <2>2. old \in Seq(S) /\ c \in S /\ new = Append(old, c)
      BY <1>1, <2>1
    <2> HIDE DEF S, old, new
    <2>3. /\ Len(old) \in Nat /\ DOMAIN old = 1 .. Len(old)
          /\ DOMAIN new = 1 .. (Len(old) + 1)
          /\ \A i \in 1 .. Len(old) : new[i] = old[i]
          /\ new[Len(old) + 1] = c
      BY <2>2
    <2>4. Held(r) = {old[i] : i \in DOMAIN old} /\ Held(r)' = {new[i] : i \in DOMAIN new}
      BY DEF Held, old, new
    <2>5. Held(r) \subseteq Held(r)' /\ Held(r)' \subseteq Held(r) \cup {c}
      BY <2>3, <2>4
    <2>6. new # <<>>
      BY <2>3
    <2> QED
      BY <1>3, <2>5, <2>6 DEF new
  <1> QED
    BY <1>2, <1>3

\* A file is rewritten: that concerns nobody yet.
LEMMA RewriteStep ==
    ASSUME IInv, NEW r \in Analyses, Rewrite(r)
    PROVE  IInv'
  <1>1. UNCHANGED <<queueVars, main, process, alive, told, intakeVars, bridge, chrome, request,
                    post, trace>>
    BY DEF Rewrite
  <1>2. PICK c \in Rewrites : disk' = [disk EXCEPT ![r] = Append(@, c)]
    BY DEF Rewrite
  <1>3. DOMAIN disk = Analyses
    BY DEF IInv, BrowserSide
  <1>4. \A q \in Analyses : disk'[q] \in Seq({a.file : a \in RequestsOf(q)} \cup Rewrites)
    BY <1>2, <1>3 DEF IInv, TypeOK
  <1>5. TypeOK'
    BY <1>1, <1>4 DEF IInv, TypeOK, queueVars, intakeVars
  <1>6. Connections'
    BY <1>1 DEF IInv, Connections, intakeVars
  <1>7. BrowserSide'
    <2>1. ASSUME NEW q \in Analyses, chrome'[q] # "unasked"
          PROVE  disk'[q] # <<>> /\ Held(q)' \subseteq {request'[q].file} \cup Rewrites
      <3>1. disk[q] # <<>> /\ Held(q) \subseteq {request[q].file} \cup Rewrites
        BY <1>1, <2>1 DEF IInv, BrowserSide
      <3>2. Held(q)' \subseteq Held(q) \cup {c} /\ disk'[q] # <<>>
        BY <1>2, <3>1, GrowthFacts
      <3> QED
        BY <1>1, <3>1, <3>2
    <2> QED
      BY <1>1, <1>2, <2>1 DEF IInv, BrowserSide
  <1> QED
    BY <1>1, <1>5, <1>6, <1>7, ThreadsFrame, KeptFrame DEF IInv

\* The handler gets its thread and its answer.
LEMMA HandlerStep ==
    ASSUME IInv, NEW r \in Analyses, Spawn(r) \/ Answer(r)
    PROVE  IInv'
  <1>1. /\ UNCHANGED <<queueVars, main, process, alive, told, intakeVars, bridge, request, disk, trace>>
        /\ \/ /\ chrome[r] = "asked" /\ chrome' = [chrome EXCEPT ![r] = "spawned"]
              /\ post' = [post EXCEPT ![r] = "thread"]
           \/ /\ chrome[r] = "spawned" /\ chrome' = [chrome EXCEPT ![r] = "answered"]
              /\ post' = post
    BY DEF Spawn, Answer
  <1>2. /\ chrome' \in [Analyses -> {"unasked", "asked", "spawned", "answered", "failopen"}]
        /\ post' \in [Analyses -> {"none", "thread", "open", "whole", "late", "cut",
                                   "ok", "error", "lost"}]
    BY <1>1 DEF IInv, TypeOK
  <1>3. \A q \in Analyses : post[q] \in InTransit => post'[q] = post[q]
    BY <1>1 DEF IInv, TypeOK, BrowserSide, InTransit
  <1>4. \A i \in DOMAIN backlog : backlog[i] \in Analyses /\ post[backlog[i]] \in InTransit
    BY DEF IInv, TypeOK, InTransit
  <1>5. \A i \in DOMAIN backlog : post'[backlog[i]] \in InTransit
    BY <1>3, <1>4
  <1>6. TypeOK'
    BY <1>1, <1>2, <1>5 DEF IInv, TypeOK, queueVars, intakeVars, InTransit
  <1>7. Connections'
    BY <1>1, <1>3 DEF IInv, TypeOK, Connections, intakeVars
  <1>8. BrowserSide'
    <2>1. ASSUME NEW q \in Analyses
          PROVE  /\ chrome[q] = "unasked" => chrome'[q] = "unasked"
                 /\ chrome'[q] \in {"unasked", "asked"} =>
                       chrome[q] = chrome'[q] /\ post'[q] = post[q]
      BY <1>1 DEF IInv, BrowserSide, TypeOK
    <2> QED
      BY <1>1, <2>1 DEF IInv, BrowserSide, Held
  <1> QED
    BY <1>1, <1>6, <1>7, <1>8, ThreadsFrame, KeptFrame DEF IInv

\* A thread of the bridge connects, once, or not at all.
LEMMA ConnectStep ==
    ASSUME IInv, NEW r \in Analyses, Connect(r)
    PROVE  IInv'
  <1>1. /\ UNCHANGED <<queueVars, main, process, alive, told, listening, handling, chromeVars, trace>>
        /\ post[r] = "thread"
        /\ \/ post' = [post EXCEPT ![r] = "open"] /\ backlog' = Append(backlog, r)
           \/ post' = [post EXCEPT ![r] = "lost"] /\ backlog' = backlog
    BY DEF Connect
  <1>2. \A i \in DOMAIN backlog : backlog[i] \in Analyses /\ post[backlog[i]] \in InTransit
    BY DEF IInv, TypeOK, InTransit
  <1>3. /\ \A i \in DOMAIN backlog : backlog[i] # r
        /\ handling # NoOne => handling # r
    BY <1>1, <1>2 DEF IInv, Connections, InTransit
  <1>4. /\ post' \in [Analyses -> {"none", "thread", "open", "whole", "late", "cut",
                                   "ok", "error", "lost"}]
        /\ \A q \in Analyses \ {r} : post'[q] = post[q]
    BY <1>1 DEF IInv, TypeOK
  <1>5. /\ backlog' \in Seq(Analyses)
        /\ \A i \in DOMAIN backlog : i \in DOMAIN backlog' /\ backlog'[i] = backlog[i]
        /\ \A i \in DOMAIN backlog' \ DOMAIN backlog :
              i = Len(backlog) + 1 /\ backlog'[i] = r /\ post'[r] = "open"
    <2>1. backlog \in Seq(Analyses) /\ Len(backlog) \in Nat /\ DOMAIN backlog = 1 .. Len(backlog)
      BY DEF IInv, TypeOK
    <2>2. post \in [Analyses -> {"none", "thread", "open", "whole", "late", "cut",
                                 "ok", "error", "lost"}]
      BY DEF IInv, TypeOK
    <2>3. CASE backlog' = backlog
      BY <2>1, <2>3
    <2>4. CASE post' = [post EXCEPT ![r] = "open"] /\ backlog' = Append(backlog, r)
      <3>1. /\ backlog' \in Seq(Analyses) /\ Len(backlog') = Len(backlog) + 1
            /\ DOMAIN backlog' = 1 .. Len(backlog) + 1
            /\ backlog'[Len(backlog) + 1] = r
            /\ \A i \in 1 .. Len(backlog) : backlog'[i] = backlog[i]
        BY <2>1, <2>4
      <3>2. post'[r] = "open"
        BY <2>2, <2>4
      <3> QED
        BY <2>1, <3>1, <3>2
    <2> QED
      BY <1>1, <2>3, <2>4
  <1>6. \A i \in DOMAIN backlog' : post'[backlog'[i]] \in InTransit
    BY <1>2, <1>3, <1>4, <1>5 DEF InTransit
  <1>7. TypeOK'
    BY <1>1, <1>4, <1>5, <1>6 DEF IInv, TypeOK, queueVars, chromeVars, InTransit
  <1>8. Connections'
    BY <1>1, <1>3, <1>4, <1>5 DEF IInv, TypeOK, Connections
  <1>9. BrowserSide'
    BY <1>1, <1>4 DEF IInv, BrowserSide, chromeVars, Held
  <1> QED
    BY <1>1, <1>7, <1>8, <1>9, ThreadsFrame, KeptFrame DEF IInv

\* A connection goes on, its thread gives up, or the bridge ends: what was in transit
\* still is, and nothing else gets there.
LEMMA TransitStep ==
    ASSUME IInv,
           UNCHANGED <<queueVars, main, process, alive, told, intakeVars, request, disk, trace>>,
           bridge' \in {"up", "down"},
           chrome' \in [Analyses -> {"unasked", "asked", "spawned", "answered", "failopen"}],
           \A q \in Analyses : chrome'[q] \in {"unasked", "asked"} => chrome'[q] = chrome[q],
           \A q \in Analyses : chrome[q] = "unasked" => chrome'[q] = "unasked",
           post' \in [Analyses -> {"none", "thread", "open", "whole", "late", "cut",
                                   "ok", "error", "lost"}],
           \A q \in Analyses : post[q] \in InTransit => post'[q] \in InTransit,
           \A q \in Analyses : post[q] = "none" => post'[q] = "none"
    PROVE  IInv'
  <1>1. \A i \in DOMAIN backlog : backlog[i] \in Analyses /\ post[backlog[i]] \in InTransit
    BY DEF IInv, TypeOK, InTransit
  <1>2. \A i \in DOMAIN backlog' : post'[backlog'[i]] \in InTransit
    BY <1>1 DEF intakeVars
  <1>3. TypeOK'
    BY <1>2 DEF IInv, TypeOK, queueVars, intakeVars, InTransit
  <1>4. Connections'
    BY DEF IInv, TypeOK, Connections, intakeVars
  <1>5. BrowserSide'
    BY DEF IInv, BrowserSide, Held
  <1> QED
    BY <1>3, <1>4, <1>5, ThreadsFrame, KeptFrame DEF IInv

\* SendBody and GiveUp.
LEMMA PostGoesStep ==
    ASSUME IInv, NEW r \in Analyses, SendBody(r) \/ GiveUp(r)
    PROVE  IInv'
  <1>1. /\ UNCHANGED <<queueVars, main, process, alive, told, intakeVars, chromeVars, trace>>
        /\ post[r] \in {"open", "whole"}
        /\ \E to \in {"whole", "cut", "late"} : post' = [post EXCEPT ![r] = to]
    BY DEF SendBody, GiveUp, PostGoes
  <1>2. /\ post' \in [Analyses -> {"none", "thread", "open", "whole", "late", "cut",
                                   "ok", "error", "lost"}]
        /\ post'[r] \in InTransit /\ \A q \in Analyses \ {r} : post'[q] = post[q]
    BY <1>1 DEF IInv, TypeOK, InTransit
  <1>3. /\ bridge' \in {"up", "down"} /\ chrome' = chrome /\ request' = request /\ disk' = disk
        /\ chrome \in [Analyses -> {"unasked", "asked", "spawned", "answered", "failopen"}]
    BY <1>1 DEF chromeVars, IInv, TypeOK
  <1> QED
    BY <1>1, <1>2, <1>3, TransitStep

\* The bridge's process ends.
LEMMA BridgeEndsStep ==
    ASSUME IInv, BridgeEnds
    PROVE  IInv'
  <1>1. /\ UNCHANGED <<queueVars, main, process, alive, told, intakeVars, request, disk, trace>>
        /\ bridge' = "down"
    BY DEF BridgeEnds
  <1>2. /\ chrome' \in [Analyses -> {"unasked", "asked", "spawned", "answered", "failopen"}]
        /\ \A q \in Analyses : chrome'[q] \in {"unasked", "asked"} => chrome'[q] = chrome[q]
        /\ \A q \in Analyses : chrome[q] = "unasked" => chrome'[q] = "unasked"
    BY DEF BridgeEnds, IInv, TypeOK
  <1>3. ASSUME NEW q \in Analyses
        PROVE  /\ post'[q] \in {"none", "thread", "open", "whole", "late", "cut",
                                "ok", "error", "lost"}
               /\ post[q] \in InTransit => post'[q] \in InTransit
               /\ post[q] = "none" => post'[q] = "none"
    BY DEF BridgeEnds, IInv, TypeOK, InTransit
  <1>4. post' \in [Analyses -> {"none", "thread", "open", "whole", "late", "cut",
                                "ok", "error", "lost"}]
    BY <1>3 DEF BridgeEnds
  <1> QED
    BY <1>1, <1>2, <1>3, <1>4, TransitStep

\* Every step of the system keeps the invariant.
LEMMA NextIInv == IInv /\ [Next]_vars => IInv'
  <1> SUFFICES ASSUME IInv, [Next]_vars PROVE IInv'
    OBVIOUS
  <1>1. CASE MainThread \/ Interrupt \/ InterruptAgain
    BY <1>1, StartStep, StartFailsStep, TellStep, AwaitStep, ExitStep, InterruptStep
       DEF MainThread
  <1>2. CASE (\E f \in FileEvents : WorkerSubmits(f)) \/ WorkerEnds \/ CoreStep
    BY <1>2, WorkerSubmitsStep, ThreadEndsStep, CoreStepStep
  <1>3. CASE IntakeThread
    BY <1>3, AcceptStep, ThreadEndsStep, HandleRequestStep, HandleCutStep DEF IntakeThread
  <1>4. CASE Handler \/ PostThreads \/ BridgeEnds
    BY <1>4, HandlerStep, ConnectStep, PostGoesStep, BridgeEndsStep DEF Handler, PostThreads
  <1>5. CASE \E r \in Analyses : Ask(r) \/ GiveUp(r) \/ Rewrite(r)
    BY <1>5, AskStep, PostGoesStep, RewriteStep
  <1>6. CASE UNCHANGED vars
    <2>1. UNCHANGED <<queueVars, main, process, alive, told, intakeVars, chromeVars, post, trace>>
      BY <1>6 DEF vars
    <2>2. TypeOK'
      BY <2>1 DEF IInv, TypeOK, queueVars, intakeVars, chromeVars
    <2> QED
      BY <2>1, <2>2, ThreadsFrame, KeptFrame, BrowserFrame DEF IInv, intakeVars
  <1> QED
    BY <1>1, <1>2, <1>3, <1>4, <1>5, <1>6 DEF Next

-----------------------------------------------------------------------------
(* What the intake submits *)

\* SubmittedIffTraceable for one request: its contents, what its file was since then, its
\* event, whether the POST was answered with 200.
Traceable(a, held, event, ok) ==
    /\ event # NoEvent =>
          /\ Given(event.url) /\ event.url = a.url
          /\ \/ Given(a.text) /\ event.sha256 = a.text
             \/ /\ a.text = Null /\ event.sha256 \in held \ {Unreadable}
                /\ event.fuzzy_hash = Fingerprint(event.sha256).fuzzy_hash
             \/ /\ a.text = Null /\ Unreadable \in held /\ Given(a.digest)
                /\ event.sha256 = a.digest /\ event.fuzzy_hash = Null
    /\ ok /\ a.connector \in {"FILE_ATTACHED", "FILE_DOWNLOADED", "BULK_DATA_ENTRY"}
         /\ Given(a.url)
         /\ \/ Given(a.text)
            \/ /\ a.text = Null /\ Given(a.file)
               /\ Unreadable \in held => Given(a.digest)
          => event # NoEvent

\* A file that has been more has only more to be traced to.
LEMMA TraceableGrows ==
    ASSUME NEW a, NEW held, NEW more, held \subseteq more, NEW event, NEW ok, NEW still,
           still => ok, Traceable(a, held, event, ok)
    PROVE  Traceable(a, more, event, still)
  BY DEF Traceable

\* build_json: a value that is given stays, any other becomes null.
LEMMA BuildJsonFacts ==
    ASSUME NEW a
    PROVE  LET req == BuildJson(a) IN
           /\ Given(req.url) => req.url = a.url
           /\ Given(a.url) => req.url = a.url
           /\ req.text_content # Null <=> Given(a.text)
           /\ req.text_content # Null => req.text_content = a.text
           /\ Given(req.file_path) <=> a.text = Null /\ Given(a.file)
           /\ Given(req.digest) <=> Given(a.digest)
           /\ Given(req.digest) => req.digest = a.digest
           /\ a.connector \in {"FILE_ATTACHED", "FILE_DOWNLOADED", "BULK_DATA_ENTRY"} =>
                 req.connector = a.connector
  BY ConnectorAssumption DEF BuildJson, JsonValue, JsonStr, Given

\* _fingerprint has something exactly when there is a text, a file that can be read or
\* a file that cannot but has a digest, and it is of one of these.
LEMMA FingerprintFacts ==
    ASSUME NEW a, NEW read, Given(a.file) => read # Null
    PROVE  LET fp == RequestFingerprint(BuildJson(a), read) IN
           /\ fp # NoFingerprint =>
                 \/ Given(a.text) /\ fp.sha256 = a.text
                 \/ a.text = Null /\ read # Unreadable /\ fp = Fingerprint(read)
                 \/ /\ a.text = Null /\ read = Unreadable /\ Given(a.digest)
                    /\ fp = [sha256 |-> a.digest, fuzzy_hash |-> Null]
           /\ (\/ Given(a.text)
               \/ a.text = Null /\ Given(a.file) /\ (read = Unreadable => Given(a.digest)))
                 => fp # NoFingerprint
  <1> DEFINE req == BuildJson(a)
             fp == RequestFingerprint(req, read)
  <1>1. /\ req.text_content # Null <=> Given(a.text)
        /\ req.text_content # Null => req.text_content = a.text
        /\ Given(req.file_path) <=> a.text = Null /\ Given(a.file)
        /\ Given(req.digest) <=> Given(a.digest)
        /\ Given(req.digest) => req.digest = a.digest
    BY BuildJsonFacts
  <1> HIDE DEF req
  <1>2. CASE req.text_content # Null
    <2>1. fp = Fingerprint(a.text) /\ Given(a.text)
      BY <1>1, <1>2 DEF RequestFingerprint
    <2>2. fp.sha256 = a.text /\ fp # NoFingerprint
      BY <2>1 DEF Fingerprint, NoFingerprint, Given
    <2> QED
      BY <2>1, <2>2 DEF Given, req
  <1>3. CASE req.text_content = Null /\ Given(req.file_path) /\ read # Unreadable
    <2>1. fp = Fingerprint(read) /\ Given(a.file) /\ a.text = Null
      BY <1>1, <1>3 DEF RequestFingerprint
    <2>2. fp # NoFingerprint
      BY <2>1 DEF Fingerprint, NoFingerprint
    <2> QED
      BY <1>3, <2>1, <2>2 DEF req
  <1>4. CASE /\ req.text_content = Null /\ Given(req.file_path) /\ read = Unreadable
             /\ Given(req.digest)
    <2>1. /\ fp = [sha256 |-> a.digest, fuzzy_hash |-> Null]
          /\ Given(a.digest) /\ a.text = Null
      BY <1>1, <1>4 DEF RequestFingerprint
    <2>2. fp # NoFingerprint
      BY <2>1 DEF NoFingerprint, Given
    <2> QED
      BY <1>4, <2>1, <2>2 DEF req
  <1>5. CASE /\ req.text_content = Null
             /\ ~Given(req.file_path) \/ (read = Unreadable /\ ~Given(req.digest))
    <2>1. fp = NoFingerprint
      BY <1>5 DEF RequestFingerprint
    <2>2. ~(\/ Given(a.text)
            \/ a.text = Null /\ Given(a.file) /\ (read = Unreadable => Given(a.digest)))
      BY <1>1, <1>5
    <2> QED
      BY <2>1, <2>2 DEF req
  <1> QED
    BY <1>2, <1>3, <1>4, <1>5

\* handle_request and do_POST submit what is traceable, and nothing else.
LEMMA HandleRequestFacts ==
    ASSUME NEW a, NEW held, NEW read \in held, Given(a.file) => read # Null
    PROVE  LET result == HandleRequest(BuildJson(a), read) IN
           Traceable(a, held, result.event, result.status = "ok")
  <1> DEFINE req == BuildJson(a)
             fp == RequestFingerprint(req, read)
             result == HandleRequest(req, read)
             event == [event_type |-> EventType(req.connector), sha256 |-> fp.sha256,
                       fuzzy_hash |-> fp.fuzzy_hash, url |-> req.url]
  <1>1. /\ fp # NoFingerprint =>
              \/ Given(a.text) /\ fp.sha256 = a.text
              \/ a.text = Null /\ read # Unreadable /\ fp = Fingerprint(read)
              \/ /\ a.text = Null /\ read = Unreadable /\ Given(a.digest)
                 /\ fp = [sha256 |-> a.digest, fuzzy_hash |-> Null]
        /\ (\/ Given(a.text)
            \/ a.text = Null /\ Given(a.file) /\ (Unreadable \in held => Given(a.digest)))
              => fp # NoFingerprint
    BY FingerprintFacts
  <1>2. /\ Given(req.url) => req.url = a.url
        /\ Given(a.url) => req.url = a.url
        /\ a.connector \in {"FILE_ATTACHED", "FILE_DOWNLOADED", "BULK_DATA_ENTRY"} =>
              req.connector = a.connector
    BY BuildJsonFacts
  <1>3. CASE fp = NoFingerprint \/ ~Mappable(req)
    <2>1. result.event = NoEvent
      BY <1>3 DEF HandleRequest
    <2>2. a.connector \in {"FILE_ATTACHED", "FILE_DOWNLOADED", "BULK_DATA_ENTRY"} =>
              EventType(a.connector) # Null
      BY ConnectorAssumption DEF EventType
    <2>3. a.connector \in {"FILE_ATTACHED", "FILE_DOWNLOADED", "BULK_DATA_ENTRY"}
            /\ Given(a.url) => Mappable(req)
      BY <1>2, <2>2 DEF Mappable
    <2> HIDE DEF result, fp, req
    <2> QED
      BY <1>1, <1>3, <2>1, <2>3 DEF Traceable, result, req
  <1>4. CASE fp # NoFingerprint /\ Mappable(req) /\ req.url = Malformed
    <2>1. result.event = NoEvent /\ result.status # "ok"
      BY <1>4 DEF HandleRequest
    <2> QED
      BY <2>1 DEF Traceable
  <1>5. CASE fp # NoFingerprint /\ Mappable(req) /\ req.url # Malformed
    <2>1. result.event = event
      BY <1>5 DEF HandleRequest
    <2>2. event # NoEvent
      <3>1. event.event_type # Null
        BY <1>5 DEF Mappable
      <3>2. NoEvent.event_type = Null
        BY DEF NoEvent
      <3> QED
        BY <3>1, <3>2
    <2>3. Given(event.url) /\ event.url = a.url
      BY <1>2, <1>5 DEF Mappable
    <2>4. event.sha256 = fp.sha256 /\ event.fuzzy_hash = fp.fuzzy_hash
      OBVIOUS
    <2>5. Fingerprint(read).sha256 = read
      BY DEF Fingerprint
    <2> HIDE DEF event, fp, req
    <2>6. \/ Given(a.text) /\ event.sha256 = a.text
          \/ /\ a.text = Null /\ event.sha256 \in held \ {Unreadable}
             /\ event.fuzzy_hash = Fingerprint(event.sha256).fuzzy_hash
          \/ /\ a.text = Null /\ Unreadable \in held /\ Given(a.digest)
             /\ event.sha256 = a.digest /\ event.fuzzy_hash = Null
      BY <1>1, <1>5, <2>4, <2>5
    <2> QED
      BY <2>1, <2>2, <2>3, <2>6 DEF Traceable, req
  <1> QED
    BY <1>3, <1>4, <1>5

\* Every step leaves a request, its event and its answer alone, while its file may become
\* something else; or it is its first one, or the intake's for it.
LEMMA TraceableStep ==
    ASSUME IInv, [Next]_vars, NEW q \in Analyses
    PROVE  \/ /\ request'[q] = request[q] /\ Held(q) \subseteq Held(q)' /\ trace'[q] = trace[q]
              /\ post'[q] = "ok" => post[q] = "ok"
           \/ trace'[q] = NoEvent /\ post'[q] # "ok"
           \/ Traceable(request'[q], Held(q)', trace'[q], post'[q] = "ok")
  <1> USE DEF IInv
  <1>1. /\ DOMAIN trace = Analyses /\ DOMAIN request = Analyses /\ DOMAIN disk = Analyses
        /\ post \in [Analyses -> {"none", "thread", "open", "whole", "late", "cut",
                                  "ok", "error", "lost"}]
    BY DEF BrowserSide, TypeOK
  <1>2. CASE UNCHANGED <<request, disk, post, trace>>
    BY <1>2 DEF Held
  <1>3. ASSUME NEW r \in Analyses, Ask(r)
        PROVE  \/ /\ request'[q] = request[q] /\ disk'[q] = disk[q] /\ trace'[q] = trace[q]
                  /\ post'[q] = post[q]
               \/ trace'[q] = NoEvent /\ post'[q] # "ok"
    BY <1>1, <1>3 DEF Ask, BrowserSide
  <1>4. ASSUME NEW r \in Analyses, Handle(r)
        PROVE  \/ /\ request'[q] = request[q] /\ disk'[q] = disk[q] /\ trace'[q] = trace[q]
                  /\ post'[q] = post[q]
               \/ Traceable(request'[q], Held(q)', trace'[q], post'[q] = "ok")
    <2>1. request' = request /\ disk' = disk /\ handling = r /\ post[r] \in {"whole", "late"}
      BY <1>4 DEF Handle, HandleIn, chromeVars
    <2> DEFINE read == disk[r][Len(disk[r])]
               result == HandleRequest(BuildJson(request[r]), read)
    <2>2. /\ trace' = [trace EXCEPT ![r] = result.event]
          /\ post' = [post EXCEPT ![r] = IF @ = "late" THEN "lost" ELSE result.status]
      BY <1>4 DEF Handle, HandleIn
    <2>3. disk[r] # <<>> /\ Held(r) \subseteq {request[r].file} \cup Rewrites
      BY <2>1 DEF BrowserSide
    <2>4. read \in Held(r)
      <3> DEFINE S == {a.file : a \in RequestsOf(r)} \cup Rewrites
      <3>1. disk[r] \in Seq(S)
        BY DEF TypeOK
      <3> HIDE DEF S
      <3>2. Len(disk[r]) \in DOMAIN disk[r]
        BY <2>3, <3>1
      <3> QED
        BY <3>2 DEF Held
    <2>5. Given(request[r].file) => read # Null
      BY <2>3, <2>4, HostAssumption DEF Given
    <2> HIDE DEF read
    <2>6. Traceable(request[r], Held(r), result.event, result.status = "ok")
      BY <2>4, <2>5, HandleRequestFacts
    <2> HIDE DEF result
    <2>7. CASE q # r
      BY <1>1, <2>1, <2>2, <2>7
    <2>8. CASE q = r
      <3>1. trace'[r] = result.event /\ (post'[r] = "ok" => result.status = "ok")
        BY <1>1, <2>2
      <3>2. Traceable(request[r], Held(r), trace'[r], post'[r] = "ok")
        BY <2>6, <3>1 DEF Traceable
      <3>3. Held(r)' = Held(r)
        BY <2>1 DEF Held
      <3> QED
        BY <2>1, <2>8, <3>2, <3>3
    <2> QED
      BY <2>7, <2>8
  <1>5. ASSUME NEW r \in Analyses,
               HandleCut(r) \/ Connect(r) \/ SendBody(r) \/ GiveUp(r) \/ Spawn(r)
        PROVE  UNCHANGED <<request, disk, trace>> /\ (post'[q] = "ok" => post[q] = "ok")
    BY <1>1, <1>5 DEF HandleCut, Connect, SendBody, GiveUp, PostGoes, Spawn, chromeVars
  <1>6. CASE Exit \/ BridgeEnds
    <2>1. UNCHANGED <<request, disk, trace>> /\ (post'[q] = "ok" => post[q] = "ok")
      BY <1>1, <1>6 DEF Exit, BridgeEnds, chromeVars
    <2> QED
      BY <2>1 DEF Held
  <1>7. CASE \/ Start \/ StartFails \/ Tell \/ Await \/ Interrupt \/ InterruptAgain
             \/ (\E f \in FileEvents : WorkerSubmits(f)) \/ WorkerEnds \/ CoreStep
             \/ Accept \/ ServeEnds \/ \E r \in Analyses : Answer(r)
    <2>1. UNCHANGED <<request, disk, post, trace>>
      BY <1>7 DEF Start, StartFails, Tell, Await, Interrupt, InterruptAgain, WorkerSubmits,
                  WorkerEnds, CoreStep, Accept, ServeEnds, Answer, chromeVars
    <2> QED
      BY <1>2, <2>1
  <1>8. ASSUME NEW r \in Analyses, Rewrite(r)
        PROVE  UNCHANGED <<request, post, trace>> /\ Held(q) \subseteq Held(q)'
    BY <1>8, GrowthFacts DEF Rewrite
  <1>9. CASE UNCHANGED vars
    BY <1>2, <1>9 DEF vars, chromeVars
  <1>10. ASSUME disk'[q] = disk[q] PROVE Held(q) \subseteq Held(q)'
    BY <1>10 DEF Held
  <1> QED
    BY <1>3, <1>4, <1>5, <1>6, <1>7, <1>8, <1>9, <1>10
       DEF Next, MainThread, IntakeThread, Handler, PostThreads

-----------------------------------------------------------------------------
(* The theorems *)

\* Every reachable state satisfies the invariant.
LEMMA Invariant == Spec => []IInv
  BY InitIInv, NextIInv, PTL DEF Spec

\* Every variable keeps its type; a connection that waits belongs to a POST under way.
THEOREM TypeCorrect == Spec => []TypeOK
  BY Invariant, PTL DEF IInv

\* No producer ever submits behind the core's sentinel, whenever Ctrl-C comes.
THEOREM SentinelIsLast == Spec => []NothingBehindSentinel
  <1>1. IInv => NothingBehindSentinel
    BY DEF IInv, Closed
  <1> QED
    BY <1>1, Invariant, PTL

\* A host that ended cleanly has decided everything that was submitted, and everything
\* a POST was answered for.
THEOREM CleanExitMeansDecided == Spec => []CleanExitDelivers
  <1>1. IInv => CleanExitDelivers
    <2> SUFFICES ASSUME IInv, process = "clean"
                 PROVE  waiting = <<>> /\ \A r \in Analyses : trace[r] # NoEvent => r \in decided
      BY DEF CleanExitDelivers
    <2>1. ended
      BY DEF IInv, StopsInOrder, CoreRuns
    <2>2. waiting = <<>> /\ DOMAIN waiting = {}
      BY <2>1 DEF IInv, Closed, NothingBehindSentinel
    <2> QED
      BY <2>2 DEF IInv, Kept
  <1> QED
    BY <1>1, Invariant, PTL

\* A browser event that leaves the host has a destination and a fingerprint of its text or
\* of what its file held at some moment since Chrome asked, or the digest if the file could
\* not be read; and a request that has these is never dropped under a 200.
THEOREM BrowserEventsTraceable == Spec => []SubmittedIffTraceable
  <1>1. Init => SubmittedIffTraceable
    BY DEF Init, SubmittedIffTraceable
  <1>2. ASSUME IInv, SubmittedIffTraceable, [Next]_vars
        PROVE  SubmittedIffTraceable'
    <2>1. ASSUME NEW q \in Analyses
          PROVE  Traceable(request'[q], Held(q)', trace'[q], post'[q] = "ok")
      <3>1. Traceable(request[q], Held(q), trace[q], post[q] = "ok")
        BY <1>2 DEF SubmittedIffTraceable, Traceable
      <3>2. CASE /\ request'[q] = request[q] /\ Held(q) \subseteq Held(q)' /\ trace'[q] = trace[q]
                 /\ post'[q] = "ok" => post[q] = "ok"
        <4> DEFINE more == Held(q)'
                   still == post'[q] = "ok"
        <4>1. Held(q) \subseteq more /\ (still => post[q] = "ok")
          BY <3>2
        <4> HIDE DEF more, still
        <4>2. Traceable(request[q], more, trace[q], still)
          BY <3>1, <4>1, TraceableGrows
        <4> QED
          BY <3>2, <4>2 DEF more, still
      <3>3. CASE trace'[q] = NoEvent /\ post'[q] # "ok"
        BY <3>3 DEF Traceable
      <3> QED
        BY <1>2, <3>2, <3>3, TraceableStep
    <2> QED
      BY <2>1 DEF SubmittedIffTraceable, Traceable
  <1> QED
    BY <1>1, <1>2, Invariant, PTL DEF Spec

-----------------------------------------------------------------------------
(* The contract of the core's queue *)

\* While a producer is left, and until main() tells the core to stop, the queue is open.
LEMMA OpenUntilTold ==
    ASSUME IInv, alive \cap {"worker", "intake"} # {} \/ main.at = "tell"
    PROVE  Open
  <1>1. "core" \notin told
    BY DEF IInv, StopsInOrder
  <1> QED
    BY <1>1 DEF IInv, Closed, Open

\* Every step of the host is one of the contract, or none.
LEMMA ContractStep ==
    ASSUME IInv, [Next]_vars
    PROVE  [Submission \/ Decide \/ Finish]_queueVars
  <1>1. CASE Tell
    <2>1. Open
      BY <1>1, OpenUntilTold DEF Tell
    <2> QED
      BY <1>1, <2>1 DEF Tell, CloseCore, Submission
  <1>2. ASSUME NEW f \in FileEvents, WorkerSubmits(f)
        PROVE  Submission
    <2>1. Open /\ f \in Events
      BY <1>2, OpenUntilTold DEF WorkerSubmits, FileEvents
    <2> QED
      BY <1>2, <2>1 DEF WorkerSubmits, Submission
  <1>3. ASSUME NEW r \in Analyses, Handle(r)
        PROVE  Submission \/ UNCHANGED queueVars
    <2>1. "intake" \in alive
      <3>1. handling = r /\ r # NoOne
        BY <1>3, HostAssumption DEF Handle, HandleIn
      <3> QED
        BY <3>1 DEF IInv, TypeOK
    <2>2. Open /\ r \in Events
      BY <2>1, OpenUntilTold, HostAssumption
    <2>3. Offer(r) \/ UNCHANGED queueVars
      BY <1>3 DEF Handle, HandleIn
    <2> QED
      BY <2>2, <2>3 DEF Submission
  <1>4. CASE CoreStep
    BY <1>4 DEF CoreStep
  <1>5. CASE \/ Start \/ StartFails \/ Await \/ Exit \/ Interrupt \/ InterruptAgain
             \/ WorkerEnds \/ Accept \/ ServeEnds
    BY <1>5 DEF Start, StartFails, Await, Exit, Interrupt, InterruptAgain, WorkerEnds,
                Accept, ServeEnds
  <1>6. ASSUME NEW r \in Analyses,
               \/ HandleCut(r) \/ Spawn(r) \/ Answer(r) \/ Connect(r) \/ SendBody(r)
               \/ Ask(r) \/ GiveUp(r) \/ Rewrite(r)
        PROVE  UNCHANGED queueVars
    BY <1>6 DEF HandleCut, Spawn, Answer, Connect, SendBody, PostGoes, Ask, GiveUp, Rewrite
  <1>7. CASE BridgeEnds
    BY <1>7 DEF BridgeEnds
  <1>8. CASE UNCHANGED vars
    BY <1>8 DEF vars
  <1> QED
    BY <1>1, <1>2, <1>3, <1>4, <1>5, <1>6, <1>7, <1>8
       DEF Next, MainThread, IntakeThread, Handler, PostThreads

\* The host uses the core's queue as Egress, which implements it, assumes: nothing is
\* submitted twice or behind the sentinel, and there is one sentinel.
THEOREM ContractIsKept == Spec => KeepsContract
  <1>1. Init => QueueInit
    BY DEF Init
  <1>2. IInv /\ [Next]_vars => [Submission \/ Decide \/ Finish]_queueVars
    BY ContractStep
  <1> QED
    BY <1>1, <1>2, Invariant, PTL DEF Spec, KeepsContract, QueueSpec

=============================================================================
