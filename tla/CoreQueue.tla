----------------------------- MODULE CoreQueue ------------------------------
(***************************************************************************)
(* What client/core promises to the threads that submit events: one queue, *)
(* decided front to back, until the sentinel of stop() is at the front.    *)
(* Used by module Host; Delivery adds what the server has of it.           *)
(***************************************************************************)
EXTENDS Sequences

CONSTANTS
    Events,     \* what can be submitted
    End         \* the sentinel of stop()

VARIABLES
    waiting,    \* submitted and not decided, and the sentinel, in order
    decided,    \* events that were sent and acknowledged, or given up
    ended       \* the core's thread is over

queueVars == <<waiting, decided, ended>>

QueueInit == waiting = <<>> /\ decided = {} /\ ended = FALSE

\* Accepted at any time; behind the sentinel it stays for ever.
Offer(e) ==
    /\ e \notin decided /\ \A i \in DOMAIN waiting : waiting[i] # e
    /\ waiting' = Append(waiting, e)
    /\ UNCHANGED <<decided, ended>>

Close ==
    /\ waiting' = Append(waiting, End)
    /\ UNCHANGED <<decided, ended>>

Decide ==
    /\ ~ended /\ waiting # <<>> /\ Head(waiting) # End
    /\ waiting' = Tail(waiting)
    /\ decided' = decided \cup {Head(waiting)}
    /\ UNCHANGED ended

Finish ==
    /\ ~ended /\ waiting # <<>> /\ Head(waiting) = End
    /\ waiting' = Tail(waiting)
    /\ ended' = TRUE
    /\ UNCHANGED decided

\* The other side's part: once, behind everything it has submitted, somebody closes.
Open == ~ended /\ \A i \in DOMAIN waiting : waiting[i] # End

Submission == Open /\ (Close \/ \E e \in Events : Offer(e))

QueueSpec == QueueInit /\ [][Submission \/ Decide \/ Finish]_queueVars

=============================================================================
