----------------------------- MODULE LatestSlot -----------------------------
(***************************************************************************)
(* What the agent's debouncer promises to the rest of the agent, without   *)
(* locks, timers or threads: every path has one slot that holds the newest *)
(* value put there.  A value is taken out of its slot at most once, spends *)
(* some time in the hands of whoever took it, and is then handed over.     *)
(* Values taken from different slots may be handed over in any order.      *)
(* Clearing forgets the slots, never what was already taken.               *)
(***************************************************************************)
EXTENDS Naturals, Sequences

CONSTANTS
    Paths,   \* the watched paths
    Values,  \* what can be put in a slot
    None     \* the empty slot

VARIABLES
    slot,    \* [Paths -> Values \cup {None}]: the newest value put, or None
    held,    \* SUBSET Values: taken and not handed over yet
    out      \* Seq(Values): handed over, in order

slotVars == <<slot, held, out>>

Init ==
    /\ slot = [p \in Paths |-> None]
    /\ held = {}
    /\ out = <<>>

\* A newer value replaces the one that was waiting.
Put(p, v) ==
    /\ slot' = [slot EXCEPT ![p] = v]
    /\ UNCHANGED <<held, out>>

Take(p) ==
    /\ slot[p] # None
    /\ held' = held \cup {slot[p]}
    /\ slot' = [slot EXCEPT ![p] = None]
    /\ UNCHANGED out

HandOver(v) ==
    /\ v \in held
    /\ held' = held \ {v}
    /\ out' = Append(out, v)
    /\ UNCHANGED slot

Clear ==
    /\ slot' = [p \in Paths |-> None]
    /\ UNCHANGED <<held, out>>

Next ==
    \/ \E p \in Paths, v \in Values : Put(p, v)
    \/ \E p \in Paths : Take(p)
    \/ \E v \in Values : HandOver(v)
    \/ Clear

SafetySpec == Init /\ [][Next]_slotVars

\* A waiting value is not left in its slot for ever, nor in the taker's hands.
Spec ==
    /\ SafetySpec
    /\ \A p \in Paths : WF_slotVars(Take(p))
    /\ \A v \in Values : WF_slotVars(HandOver(v))

=============================================================================
