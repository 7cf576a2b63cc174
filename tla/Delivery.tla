------------------------------ MODULE Delivery ------------------------------
(***************************************************************************)
(* The core's queue with the server at its other end: what an              *)
(* acknowledgement means, in which order events arrive first, and how many *)
(* rows of one there can be.  Implemented by module Egress.                *)
(***************************************************************************)
EXTENDS CoreQueue, Naturals, FiniteSets

CONSTANT Copies    \* rows an event may leave

VARIABLES
    record,    \* the server's rows, in order
    acked      \* events whose sending was acknowledged

deliveryVars == <<queueVars, record, acked>>

DeliveryInit == QueueInit /\ record = <<>> /\ acked = {}

Rows(e) == {i \in DOMAIN record : record[i] = e}

\* The event at the front, and what is still under way of earlier ones.
Sent == decided \cup {e \in Events : waiting # <<>> /\ ~ended /\ e = Head(waiting)}

\* It may reach the server, once more too.
Arrive(e) ==
    /\ Cardinality(Rows(e)) < Copies
    /\ record' = Append(record, e)
    /\ UNCHANGED <<queueVars, acked>>

\* An event that has arrived may be acknowledged, any event may be given up.
Acknowledge ==
    /\ Decide /\ Rows(Head(waiting)) # {}
    /\ acked' = acked \cup {Head(waiting)}
    /\ UNCHANGED record

GiveUp == Decide /\ UNCHANGED <<record, acked>>

Enqueue == Submission /\ UNCHANGED <<record, acked>>

Progress == Acknowledge \/ GiveUp \/ (Finish /\ UNCHANGED <<record, acked>>)

DeliveryNext == Enqueue \/ Progress \/ \E e \in Sent : Arrive(e)

SafetySpec == DeliveryInit /\ [][DeliveryNext]_deliveryVars

DeliverySpec == SafetySpec /\ WF_deliveryVars(Progress)

=============================================================================
