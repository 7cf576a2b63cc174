----------------------------- MODULE Debouncer ------------------------------
(***************************************************************************)
(* client/agent/debouncer.py: one timer thread per call of schedule(), two *)
(* dictionaries under one lock.                                            *)
(*                                                                         *)
(* The k-th call of schedule() creates the k-th Pending and the k-th Timer,*)
(* so one number k names both.  None (0) stands for an absent dictionary   *)
(* key.  Each critical section is one action; what a timer thread does     *)
(* outside the lock (noticing that its interval is over, calling on_fire)  *)
(* is an action of its own, so that cancel() can come too late, as         *)
(* threading.Timer allows: run() tests its flag once and cancel() only     *)
(* sets that flag.                                                         *)
(***************************************************************************)
EXTENDS Naturals, Sequences

CONSTANTS
    Paths,
    MaxSchedules     \* bound: calls of schedule() in a behaviour

ASSUME MaxSchedulesAssumption == MaxSchedules \in Nat

None == 0
Ids == 1 .. MaxSchedules

VARIABLES
    scheduled,   \* calls of schedule() so far
    pathOf,      \* pathOf[k]: the path the k-th timer's closure was made for
    timers,      \* _timers
    pending,     \* _pending
    phase,       \* phase[k]: where the k-th timer's thread is
    taken,       \* taken[k]: the local variable `pending` of its _fire
    out,         \* the calls of on_fire, in order (Pending numbers)
    stopped      \* cancel_all() was called; Watcher.stop joins the observer first

vars == <<scheduled, pathOf, timers, pending, phase, taken, out, stopped>>

\* unborn -> armed -> elapsed -> firing -> done, or armed -> cancelled
Phases == {"unborn", "armed", "elapsed", "firing", "done", "cancelled"}

TypeOK ==
    /\ scheduled \in 0 .. MaxSchedules
    /\ pathOf \in [Ids -> Paths \cup {None}]
    /\ timers \in [Paths -> Ids \cup {None}]
    /\ pending \in [Paths -> Ids \cup {None}]
    /\ phase \in [Ids -> Phases]
    /\ taken \in [Ids -> Ids \cup {None}]
    /\ out \in Seq(Ids)
    /\ stopped \in BOOLEAN

Init ==
    /\ scheduled = 0
    /\ pathOf = [k \in Ids |-> None]
    /\ timers = [p \in Paths |-> None]
    /\ pending = [p \in Paths |-> None]
    /\ phase = [k \in Ids |-> "unborn"]
    /\ taken = [k \in Ids |-> None]
    /\ out = <<>>
    /\ stopped = FALSE

\* Timer.cancel(): only a thread still waiting for its interval obeys.
AfterCancel(ks) ==
    [k \in Ids |-> IF k \in ks /\ phase[k] = "armed" THEN "cancelled" ELSE phase[k]]

\* schedule(path, pending), with the effect of cancelling on the threads.
ScheduleWith(p, cancelled) ==
    LET k == scheduled + 1 IN
    /\ ~stopped
    /\ scheduled < MaxSchedules
    /\ scheduled' = k
    /\ pathOf' = [pathOf EXCEPT ![k] = p]
    /\ pending' = [pending EXCEPT ![p] = k]
    /\ timers' = [timers EXCEPT ![p] = k]
    /\ phase' = cancelled
    /\ UNCHANGED <<taken, out, stopped>>

\* Mutant of schedule(): the timer is registered before the old one is looked up.
ScheduleCancelsItself(p) ==
    ScheduleWith(p, [phase EXCEPT ![scheduled + 1] = "cancelled"])

\* schedule(path, pending), called by the observer thread.
Schedule(p) ==
    ScheduleWith(p, [AfterCancel({timers[p]}) EXCEPT ![scheduled + 1] = "armed"])

\* Timer.run(): the wait timed out and the flag was not set.
Elapse(k) ==
    /\ phase[k] = "armed"
    /\ phase' = [phase EXCEPT ![k] = "elapsed"]
    /\ UNCHANGED <<scheduled, pathOf, timers, pending, taken, out, stopped>>

\* _fire(path), with what it takes, what stays pending and whether on_fire follows.
FireWith(k, got, left, calls) ==
    LET p == pathOf[k] IN
    /\ phase[k] = "elapsed"
    /\ taken' = [taken EXCEPT ![k] = got]
    /\ phase' = [phase EXCEPT ![k] = IF calls THEN "firing" ELSE "done"]
    /\ pending' = [pending EXCEPT ![p] = left]
    /\ timers' = [timers EXCEPT ![p] = None]
    /\ UNCHANGED <<scheduled, pathOf, out, stopped>>

Kept(k) == pending[pathOf[k]]

\* Mutants of _fire: the Pending is read, not popped; a timer that lost its
\* registration pops but does not call on_fire; None is not checked for.
FireKeepsPending(k) == FireWith(k, Kept(k), Kept(k), Kept(k) # None)
FireOnlyIfRegistered(k) == FireWith(k, Kept(k), None, timers[pathOf[k]] = k)
FireUnchecked(k) == FireWith(k, Kept(k), None, TRUE)

\* _fire(path), the part under the lock: both keys go, whoever owns them.
Fire(k) == FireWith(k, Kept(k), None, Kept(k) # None)

\* _fire(path), after the lock: on_fire(path, pending).
OnFire(k) ==
    /\ phase[k] = "firing"
    /\ out' = Append(out, taken[k])
    /\ phase' = [phase EXCEPT ![k] = "done"]
    /\ UNCHANGED <<scheduled, pathOf, timers, pending, taken, stopped>>

CancelAllKeeping(left) ==
    /\ ~stopped
    /\ stopped' = TRUE
    /\ phase' = AfterCancel({timers[p] : p \in Paths})
    /\ timers' = [p \in Paths |-> None]
    /\ pending' = left
    /\ UNCHANGED <<scheduled, pathOf, taken, out>>

\* Mutant of cancel_all(): _pending is not cleared.
CancelTimersOnly == CancelAllKeeping(pending)

\* cancel_all(), called once, by Watcher.stop after the observer was joined.
CancelAll == CancelAllKeeping([p \in Paths |-> None])

Next ==
    \/ \E p \in Paths : Schedule(p)
    \/ \E k \in Ids : Elapse(k) \/ Fire(k) \/ OnFire(k)
    \/ CancelAll

SafetySpec == Init /\ [][Next]_vars

\* Timer threads are scheduled by the operating system, the lock is held for a
\* few dictionary operations.  Nobody has to call schedule() or cancel_all().
Spec ==
    /\ SafetySpec
    /\ \A k \in Ids : WF_vars(Elapse(k)) /\ WF_vars(Fire(k)) /\ WF_vars(OnFire(k))

-----------------------------------------------------------------------------
(* Properties *)

\* The Pending that is kept for a path is the newest one, and the timer that was
\* started for it is the registered one and will still run: no race between
\* schedule(), _fire() and cancel_all() leaves a Pending that nothing will fire.
NoLostPending ==
    \A p \in Paths : pending[p] # None =>
        /\ timers[p] = pending[p]
        /\ pathOf[pending[p]] = p
        /\ phase[pending[p]] \in {"armed", "elapsed"}
        /\ \A k \in 1 .. scheduled : pathOf[k] = p => k <= pending[p]

\* The same event is never handed to on_fire twice, although a timer may fire for
\* a Pending that is not its own and that Pending's own timer fires later.
FiredOnce ==
    /\ \A i, j \in DOMAIN out : out[i] = out[j] => i = j
    /\ \A k, l \in Ids : phase[k] = "firing" /\ phase[l] = "firing" /\ taken[k] = taken[l]
                            => k = l

\* Once cancel_all() has returned, no _fire() picks up a Pending any more, not even
\* from a timer that cancel_all() could not cancel because it was no longer
\* registered or had elapsed.
NothingTakenAfterCancel ==
    [][stopped => \A k \in Ids : phase'[k] = "firing" => phase[k] = "firing"]_vars

\* Every event is handed to on_fire, or a newer event of its path replaced it, or
\* cancel_all() dropped it.
EveryPendingResolved ==
    \A k \in Ids : phase[k] = "armed" ~>
        \/ \E i \in DOMAIN out : out[i] = k
        \/ \E l \in Ids : l > k /\ pathOf[l] = pathOf[k]
        \/ stopped

\* The module docstring: on_fire is called once the path has been quiet for
\* `seconds`, that is, the interval of the timer started by the newest schedule()
\* of the path is over when its Pending is taken.
FiresOnlyAfterQuiet ==
    \A k \in Ids : phase[k] = "firing" => phase[taken[k]] # "armed"

\* The debouncer seen as slots: pending is the slots' content, a Pending is in
\* a taker's hands from _fire's critical section to the call of on_fire.
InHands == {taken[k] : k \in {j \in Ids : phase[j] = "firing"}}

Slots == INSTANCE LatestSlot WITH Values <- Ids, slot <- pending, held <- InHands

\* The debouncer implements one latest-value slot per path, progress included.
ImplementsSlots == Slots!Spec
ImplementsSlotsSafely == Slots!SafetySpec

=============================================================================
