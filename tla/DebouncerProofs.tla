-------------------------- MODULE DebouncerProofs ---------------------------
(***************************************************************************)
(* What the debouncer guarantees for every set of paths and every number   *)
(* of schedule() calls.                                                    *)
(*                                                                         *)
(* The argument: _timers and _pending always have the same keys and, by    *)
(* the numbering of Debouncer, the same values (Registered), although      *)
(* _fire() pops both without asking whose they are.  So the timer that     *)
(* schedule() cancels is never the one of another path's Pending, and a    *)
(* kept Pending has its own timer running.  A Pending leaves _pending when *)
(* it is taken and numbers are never reused (Numbered), hence one on_fire. *)
(***************************************************************************)
EXTENDS Debouncer, TLAPS

\* The numbers in use are 1 .. scheduled and each belongs to a path.
Numbered ==
    /\ \A k \in Ids : phase[k] = "unborn" <=> k > scheduled
    /\ \A k \in Ids : k <= scheduled => pathOf[k] \in Paths
    /\ \A p \in Paths : pending[p] <= scheduled
    /\ \A k \in Ids : phase[k] = "firing" => taken[k] \in 1 .. scheduled

\* The registered timer is the one of the kept Pending; nothing is kept after
\* cancel_all().
Registered ==
    /\ timers = pending
    /\ stopped => \A p \in Paths : pending[p] = None

\* What is in a taker's hands was popped, and what was handed over is in no
\* taker's hands.
Popped ==
    /\ \A k \in Ids : phase[k] = "firing" => \A p \in Paths : pending[p] # taken[k]
    /\ \A i \in DOMAIN out :
          /\ out[i] \in 1 .. scheduled
          /\ \A p \in Paths : pending[p] # out[i]
          /\ \A k \in Ids : phase[k] = "firing" => taken[k] # out[i]

IInv == TypeOK /\ Numbered /\ Registered /\ NoLostPending

FInv == Popped /\ FiredOnce

-----------------------------------------------------------------------------
\* Calling on_fire extends the history by one element and keeps the others.
LEMMA AppendFacts ==
    ASSUME NEW S, NEW s \in Seq(S), NEW e \in S
    PROVE  /\ Append(s, e) \in Seq(S)
           /\ DOMAIN s = 1 .. Len(s)
           /\ DOMAIN Append(s, e) = 1 .. (Len(s) + 1)
           /\ Append(s, e)[Len(s) + 1] = e
           /\ \A i \in 1 .. Len(s) : Append(s, e)[i] = s[i]
           /\ Len(s) \in Nat
  OBVIOUS

\* Cancelling touches waiting threads only.
LEMMA AfterCancelFacts ==
    ASSUME TypeOK, NEW ks
    PROVE  /\ AfterCancel(ks) \in [Ids -> Phases]
           /\ \A k \in Ids : AfterCancel(ks)[k] # phase[k] =>
                 k \in ks /\ phase[k] = "armed" /\ AfterCancel(ks)[k] = "cancelled"
  BY DEF TypeOK, AfterCancel, Phases

-----------------------------------------------------------------------------
\* The debouncer starts in a state of the invariant.
LEMMA InitIInv == Init => IInv
  <1> SUFFICES ASSUME Init PROVE IInv
    OBVIOUS
  <1>1. TypeOK
    <2>1. out \in Seq(Ids)
      BY DEF Init
    <2>2. scheduled \in 0 .. MaxSchedules
      BY MaxSchedulesAssumption DEF Init
    <2>3. /\ pathOf \in [Ids -> Paths \cup {None}]
          /\ timers \in [Paths -> Ids \cup {None}]
          /\ pending \in [Paths -> Ids \cup {None}]
          /\ taken \in [Ids -> Ids \cup {None}]
      BY DEF Init
    <2>4. phase \in [Ids -> Phases] /\ stopped \in BOOLEAN
      BY DEF Init, Phases
    <2> QED
      BY <2>1, <2>2, <2>3, <2>4 DEF TypeOK
  <1>2. Numbered
    BY MaxSchedulesAssumption DEF Init, Numbered, Ids, None
  <1> QED
    BY <1>1, <1>2 DEF Init, IInv, Registered, NoLostPending

\* schedule(): the new Pending is the newest and has the new timer; the cancelled
\* timer belonged to the same path.
LEMMA ScheduleStep ==
    ASSUME IInv, NEW p \in Paths, Schedule(p)
    PROVE  IInv'
  <1> DEFINE n == scheduled + 1
  <1> USE DEF IInv
  <1>1. n \in Ids /\ scheduled' = n /\ n # None /\ n > scheduled
    BY MaxSchedulesAssumption DEF Schedule, ScheduleWith, TypeOK, Ids, None
  <1>2. /\ AfterCancel({timers[p]}) \in [Ids -> Phases]
        /\ \A k \in Ids : AfterCancel({timers[p]})[k] # phase[k] =>
              /\ k = timers[p]
              /\ phase[k] = "armed"
              /\ AfterCancel({timers[p]})[k] = "cancelled"
    BY AfterCancelFacts
  <1>3. phase' \in [Ids -> Phases] /\ phase'[n] = "armed"
    BY <1>1, <1>2 DEF Schedule, ScheduleWith, Phases
  <1>4. \A k \in Ids \ {n} : phase'[k] # phase[k] =>
              k = timers[p] /\ phase[k] = "armed" /\ phase'[k] = "cancelled"
    BY <1>1, <1>2 DEF Schedule, ScheduleWith
  <1>5. TypeOK'
    <2>1. scheduled' \in 0 .. MaxSchedules
      BY <1>1, MaxSchedulesAssumption DEF Ids
    <2> QED
      BY <1>1, <1>3, <2>1 DEF Schedule, ScheduleWith, TypeOK
  <1>6. pathOf'[n] = p /\ \A k \in Ids \ {n} : pathOf'[k] = pathOf[k]
    BY <1>1 DEF Schedule, ScheduleWith, TypeOK
  <1>7. Numbered'
    <2>1. \A k \in Ids : (phase'[k] = "unborn") <=> k > scheduled'
      BY <1>1, <1>3, <1>4 DEF Numbered, TypeOK, Ids
    <2>2. \A k \in Ids : k <= scheduled' => pathOf'[k] \in Paths
      BY <1>1, <1>6 DEF Numbered, TypeOK, Ids
    <2>3. \A q \in Paths : pending'[q] <= scheduled'
      BY <1>1 DEF Numbered, TypeOK, Ids, None, Schedule, ScheduleWith
    <2>4. \A k \in Ids : phase'[k] = "firing" => taken'[k] \in 1 .. scheduled'
      <3> SUFFICES ASSUME NEW k \in Ids, phase'[k] = "firing"
                   PROVE  taken[k] \in 1 .. n
        BY <1>1 DEF Schedule, ScheduleWith
      <3>1. phase[k] = "firing"
        BY <1>3, <1>4
      <3> QED
        BY <3>1, <1>1 DEF Numbered, TypeOK
    <2> QED
      BY <2>1, <2>2, <2>3, <2>4 DEF Numbered
  <1>8. Registered'
    BY DEF Registered, Schedule, ScheduleWith
  <1>9. NoLostPending'
    <2> SUFFICES ASSUME NEW q \in Paths, pending'[q] # None
                 PROVE  /\ timers'[q] = pending'[q]
                        /\ pathOf'[pending'[q]] = q
                        /\ phase'[pending'[q]] \in {"armed", "elapsed"}
                        /\ \A k \in 1 .. scheduled' : pathOf'[k] = q => k <= pending'[q]
      BY DEF NoLostPending
    <2>1. CASE q = p
      BY <2>1, <1>1, <1>3, <1>6 DEF Schedule, ScheduleWith, TypeOK
    <2>2. CASE q # p
      <3>1. pending'[q] = pending[q] /\ timers'[q] = timers[q] /\ pending[q] # n
        BY <2>2, <1>1 DEF Schedule, ScheduleWith, TypeOK, Numbered, Ids, None
      <3>2. pathOf[pending[q]] = q /\ pending[q] \in Ids
        BY <3>1 DEF NoLostPending, TypeOK
      <3>3. pending[q] # timers[p]
        BY <2>2, <3>1, <3>2 DEF Registered, NoLostPending
      <3>4. phase'[pending[q]] \in {"armed", "elapsed"}
        BY <3>1, <3>2, <3>3, <1>4 DEF NoLostPending
      <3>5. \A k \in 1 .. scheduled' : pathOf'[k] = q => k <= pending[q]
        <4> SUFFICES ASSUME NEW k \in 1 .. n, pathOf'[k] = q PROVE k <= pending[q]
          BY <1>1
        <4>1. k # n
          BY <1>6, <2>2
        <4>2. k \in 1 .. scheduled /\ k \in Ids
          BY <4>1, <1>1, MaxSchedulesAssumption DEF TypeOK, Ids
        <4>3. pathOf[k] = q
          BY <4>1, <4>2, <1>6
        <4> QED
          BY <4>2, <4>3, <3>1 DEF NoLostPending
      <3> QED
        BY <3>1, <3>2, <3>4, <3>5, <1>6 DEF NoLostPending
    <2> QED
      BY <2>1, <2>2
  <1> QED
    BY <1>5, <1>7, <1>8, <1>9

\* A timer thread that notices the end of its interval.
LEMMA ElapseStep ==
    ASSUME IInv, NEW k \in Ids, Elapse(k)
    PROVE  IInv'
  BY DEF IInv, Elapse, TypeOK, Phases, Numbered, Registered, NoLostPending

\* _fire(): the path loses its Pending and the registration of that Pending's timer.
LEMMA FireStep ==
    ASSUME IInv, NEW k \in Ids, Fire(k)
    PROVE  IInv'
  <1> DEFINE p == pathOf[k]
  <1> USE DEF IInv
  <1>1. p \in Paths /\ phase[k] = "elapsed"
    BY DEF Fire, FireWith, Kept, Numbered, TypeOK, Ids
  <1>2. TypeOK'
    BY <1>1 DEF Fire, FireWith, Kept, TypeOK, Phases
  <1>3. /\ pending'[p] = None /\ timers'[p] = None
        /\ \A q \in Paths \ {p} : pending'[q] = pending[q] /\ timers'[q] = timers[q]
    BY <1>1 DEF Fire, FireWith, Kept, TypeOK
  <1>4. /\ phase'[k] = IF pending[p] = None THEN "done" ELSE "firing"
        /\ taken'[k] = pending[p]
        /\ \A j \in Ids \ {k} : phase'[j] = phase[j] /\ taken'[j] = taken[j]
    BY <1>1 DEF Fire, FireWith, Kept, TypeOK
  <1>5. Numbered'
    BY <1>1, <1>3, <1>4 DEF Numbered, TypeOK, Ids, None, Fire, FireWith, Kept
  <1>6. Registered'
    BY DEF Registered, Fire, FireWith, Kept
  <1>7. NoLostPending'
    BY <1>1, <1>3, <1>4 DEF NoLostPending, TypeOK, Fire, FireWith, Kept
  <1> QED
    BY <1>2, <1>5, <1>6, <1>7

\* The call of on_fire.
LEMMA OnFireStep ==
    ASSUME IInv, NEW k \in Ids, OnFire(k)
    PROVE  IInv'
  <1> USE DEF IInv
  <1>1. taken[k] \in Ids
    BY MaxSchedulesAssumption DEF OnFire, Numbered, TypeOK, Ids
  <1>2. out' \in Seq(Ids)
    BY <1>1, AppendFacts DEF OnFire, TypeOK
  <1>3. TypeOK'
    BY <1>2 DEF OnFire, TypeOK, Phases
  <1> QED
    BY <1>3 DEF OnFire, TypeOK, Numbered, Registered, NoLostPending

\* cancel_all(): nothing is kept.
LEMMA CancelAllStep ==
    ASSUME IInv, CancelAll
    PROVE  IInv'
  <1> USE DEF IInv
  <1> DEFINE ks == {timers[p] : p \in Paths}
  <1>1. /\ phase' \in [Ids -> Phases]
        /\ \A k \in Ids : phase'[k] # phase[k] =>
              phase[k] = "armed" /\ phase'[k] = "cancelled"
    BY AfterCancelFacts DEF CancelAll, CancelAllKeeping
  <1>2. TypeOK'
    BY <1>1 DEF CancelAll, CancelAllKeeping, TypeOK
  <1>3. Numbered'
    BY <1>1 DEF CancelAll, CancelAllKeeping, Numbered, TypeOK, None
  <1> QED
    BY <1>2, <1>3 DEF CancelAll, CancelAllKeeping, Registered, NoLostPending

\* The inductive step.
LEMMA StepIInv == IInv /\ [Next]_vars => IInv'
  <1> SUFFICES ASSUME IInv, [Next]_vars PROVE IInv'
    OBVIOUS
  <1>1. CASE Next
    BY <1>1, ScheduleStep, ElapseStep, FireStep, OnFireStep, CancelAllStep DEF Next
  <1>2. CASE UNCHANGED vars
    BY <1>2 DEF vars, IInv, TypeOK, Numbered, Registered, NoLostPending
  <1> QED
    BY <1>1, <1>2

LEMMA Inductive == SafetySpec => []IInv
  BY InitIInv, StepIInv, PTL DEF SafetySpec

\* Every variable of the debouncer keeps its type.
THEOREM TypeCorrect == SafetySpec => []TypeOK
  <1>1. IInv => TypeOK
    BY DEF IInv
  <1> QED
    BY <1>1, Inductive, PTL

\* A kept Pending is the newest of its path, its own timer is the registered one
\* and will still run, in every interleaving of the observer and the timer threads.
THEOREM PendingHasItsTimer == SafetySpec => []NoLostPending
  <1>1. IInv => NoLostPending
    BY DEF IInv
  <1> QED
    BY <1>1, Inductive, PTL

\* After cancel_all() no timer thread takes a Pending.
THEOREM CancelIsFinal == SafetySpec => NothingTakenAfterCancel
  <1>1. ASSUME IInv, [Next]_vars
        PROVE  [stopped => \A k \in Ids : phase'[k] = "firing" => phase[k] = "firing"]_vars
    <2> SUFFICES ASSUME stopped, NEW j \in Ids, phase'[j] = "firing", Next
                 PROVE  phase[j] = "firing"
      BY <1>1
    <2>1. CASE \E p \in Paths : Schedule(p)
      BY <2>1 DEF Schedule, ScheduleWith
    <2>2. CASE \E k \in Ids : Elapse(k)
      BY <1>1, <2>2 DEF Elapse, IInv, TypeOK
    <2>3. CASE \E k \in Ids : Fire(k)
      <3> PICK k \in Ids : Fire(k)
        BY <2>3
      <3>1. pathOf[k] \in Paths
        BY <1>1 DEF IInv, Fire, FireWith, Kept, Numbered, TypeOK, Ids
      <3>2. pending[pathOf[k]] = None
        BY <1>1, <3>1 DEF IInv, Registered
      <3> QED
        BY <1>1, <3>2 DEF Fire, FireWith, Kept, IInv, TypeOK
    <2>4. CASE \E k \in Ids : OnFire(k)
      BY <1>1, <2>4 DEF OnFire, IInv, TypeOK
    <2>5. CASE CancelAll
      BY <2>5 DEF CancelAll, CancelAllKeeping
    <2> QED
      BY <2>1, <2>2, <2>3, <2>4, <2>5 DEF Next
  <1> QED
    BY <1>1, Inductive, PTL DEF SafetySpec, NothingTakenAfterCancel

-----------------------------------------------------------------------------
\* Which threads are between _fire's critical section and on_fire changes only by
\* Fire and OnFire.
LEMMA FiringFacts ==
    ASSUME IInv, Next, ~ \E k \in Ids : Fire(k) \/ OnFire(k)
    PROVE  /\ \A k \in Ids : phase'[k] = "firing" <=> phase[k] = "firing"
           /\ UNCHANGED <<taken, out>>
  <1> USE DEF IInv
  <1>1. CASE \E p \in Paths : Schedule(p)
    <2> PICK p \in Paths : Schedule(p)
      BY <1>1
    <2>1. \A k \in Ids : k # scheduled + 1 => phase'[k] = AfterCancel({timers[p]})[k]
      BY AfterCancelFacts DEF Schedule, ScheduleWith
    <2>2. scheduled + 1 \in Ids
      BY MaxSchedulesAssumption DEF Schedule, ScheduleWith, TypeOK, Ids
    <2>3. phase'[scheduled + 1] = "armed" /\ phase[scheduled + 1] = "unborn"
      <3>1. AfterCancel({timers[p]}) \in [Ids -> Phases]
        BY AfterCancelFacts
      <3>2. phase'[scheduled + 1] = "armed"
        BY <2>2, <3>1 DEF Schedule, ScheduleWith
      <3>3. phase[scheduled + 1] = "unborn"
        BY <2>2 DEF Numbered, TypeOK
      <3> QED
        BY <3>2, <3>3
    <2> QED
      BY <2>1, <2>3, AfterCancelFacts DEF Schedule, ScheduleWith
  <1>2. CASE \E k \in Ids : Elapse(k)
    BY <1>2 DEF Elapse, TypeOK
  <1>3. CASE CancelAll
    BY <1>3, AfterCancelFacts DEF CancelAll, CancelAllKeeping
  <1> QED
    BY <1>1, <1>2, <1>3 DEF Next

\* _fire(): no other path and no other thread has the Pending it takes.
LEMMA FirePops ==
    ASSUME IInv, FInv, NEW k \in Ids, Fire(k)
    PROVE  FInv'
  <1> DEFINE p == pathOf[k]
  <1> USE DEF IInv, FInv
  <1>1. p \in Paths
    BY DEF Fire, FireWith, Kept, Numbered, TypeOK, Ids
  <1>2. /\ pending'[p] = None
        /\ \A q \in Paths \ {p} : pending'[q] = pending[q]
    BY <1>1 DEF Fire, FireWith, Kept, TypeOK
  <1>3. /\ phase'[k] = "firing" => taken'[k] = pending[p] /\ pending[p] # None
        /\ \A j \in Ids \ {k} : phase'[j] = phase[j] /\ taken'[j] = taken[j]
    BY <1>1 DEF Fire, FireWith, Kept, TypeOK, Phases
  <1>4. \A q \in Paths \ {p} : pending[p] # None => pending[q] # pending[p]
    BY <1>1 DEF NoLostPending
  <1>5. None \notin 1 .. scheduled
    BY DEF None
  <1>6. out' = out /\ scheduled' = scheduled
    BY DEF Fire, FireWith, Kept
  <1>7. Popped'
    <2>1. \A j \in Ids : phase'[j] = "firing" => \A q \in Paths : pending'[q] # taken'[j]
      BY <1>2, <1>3, <1>4, <1>5 DEF Popped, Numbered
    <2>2. \A i \in DOMAIN out : \A q \in Paths : pending'[q] # out[i]
      BY <1>2, <1>5 DEF Popped
    <2>3. \A i \in DOMAIN out : \A j \in Ids : phase'[j] = "firing" => taken'[j] # out[i]
      BY <1>1, <1>3 DEF Popped
    <2> QED
      BY <1>6, <2>1, <2>2, <2>3 DEF Popped
  <1>8. FiredOnce'
    BY <1>1, <1>3, <1>6 DEF FiredOnce, Popped
  <1> QED
    BY <1>7, <1>8

\* on_fire: what is handed over leaves the taker's hands.
LEMMA OnFireHandsOver ==
    ASSUME IInv, FInv, NEW k \in Ids, OnFire(k)
    PROVE  FInv'
  <1> USE DEF IInv, FInv
  <1> DEFINE n == Len(out) + 1
  <1>1. taken[k] \in 1 .. scheduled /\ taken[k] \in Ids
    BY MaxSchedulesAssumption DEF OnFire, Numbered, TypeOK, Ids
  <1>2. /\ DOMAIN out = 1 .. Len(out)
        /\ DOMAIN out' = 1 .. n
        /\ out'[n] = taken[k]
        /\ \A i \in 1 .. Len(out) : out'[i] = out[i]
        /\ Len(out) \in Nat
    BY <1>1, AppendFacts DEF OnFire, TypeOK
  <1>3. \A i \in DOMAIN out' : i = n \/ i \in DOMAIN out
    BY <1>2
  <1>4. /\ \A j \in Ids : phase'[j] = "firing" => phase[j] = "firing" /\ j # k
        /\ UNCHANGED <<pending, taken, scheduled>>
    BY DEF OnFire, TypeOK
  <1>5. Popped'
    <2>1. \A i \in DOMAIN out' : out'[i] \in 1 .. scheduled
      BY <1>1, <1>2, <1>3 DEF Popped
    <2>2. \A i \in DOMAIN out' : \A p \in Paths : pending[p] # out'[i]
      BY <1>2, <1>3 DEF Popped, OnFire
    <2>3. \A i \in DOMAIN out' : \A j \in Ids : phase'[j] = "firing" => taken[j] # out'[i]
      BY <1>2, <1>3, <1>4 DEF Popped, FiredOnce, OnFire
    <2> QED
      BY <1>4, <2>1, <2>2, <2>3 DEF Popped
  <1>6. FiredOnce'
    BY <1>2, <1>3, <1>4 DEF FiredOnce, Popped, OnFire
  <1> QED
    BY <1>5, <1>6

LEMMA StepFInv == IInv /\ FInv /\ [Next]_vars => FInv'
  <1> SUFFICES ASSUME IInv, FInv, [Next]_vars PROVE FInv'
    OBVIOUS
  <1>1. CASE \E k \in Ids : Fire(k) \/ OnFire(k)
    BY <1>1, FirePops, OnFireHandsOver
  <1>2. CASE Next /\ ~ \E k \in Ids : Fire(k) \/ OnFire(k)
    <2>1. /\ \A k \in Ids : phase'[k] = "firing" <=> phase[k] = "firing"
          /\ UNCHANGED <<taken, out>>
      BY <1>2, FiringFacts
    <2>2. scheduled' \in Nat /\ scheduled <= scheduled'
      <3>1. scheduled \in Nat
        BY MaxSchedulesAssumption DEF IInv, TypeOK
      <3>2. scheduled' = scheduled \/ scheduled' = scheduled + 1
        BY <1>2 DEF Next, Schedule, ScheduleWith, Elapse, CancelAll, CancelAllKeeping
      <3> QED
        BY <3>1, <3>2
    <2>3. \A p \in Paths : \A m \in 1 .. scheduled : pending'[p] # m \/ pending'[p] = pending[p]
      <3>1. CASE \E p \in Paths : Schedule(p)
        BY <3>1 DEF Schedule, ScheduleWith, IInv, TypeOK
      <3>2. CASE \E k \in Ids : Elapse(k)
        BY <3>2 DEF Elapse
      <3>3. CASE CancelAll
        BY <3>3 DEF CancelAll, CancelAllKeeping, None
      <3> QED
        BY <1>2, <3>1, <3>2, <3>3 DEF Next
    <2>4. Popped'
      BY <2>1, <2>2, <2>3 DEF FInv, Popped, IInv, TypeOK, Numbered
    <2>5. FiredOnce'
      BY <2>1 DEF FInv, FiredOnce
    <2> QED
      BY <2>4, <2>5 DEF FInv
  <1>3. CASE UNCHANGED vars
    BY <1>3 DEF vars, FInv, Popped, FiredOnce
  <1> QED
    BY <1>1, <1>2, <1>3

\* No event reaches on_fire twice, whichever timer takes it.
THEOREM FiredAtMostOnce == SafetySpec => []FiredOnce
  <1>1. Init => FInv
    BY DEF Init, FInv, Popped, FiredOnce
  <1>2. FInv => FiredOnce
    BY DEF FInv
  <1> QED
    BY <1>1, <1>2, StepFInv, Inductive, PTL DEF SafetySpec

-----------------------------------------------------------------------------
\* Each action of the debouncer is an operation on the slots or invisible there.
LEMMA SlotStep ==
    ASSUME IInv, FInv, [Next]_vars
    PROVE  [Slots!Next]_(Slots!slotVars)
  <1> USE DEF IInv, FInv
  <1>1. CASE Next /\ ~ \E k \in Ids : Fire(k) \/ OnFire(k)
    <2>1. InHands' = InHands /\ out' = out
      BY <1>1, FiringFacts DEF InHands
    <2>2. CASE \E p \in Paths : Schedule(p)
      <3> PICK p \in Paths : Schedule(p)
        BY <2>2
      <3>1. scheduled + 1 \in Ids
        BY MaxSchedulesAssumption DEF Schedule, ScheduleWith, TypeOK, Ids
      <3>2. Slots!Put(p, scheduled + 1)
        BY <2>1 DEF Slots!Put, Schedule, ScheduleWith
      <3> QED
        BY <3>1, <3>2 DEF Slots!Next
    <2>3. CASE \E k \in Ids : Elapse(k)
      BY <2>1, <2>3 DEF Slots!slotVars, Elapse
    <2>4. CASE CancelAll
      BY <2>1, <2>4 DEF Slots!Next, Slots!Clear, CancelAll, CancelAllKeeping
    <2> QED
      BY <1>1, <2>2, <2>3, <2>4 DEF Next
  <1>2. CASE \E k \in Ids : Fire(k)
    <2> PICK k \in Ids : Fire(k)
      BY <1>2
    <2> DEFINE p == pathOf[k]
    <2>1. p \in Paths /\ phase[k] = "elapsed"
      BY DEF Fire, FireWith, Kept, Numbered, TypeOK, Ids
    <2>2. \A j \in Ids \ {k} : phase'[j] = phase[j] /\ taken'[j] = taken[j]
      BY DEF Fire, FireWith, Kept, TypeOK
    <2>3. CASE pending[p] = None
      <3>1. pending' = pending /\ out' = out /\ phase'[k] = "done"
        BY <2>1, <2>3 DEF Fire, FireWith, Kept, TypeOK
      <3>2. InHands' = InHands
        BY <2>1, <2>2, <3>1 DEF InHands
      <3> QED
        BY <3>1, <3>2 DEF Slots!slotVars
    <2>4. CASE pending[p] # None
      <3>1. phase'[k] = "firing" /\ taken'[k] = pending[p]
        BY <2>1, <2>4 DEF Fire, FireWith, Kept, TypeOK
      <3>2. InHands' = InHands \cup {pending[p]}
        BY <2>1, <2>2, <3>1 DEF InHands
      <3>3. Slots!Take(p)
        BY <2>4, <3>2 DEF Slots!Take, Fire, FireWith, Kept
      <3> QED
        BY <2>1, <3>3 DEF Slots!Next
    <2> QED
      BY <2>3, <2>4
  <1>3. CASE \E k \in Ids : OnFire(k)
    <2> PICK k \in Ids : OnFire(k)
      BY <1>3
    <2>1. phase[k] = "firing" /\ taken[k] \in InHands
      BY DEF OnFire, InHands
    <2>2. taken[k] \in Ids
      BY <2>1, MaxSchedulesAssumption DEF Numbered, TypeOK, Ids
    <2>3. \A j \in Ids : phase'[j] = "firing" <=> phase[j] = "firing" /\ j # k
      BY DEF OnFire, TypeOK
    <2>4. InHands' = InHands \ {taken[k]}
      BY <2>1, <2>3 DEF InHands, FiredOnce, OnFire
    <2>5. Slots!HandOver(taken[k])
      BY <2>1, <2>4 DEF Slots!HandOver, OnFire
    <2> QED
      BY <2>2, <2>5 DEF Slots!Next
  <1>4. CASE UNCHANGED vars
    BY <1>4 DEF vars, Slots!slotVars, InHands
  <1> QED
    BY <1>1, <1>2, <1>3, <1>4

\* The debouncer behaves like one latest-value slot per path: it may deliver early,
\* late or in another order between paths, but nothing that was not put, nothing
\* twice, and for a path only what was newest when it was taken.
THEOREM SlotsImplemented == SafetySpec => ImplementsSlotsSafely
  <1>1. Init => Slots!Init
    BY DEF Init, Slots!Init, InHands
  <1>2. Init => IInv /\ FInv
    BY InitIInv DEF Init, FInv, Popped, FiredOnce
  <1>3. IInv /\ FInv /\ [Next]_vars => IInv' /\ FInv'
    BY StepIInv, StepFInv
  <1>4. IInv /\ FInv /\ [Next]_vars => [Slots!Next]_(Slots!slotVars)
    BY SlotStep
  <1> QED
    BY <1>1, <1>2, <1>3, <1>4, PTL DEF SafetySpec, ImplementsSlotsSafely, Slots!SafetySpec

-----------------------------------------------------------------------------
(* When the quiet period is kept *)

\* schedule() does not come between the end of its path's interval and _fire().
NotInBetween ==
    \A p \in Paths : Schedule(p) => \A k \in Ids : pathOf[k] = p => phase[k] # "elapsed"

UnhurriedSpec == Init /\ [][Next /\ NotInBetween]_vars

\* Then a timer that can still fire is the registered one, and takes the Pending it was
\* started for.
OwnTimers ==
    /\ \A k \in Ids : ~stopped /\ phase[k] \in {"armed", "elapsed"} => timers[pathOf[k]] = k
    /\ \A k \in Ids : phase[k] = "firing" => taken[k] = k
    /\ stopped => \A k \in Ids : phase[k] # "armed"

\* The invariant of the debouncer holds here too.
LEMMA UnhurriedInductive == UnhurriedSpec => []IInv
  <1>1. IInv /\ [Next /\ NotInBetween]_vars => IInv'
    BY StepIInv
  <1> QED
    BY <1>1, InitIInv, PTL DEF UnhurriedSpec

\* schedule() cancels the only timer of the path that could still fire.
LEMMA ScheduleKeepsOwn ==
    ASSUME IInv, OwnTimers, NEW p \in Paths, Schedule(p), NotInBetween
    PROVE  OwnTimers'
  <1> DEFINE n == scheduled + 1
  <1>1. /\ n \in Ids /\ n > scheduled /\ ~stopped /\ stopped' = stopped /\ taken' = taken
        /\ timers' = [timers EXCEPT ![p] = n] /\ pathOf' = [pathOf EXCEPT ![n] = p]
        /\ phase' = [AfterCancel({timers[p]}) EXCEPT ![n] = "armed"]
    BY MaxSchedulesAssumption DEF Schedule, ScheduleWith, IInv, TypeOK, Ids
  <1>2. \A k \in Ids : pathOf[k] = p => phase[k] # "elapsed"
    BY DEF NotInBetween
  <1>3. /\ DOMAIN timers = Paths /\ DOMAIN pathOf = Ids
        /\ AfterCancel({timers[p]}) \in [Ids -> Phases]
    BY AfterCancelFacts DEF IInv, TypeOK
  <1>4. \A k \in Ids : k <= scheduled => pathOf[k] \in Paths
    BY DEF IInv, Numbered
  <1>5. ASSUME NEW k \in Ids, phase'[k] \in {"armed", "elapsed"}
        PROVE  timers'[pathOf'[k]] = k
    <2>1. CASE k = n
      BY <1>1, <1>3, <2>1
    <2>2. CASE k # n
      <3>1. phase'[k] = AfterCancel({timers[p]})[k] /\ pathOf'[k] = pathOf[k]
        BY <1>1, <1>3, <2>2
      <3>2. phase[k] \in {"armed", "elapsed"} /\ ~(k = timers[p] /\ phase[k] = "armed")
        BY <1>5, <3>1 DEF AfterCancel
      <3>3. timers[pathOf[k]] = k /\ pathOf[k] \in Paths
        BY <1>1, <3>2, <1>4 DEF OwnTimers, IInv, Numbered, TypeOK, Ids
      <3>4. pathOf[k] # p
        BY <1>2, <3>2, <3>3
      <3> QED
        BY <1>1, <1>3, <3>1, <3>3, <3>4
    <2> QED
      BY <2>1, <2>2
  <1>6. ASSUME NEW k \in Ids, phase'[k] = "firing"
        PROVE  taken'[k] = k
    <2>1. k # n /\ phase'[k] = AfterCancel({timers[p]})[k]
      BY <1>1, <1>3, <1>6
    <2>2. phase[k] = "firing"
      BY <1>6, <2>1 DEF AfterCancel
    <2> QED
      BY <1>1, <2>2 DEF OwnTimers
  <1> QED
    BY <1>1, <1>5, <1>6 DEF OwnTimers

\* _fire() takes what its own timer was started for, and removes its own registration.
LEMMA FireKeepsOwn ==
    ASSUME IInv, OwnTimers, NEW k \in Ids, Fire(k)
    PROVE  OwnTimers'
  <1> DEFINE p == pathOf[k]
  <1>1. /\ phase[k] = "elapsed" /\ UNCHANGED <<stopped, pathOf, scheduled>>
        /\ taken' = [taken EXCEPT ![k] = pending[p]]
        /\ phase' = [phase EXCEPT ![k] = IF pending[p] # None THEN "firing" ELSE "done"]
        /\ timers' = [timers EXCEPT ![p] = None]
    BY DEF Fire, FireWith, Kept
  <1>2. p \in Paths /\ timers = pending
    BY <1>1 DEF IInv, Numbered, Registered, TypeOK, Ids
  <1>3. pending[p] # None => pending[p] = k
    BY <1>1, <1>2 DEF IInv, Registered, OwnTimers
  <1>4. /\ DOMAIN timers = Paths /\ DOMAIN taken = Ids /\ DOMAIN phase = Ids
    BY DEF IInv, TypeOK
  <1>5. ASSUME NEW j \in Ids, ~stopped, phase'[j] \in {"armed", "elapsed"}
        PROVE  timers'[pathOf[j]] = j
    <2>1. j # k /\ phase[j] = phase'[j]
      BY <1>1, <1>4, <1>5
    <2>2. timers[pathOf[j]] = j /\ timers[p] = k
      BY <1>1, <1>5, <2>1 DEF OwnTimers
    <2> QED
      BY <1>1, <1>4, <2>1, <2>2
  <1>6. ASSUME NEW j \in Ids, phase'[j] = "firing"
        PROVE  taken'[j] = j
    BY <1>1, <1>3, <1>4, <1>6 DEF OwnTimers
  <1>7. stopped => \A j \in Ids : phase'[j] # "armed"
    BY <1>1, <1>4 DEF OwnTimers
  <1> QED
    BY <1>1, <1>5, <1>6, <1>7 DEF OwnTimers

\* Every step of an unhurried debouncer keeps timers and Pendings together.
LEMMA OwnTimersStep ==
    ASSUME IInv, OwnTimers, [Next /\ NotInBetween]_vars
    PROVE  OwnTimers'
  <1>1. ASSUME NEW p \in Paths, Schedule(p), NotInBetween
        PROVE  OwnTimers'
    BY <1>1, ScheduleKeepsOwn
  <1>2. ASSUME NEW k \in Ids, Elapse(k) \/ OnFire(k)
        PROVE  OwnTimers'
    BY <1>2 DEF Elapse, OnFire, OwnTimers, IInv, TypeOK
  <1>3. ASSUME NEW k \in Ids, Fire(k)
        PROVE  OwnTimers'
    BY <1>3, FireKeepsOwn
  <1>4. CASE CancelAll
    <2>1. /\ ~stopped /\ stopped' = TRUE /\ UNCHANGED <<taken, pathOf>>
          /\ phase' = AfterCancel({timers[p] : p \in Paths})
      BY <1>4 DEF CancelAll, CancelAllKeeping
    <2>2. ASSUME NEW k \in Ids, phase[k] = "armed"
          PROVE  k \in {timers[p] : p \in Paths}
      <3>1. timers[pathOf[k]] = k /\ pathOf[k] \in Paths
        BY <2>1, <2>2 DEF OwnTimers, IInv, Numbered, TypeOK, Ids
      <3> QED
        BY <3>1
    <2>3. \A k \in Ids : phase'[k] # "armed" /\ (phase'[k] = "firing" => phase[k] = "firing")
      BY <2>1, <2>2 DEF AfterCancel
    <2> QED
      BY <2>1, <2>3 DEF OwnTimers
  <1>5. CASE UNCHANGED vars
    BY <1>5 DEF vars, OwnTimers
  <1> QED
    BY <1>1, <1>2, <1>3, <1>4, <1>5 DEF Next

\* The docstring's promise, on_fire once the path was quiet for `seconds`, is broken
\* for one reason only: a schedule() between the end of an interval and its _fire().
THEOREM QuietUnlessInBetween == UnhurriedSpec => []FiresOnlyAfterQuiet
  <1>1. Init => OwnTimers
    BY DEF Init, OwnTimers
  <1>2. OwnTimers => FiresOnlyAfterQuiet
    BY DEF OwnTimers, FiresOnlyAfterQuiet
  <1> QED
    BY <1>1, <1>2, OwnTimersStep, UnhurriedInductive, PTL DEF UnhurriedSpec

=============================================================================
