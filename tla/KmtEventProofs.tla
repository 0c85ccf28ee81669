--------------------------- MODULE KmtEventProofs ---------------------------
(***************************************************************************)
(* Proofs about KmtEvent, for pages and events of every size.              *)
(***************************************************************************)
EXTENDS KmtEventProps, Integers, FiniteSetTheorems, TLAPS

\* No event without the page.
PageInv == Live # {} => gEventsPage

\* An event is signaled only if somebody set or signalled it since it was last taken, and
\* what the thread sets, or the GPU signals in the first slot, is signaled until then.
ToldInv ==
  /\ \A id \in Live : autoReset[id] = TRUE
  /\ pc = "waiting" => waitsOn \in evts
  /\ \A id \in Live : signaled[id] => \E t \in told : t.id = id
  /\ \A t \in told : t.by = "thread" \/ t.id = 0 => signaled[t.id]

EventInv == TypeOK /\ PageInv /\ ToldInv

-----------------------------------------------------------------------------
(* Events and their numbers.                                               *)

\* The objects are as many as the slots, and each knows its number.
LEMMA EventsOfSlots ==
  ASSUME NEW S \in SUBSET Slots
  PROVE  /\ IsFiniteSet(S) /\ IsFiniteSet({Event(id) : id \in S})
         /\ Cardinality({Event(id) : id \in S}) = Cardinality(S)
<1> DEFINE f == [id \in S |-> Event(id)]
           T == {Event(id) : id \in S}
<1>1. IsFiniteSet(S)
  <2>1. IsFiniteSet(Slots)
    BY FS_Interval, KmtEventAssumption DEF Slots
  <2> QED  BY <2>1, FS_Subset
<1>2. f \in Surjection(S, T)
  BY DEF Surjection
<1>3. f \in Injection(S, T)
  <2>1. \A i, j \in S : Event(i) = Event(j) => i = j
    BY DEF Event
  <2>2. \A i, j \in S : f[i] = f[j] => i = j
    BY <2>1
  <2>3. f \in [S -> T]
    OBVIOUS
  <2> HIDE DEF f, T
  <2> QED  BY <2>2, <2>3 DEF Injection, IsInjective
<1>4. IsFiniteSet(T) /\ Cardinality(T) = Cardinality(S)
  BY <1>1, <1>2, <1>3, FS_Surjection
<1> QED  BY <1>1, <1>4

\* An event the thread holds is the object of its number, and is live.
LEMMA HeldEvent ==
  ASSUME TypeOK, NEW e \in evts
  PROVE  e.id \in Live /\ e.id \in Slots /\ e = Event(e.id)
BY DEF TypeOK, Event

\* The thread holds exactly the objects of the live events.
LEMMA HeldAreLive ==
  ASSUME TypeOK
  PROVE  evts = {Event(id) : id \in Live} /\ Live \subseteq Slots
<1>1. Live \subseteq Slots
  BY HeldEvent DEF TypeOK
<1>2. \A id \in Live : Event(id) \in evts
  BY HeldEvent DEF TypeOK
<1>3. \A e \in evts : e \in {Event(id) : id \in Live}
  BY HeldEvent
<1> QED  BY <1>1, <1>2, <1>3

\* When all slots are taken, there are as many events as the driver has.
LEMMA AllTaken ==
  ASSUME TypeOK, Live = Slots
  PROVE  Cardinality(evts) = Limit
<1>1. Cardinality(evts) = Cardinality(Slots)
  BY HeldAreLive, EventsOfSlots
<1>2. Cardinality(Slots) = Limit
  BY FS_Interval, KmtEventAssumption DEF Slots
<1> QED  BY <1>1, <1>2

-----------------------------------------------------------------------------
(* Steps.                                                                  *)

\* A new event gets a slot of its own, or the page is full.
LEMMA CreateStep ==
  ASSUME EventInv, KmtCreateEvent
  PROVE  EventInv'
<1>1. /\ pc = "idle" /\ gEventsPage' = TRUE
      /\ UNCHANGED <<told, slots, waitsOn, result>>
      /\ pageSet = gEventsPage
  BY DEF KmtCreateEvent, EventInv, TypeOK
<1>2. CASE Live = Slots
  <2>1. gEventsPage = TRUE
    <3>1. 0 \in Live
      BY <1>2, KmtEventAssumption DEF Slots
    <3> QED  BY <3>1 DEF EventInv, PageInv, TypeOK
  <2>2. pc' = "assert" /\ UNCHANGED <<evts, pageSet, signaled, autoReset>>
    BY <1>2 DEF KmtCreateEvent, Create
  <2>3. Cardinality(evts) = Limit
    BY <1>2, AllTaken DEF EventInv
  <2>4. TypeOK'
    BY <1>1, <2>1, <2>2, <2>3 DEF EventInv, TypeOK, Live
  <2> QED  BY <1>1, <2>2, <2>4 DEF EventInv, PageInv, ToldInv, Live
<1>3. CASE Live # Slots
  <2>1. PICK id \in Slots \ Live :
          /\ evts' = evts \cup {Event(id)}
          /\ pageSet' = (pageSet \/ ~ gEventsPage)
          /\ signaled' = [j \in Live \cup {id} |-> IF j = id THEN FALSE ELSE signaled[j]]
          /\ autoReset' = [j \in Live \cup {id} |-> IF j = id THEN TRUE ELSE autoReset[j]]
          /\ UNCHANGED pc
    BY <1>1, <1>3 DEF KmtCreateEvent, Create
  <2>2. Live' = Live \cup {id}
    BY <2>1 DEF Live
  <2>3. \A t \in told : t.id \in Live
    BY DEF EventInv, TypeOK
  <2>4. TypeOK'
    <3>1. pageSet' = gEventsPage' /\ gEventsPage' \in BOOLEAN
      BY <1>1, <2>1
    <3>2. evts' \subseteq {Event(i) : i \in Slots}
      BY <2>1 DEF EventInv, TypeOK
    <3>3. Live' = {e.id : e \in evts'}
      <4>1. Event(id).id = id
        BY DEF Event
      <4>2. Live = {e.id : e \in evts}
        BY DEF EventInv, TypeOK
      <4> HIDE DEF Live
      <4> QED  BY <2>1, <2>2, <4>1, <4>2
    <3>4. signaled' \in [Live' -> BOOLEAN]
      BY <2>1, <2>2 DEF EventInv, TypeOK
    <3>5. autoReset' \in [Live' -> BOOLEAN]
      BY <2>1, <2>2 DEF EventInv, TypeOK
    <3>6. told' \subseteq [id : Live', by : {"thread", "gpu"}]
      BY <1>1, <2>2 DEF EventInv, TypeOK
    <3> QED  BY <1>1, <2>1, <3>1, <3>2, <3>3, <3>4, <3>5, <3>6 DEF EventInv, TypeOK
  <2>5. ToldInv'
    BY <1>1, <2>1, <2>2, <2>3 DEF EventInv, ToldInv
  <2> QED  BY <1>1, <2>4, <2>5 DEF EventInv, PageInv
<1> QED  BY <1>2, <1>3

\* An event destroyed takes what it was told with it.
LEMMA DestroyStep ==
  ASSUME EventInv, NEW e \in evts, KmtDestroyEvent(e)
  PROVE  EventInv'
<1>1. /\ evts' = evts \ {e} /\ told' = Forget(e.id)
      /\ signaled' = [j \in Live \ {e.id} |-> signaled[j]]
      /\ autoReset' = [j \in Live \ {e.id} |-> autoReset[j]]
      /\ slots' = slots \ {e.id}
      /\ pc = "idle" /\ UNCHANGED <<gEventsPage, pageSet, pc, waitsOn, result>>
  BY DEF KmtDestroyEvent
<1>2. Live' = Live \ {e.id}
  BY <1>1 DEF Live
<1>3. \A d \in evts : d.id = e.id => d = e
  BY HeldEvent DEF EventInv
<1>4. TypeOK'
  <2>1. Live' = {d.id : d \in evts'}
    BY <1>1, <1>2, <1>3 DEF EventInv, TypeOK
  <2>2. signaled' \in [Live' -> BOOLEAN]
    BY <1>1, <1>2 DEF EventInv, TypeOK
  <2>3. autoReset' \in [Live' -> BOOLEAN]
    BY <1>1, <1>2 DEF EventInv, TypeOK
  <2>4. told' \subseteq [id : Live', by : {"thread", "gpu"}]
    BY <1>1, <1>2 DEF EventInv, TypeOK, Forget
  <2> QED  BY <1>1, <2>1, <2>2, <2>3, <2>4 DEF EventInv, TypeOK
<1>5. ToldInv'
  BY <1>1, <1>2 DEF EventInv, TypeOK, ToldInv, Forget
<1> QED  BY <1>1, <1>2, <1>4, <1>5 DEF EventInv, PageInv

\* A signal set is one the event was told of.
LEMMA SetStep ==
  ASSUME EventInv, NEW e \in evts, KmtSetEvent(e)
  PROVE  EventInv'
<1>1. /\ told' = told \cup {[id |-> e.id, by |-> "thread"]}
      /\ signaled' = [signaled EXCEPT ![e.id] = TRUE]
      /\ pc = "idle"
      /\ UNCHANGED <<gEventsPage, evts, pageSet, autoReset, slots, pc, waitsOn, result>>
  BY DEF KmtSetEvent
<1>2. e.id \in Live
  BY HeldEvent DEF EventInv
<1>3. Live' = Live /\ signaled' \in [Live -> BOOLEAN]
  BY <1>1 DEF Live, EventInv, TypeOK
<1>4. TypeOK'
  BY <1>1, <1>2, <1>3 DEF EventInv, TypeOK
<1>5. ToldInv'
  <2>1. \A t \in told' : t.by = "thread" \/ t.id = 0 => signaled'[t.id]
    BY <1>1, <1>2, <1>3 DEF EventInv, TypeOK, ToldInv
  <2>2. \A id \in Live : signaled'[id] => \E t \in told' : t.id = id
    <3> SUFFICES ASSUME NEW id \in Live, signaled'[id]  PROVE \E t \in told' : t.id = id
      OBVIOUS
    <3>1. CASE id = e.id
      <4>1. [id |-> e.id, by |-> "thread"] \in told'
        BY <1>1
      <4>2. [id |-> e.id, by |-> "thread"].id = id
        BY <3>1
      <4> QED  BY <4>1, <4>2
    <3>2. CASE id # e.id
      <4>1. signaled[id]
        BY <1>1, <3>2 DEF EventInv, TypeOK
      <4> QED  BY <1>1, <4>1 DEF EventInv, ToldInv
    <3> QED  BY <3>1, <3>2
  <2> QED  BY <1>1, <1>3, <2>1, <2>2 DEF EventInv, ToldInv
<1> QED  BY <1>1, <1>3, <1>4, <1>5 DEF EventInv, PageInv

\* A wait that completes takes what its event was told, as an event that resets does.
LEMMA CompleteStep ==
  ASSUME EventInv, WaitComplete
  PROVE  EventInv'
<1> DEFINE id == waitsOn.id
<1>1. /\ signaled' = [signaled EXCEPT ![id] = ~ autoReset[id]]
      /\ told' = Forget(id) /\ result' = "complete"
      /\ pc = "waiting" /\ pc' = "idle"
      /\ UNCHANGED <<gEventsPage, evts, pageSet, autoReset, slots, waitsOn>>
  BY DEF WaitComplete, Take
<1>2. id \in Live
  BY <1>1, HeldEvent DEF EventInv, ToldInv
<1>3. Live' = Live /\ signaled' = [signaled EXCEPT ![id] = FALSE]
  BY <1>1, <1>2 DEF Live, EventInv, TypeOK, ToldInv
<1>4. TypeOK'
  BY <1>1, <1>3 DEF EventInv, TypeOK, Forget
<1>5. ToldInv'
  BY <1>1, <1>2, <1>3 DEF EventInv, TypeOK, ToldInv, Forget
<1> QED  BY <1>1, <1>3, <1>4, <1>5 DEF EventInv, PageInv

\* The GPU's signal counts if the slot it writes is the event's: so it is for the first.
LEMMA GpuStep ==
  ASSUME EventInv, NEW e \in evts, GpuWrite(e)
  PROVE  EventInv'
<1>1. /\ slots' = slots \cup ({e.hw} \cap Slots)
      /\ told' = told \cup {[id |-> e.id, by |-> "gpu"]}
      /\ UNCHANGED <<gEventsPage, evts, pageSet, autoReset, pc, waitsOn, result>>
  BY DEF GpuWrite
<1>2. e.id \in Live /\ e.id \in Slots /\ e = Event(e.id)
  BY HeldEvent DEF EventInv
<1>3. \/ signaled' = [signaled EXCEPT ![e.id] = TRUE]
      \/ signaled' = signaled /\ e.id \notin slots'
  BY DEF GpuWrite
<1>4. Live' = Live /\ signaled' \in [Live -> BOOLEAN]
  BY <1>3 DEF Live, EventInv, TypeOK
<1>5. e.id = 0 => e.id \in slots'
  <2>1. e.id = 0 => e.hw = Stride * 0
    BY <1>2 DEF Event
  <2>2. Stride * 0 = 0
    BY KmtEventAssumption
  <2> QED  BY <1>1, <1>2, <2>1, <2>2
<1>6. TypeOK'
  BY <1>1, <1>2, <1>4 DEF EventInv, TypeOK
<1>7. ToldInv'
  <2>1. \A t \in told' : t.by = "thread" \/ t.id = 0 => signaled'[t.id]
    BY <1>1, <1>2, <1>3, <1>4, <1>5 DEF EventInv, TypeOK, ToldInv
  <2>2. \A id \in Live : signaled'[id] => \E t \in told' : t.id = id
    <3> SUFFICES ASSUME NEW id \in Live, signaled'[id]  PROVE \E t \in told' : t.id = id
      OBVIOUS
    <3>1. CASE id = e.id
      <4>1. [id |-> e.id, by |-> "gpu"] \in told'
        BY <1>1
      <4>2. [id |-> e.id, by |-> "gpu"].id = id
        BY <3>1
      <4> QED  BY <4>1, <4>2
    <3>2. CASE id # e.id
      <4>1. signaled[id]
        BY <1>3, <3>2 DEF EventInv, TypeOK
      <4> QED  BY <1>1, <4>1 DEF EventInv, ToldInv
    <3> QED  BY <3>1, <3>2
  <2> QED  BY <1>1, <1>4, <2>1, <2>2 DEF EventInv, ToldInv
<1> QED  BY <1>1, <1>4, <1>6, <1>7 DEF EventInv, PageInv

-----------------------------------------------------------------------------
(* Theorems.                                                               *)

\* The invariant is inductive.
THEOREM EventInvCorrect == Spec => []EventInv
<1>1. Init => EventInv
  <2> SUFFICES ASSUME Init  PROVE EventInv
    OBVIOUS
  <2>1. Live = {}
    BY DEF Init, Live
  <2>2. Event(0) \in {Event(id) : id \in Slots}
    BY KmtEventAssumption DEF Slots
  <2>3. TypeOK
    BY <2>1, <2>2 DEF Init, TypeOK
  <2> QED  BY <2>1, <2>3 DEF Init, EventInv, PageInv, ToldInv
<1>2. EventInv /\ [Next]_vars => EventInv'
  <2> SUFFICES ASSUME EventInv, [Next]_vars  PROVE EventInv'
    OBVIOUS
  <2>1. CASE KmtCreateEvent
    BY <2>1, CreateStep
  <2>2. ASSUME NEW e \in evts, KmtDestroyEvent(e)  PROVE EventInv'
    BY <2>2, DestroyStep
  <2>3. ASSUME NEW e \in evts, KmtSetEvent(e)  PROVE EventInv'
    BY <2>3, SetStep
  <2>4. ASSUME NEW e \in evts, KmtWaitOnEvent(e)  PROVE EventInv'
    BY <2>4 DEF KmtWaitOnEvent, EventInv, TypeOK, PageInv, ToldInv, Live
  <2>5. ASSUME NEW e \in evts, GpuWrite(e)  PROVE EventInv'
    BY <2>5, GpuStep
  <2>6. CASE WaitComplete
    BY <2>6, CompleteStep
  <2>7. CASE WaitTimeout
    BY <2>7 DEF WaitTimeout, EventInv, TypeOK, PageInv, ToldInv, Live
  <2>8. CASE UNCHANGED vars
    BY <2>8 DEF vars, EventInv, TypeOK, PageInv, ToldInv, Live
  <2> QED  BY <2>1, <2>2, <2>3, <2>4, <2>5, <2>6, <2>7, <2>8 DEF Next
<1> QED  BY <1>1, <1>2, PTL DEF Spec

\* What the thread holds and what the driver keeps are the same events, and a create is
\* refused only when there can be no more of them (event.cpp:3, 34-49).
THEOREM EventTypeCorrect == Spec => []TypeOK
<1>1. EventInv => TypeOK
  BY DEF EventInv
<1> QED  BY <1>1, EventInvCorrect, PTL

\* The steps that end a wait.
LEMMA WaitEnds ==
  ASSUME EventInv, [Next]_vars, pc = "waiting", pc' = "idle"
  PROVE  WaitComplete \/ WaitTimeout
BY DEF Next, vars, KmtCreateEvent, KmtDestroyEvent, KmtSetEvent, KmtWaitOnEvent, GpuWrite

\* A wait completes only for an event that was set since it last did
\* (event.cpp:19, 79-106).
THEOREM WaitsCompleteIfTold == Spec => CompletesOnlyIfTold
<1>1. EventInv /\ [Next]_vars
        => [pc = "waiting" /\ pc' = "idle" /\ result' = "complete"
             => \E t \in told : t.id = waitsOn.id]_vars
  <2> SUFFICES ASSUME EventInv, [Next]_vars, pc = "waiting", pc' = "idle",
                      result' = "complete"
               PROVE  \E t \in told : t.id = waitsOn.id
    OBVIOUS
  <2>1. signaled[waitsOn.id]
    BY WaitEnds DEF WaitComplete, WaitTimeout
  <2>2. waitsOn.id \in Live
    BY HeldEvent DEF EventInv, ToldInv
  <2> QED  BY <2>1, <2>2 DEF EventInv, ToldInv
<1> QED  BY <1>1, EventInvCorrect, PTL DEF Spec, CompletesOnlyIfTold

\* What KmtSetEvent sets is never lost, nor what the GPU signals in the first slot
\* (event.cpp:46, 71-78).
THEOREM SignalsLostBehindFirstSlot == Spec => LostOnlyBehindFirstSlot
<1>1. EventInv /\ [Next]_vars
        => [TimesOut => \A t \in told : t.id = waitsOn.id => t.by = "gpu" /\ t.id # 0]_vars
  <2> SUFFICES ASSUME EventInv, [Next]_vars, TimesOut,
                      NEW t \in told, t.id = waitsOn.id
               PROVE  t.by = "gpu" /\ t.id # 0
    OBVIOUS
  <2>1. ~ signaled[waitsOn.id]
    BY WaitEnds DEF TimesOut, WaitComplete, WaitTimeout
  <2>2. t.by \in {"thread", "gpu"}
    BY DEF EventInv, TypeOK
  <2> QED  BY <2>1, <2>2 DEF EventInv, ToldInv
<1> QED  BY <1>1, EventInvCorrect, PTL DEF Spec, LostOnlyBehindFirstSlot

=============================================================================
