---------------------------- MODULE KmtEventProps ----------------------------
(***************************************************************************)
(* What must be true of the events modelled in KmtEvent.                   *)
(***************************************************************************)
EXTENDS KmtEvent

\* Type invariant; what the thread holds and what the driver keeps are the same
\* events, on a page both know, and a create is refused only when there can be no more
\* of them (event.cpp:3, 34-49).
TypeOK ==
  /\ gEventsPage \in BOOLEAN /\ pageSet = gEventsPage
  /\ evts \subseteq {Event(id) : id \in Slots}
  /\ Live = {e.id : e \in evts}
  /\ signaled \in [Live -> BOOLEAN] /\ autoReset \in [Live -> BOOLEAN]
  /\ told \subseteq [id : Live, by : {"thread", "gpu"}]
  /\ slots \subseteq Slots
  /\ pc \in {"idle", "waiting", "assert"}
  /\ pc = "assert" => Cardinality(evts) = Limit
  /\ waitsOn \in {Event(id) : id \in Slots}
  /\ result \in {"none", "complete", "timeout"}

\* A wait completes only for an event that was set since it last did
\* (event.cpp:19, 79-106).
CompletesOnlyIfTold ==
  [][pc = "waiting" /\ pc' = "idle" /\ result' = "complete"
       => \E t \in told : t.id = waitsOn.id]_vars

TimesOut == pc = "waiting" /\ pc' = "idle" /\ result' = "timeout"

\* A wait times out only for an event nobody has set or signalled since the last
\* wait completed: no signal is lost.  HWData2 is taken for the address of the
\* event's slot of 8 bytes (event.cpp:24, 46; src-bck/signal_test.cpp:10-12, 38).
NoSignalLost == [][TimesOut => \A t \in told : t.id # waitsOn.id]_vars

\* What KmtSetEvent sets is never lost; of the signals the GPU sends, the ones of
\* the event in the first slot are not: only there do the slot and the address in
\* HWData2 agree (event.cpp:46, 71-78).
LostOnlyBehindFirstSlot ==
  [][TimesOut => \A t \in told : t.id = waitsOn.id => t.by = "gpu" /\ t.id # 0]_vars

\* Every wait ends (event.cpp:90).
WaitReturns == pc = "waiting" ~> pc = "idle"

=============================================================================
