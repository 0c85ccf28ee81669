------------------------------- MODULE KmtEvent -------------------------------
(***************************************************************************)
(* The events of src/src/event.cpp: the thread creates, destroys, sets and *)
(* awaits events that live in the kernel driver, and tells the GPU where   *)
(* to write when it signals one: HWData2, an address in the events page.   *)
(* The page has one slot of 8 bytes per event.                             *)
(*                                                                         *)
(* The kernel driver and the GPU are external.  The driver takes the       *)
(* events page once, numbers an event by its slot, resets an auto-reset    *)
(* event when a wait takes it, and believes the GPU's interrupt for an     *)
(* event only if the event's slot has been written.                        *)
(***************************************************************************)
EXTENDS Naturals, FiniteSets

CONSTANTS
  Limit,       (* KFD_SIGNAL_EVENT_LIMIT                                   *)
  Stride       (* slots an HsaEvent is long: 64 bytes are 8 slots          *)

ASSUME KmtEventAssumption ==
  /\ Limit \in Nat \ {0}
  /\ Stride \in Nat \ {0}

VARIABLES
  gEventsPage,  (* has the page been allocated?                            *)
  evts,         (* the events the thread holds                             *)
  told,         (* who has set or signalled which of these since it was    *)
                (* created or last awaited with success                    *)
  pageSet,      (* has the driver got the page?                            *)
  signaled,     (* the driver's live events, and which of them are signaled*)
  autoReset,    (* args.auto_reset of each, as the driver keeps it         *)
  slots,        (* slots the GPU has written and the driver not cleared    *)
  pc,           (* "idle", "waiting", or "assert" when an assert failed    *)
  waitsOn,      (* the event of the wait                                   *)
  result        (* wait_result of the last wait, which is only printed     *)

vars == <<gEventsPage, evts, told, pageSet, signaled, autoReset, slots, pc,
          waitsOn, result>>

Slots == 0 .. Limit - 1
Live == DOMAIN signaled

\* Fault: slots are numbered from 1.
Event_FromOne(id) == [id |-> id, hw |-> Stride * (id + 1)]

\* The object of an event: its number and the slot HWData2 points to, which may
\* lie behind the page.
Event(id) == [id |-> id, hw |-> Stride * id]

\* What is left of told once event id is taken or destroyed.
Forget(id) == {t \in told : t.id # id}

\* The driver's reset of an event that a wait takes.
Take(f, id) == [f EXCEPT ![id] = ~ autoReset[id]]

-----------------------------------------------------------------------------
(* The thread.                                                             *)

\* The driver refuses a page when it has one, and an event when none is left.
Create(offersPage, auto) ==
  IF (offersPage /\ pageSet) \/ Live = Slots
  THEN pc' = "assert" /\ UNCHANGED <<evts, pageSet, signaled, autoReset>>
  ELSE \E id \in Slots \ Live :
         /\ evts' = evts \cup {Event(id)}
         /\ pageSet' = (pageSet \/ offersPage)
         /\ signaled' = [j \in Live \cup {id} |-> IF j = id THEN FALSE ELSE signaled[j]]
         /\ autoReset' = [j \in Live \cup {id} |-> IF j = id THEN auto ELSE autoReset[j]]
         /\ UNCHANGED pc

\* Fault: the page goes with every call.
KmtCreateEvent_PageAgain ==
  /\ pc = "idle"
  /\ gEventsPage' = TRUE
  /\ Create(TRUE, TRUE)
  /\ UNCHANGED <<told, slots, waitsOn, result>>

\* Fault: the event stays signaled until it is reset by hand.
KmtCreateEvent_ManualReset ==
  /\ pc = "idle"
  /\ gEventsPage' = TRUE
  /\ Create(~ gEventsPage, FALSE)
  /\ UNCHANGED <<told, slots, waitsOn, result>>

\* The first call allocates the page and hands it to the driver.
KmtCreateEvent ==
  /\ pc = "idle"
  /\ gEventsPage' = TRUE
  /\ Create(~ gEventsPage, TRUE)
  /\ UNCHANGED <<told, slots, waitsOn, result>>

\* Fault: the object is freed and the driver's event is not.
KmtDestroyEvent_ObjectOnly(e) ==
  /\ pc = "idle"
  /\ evts' = evts \ {e}
  /\ told' = Forget(e.id)
  /\ UNCHANGED <<gEventsPage, pageSet, signaled, autoReset, slots, pc, waitsOn, result>>

KmtDestroyEvent(e) ==
  /\ pc = "idle"
  /\ evts' = evts \ {e}
  /\ told' = Forget(e.id)
  /\ signaled' = [j \in Live \ {e.id} |-> signaled[j]]
  /\ autoReset' = [j \in Live \ {e.id} |-> autoReset[j]]
  /\ slots' = slots \ {e.id}
  /\ UNCHANGED <<gEventsPage, pageSet, pc, waitsOn, result>>

KmtSetEvent(e) ==
  /\ pc = "idle"
  /\ told' = told \cup {[id |-> e.id, by |-> "thread"]}
  /\ signaled' = [signaled EXCEPT ![e.id] = TRUE]
  /\ UNCHANGED <<gEventsPage, evts, pageSet, autoReset, slots, pc, waitsOn, result>>

\* Fault: the event is reset before it is waited for.
KmtWaitOnEvent_ResetsFirst(e) ==
  /\ pc = "idle"
  /\ pc' = "waiting"
  /\ waitsOn' = e
  /\ signaled' = [signaled EXCEPT ![e.id] = FALSE]
  /\ UNCHANGED <<gEventsPage, evts, told, pageSet, autoReset, slots, result>>

KmtWaitOnEvent(e) ==
  /\ pc = "idle"
  /\ pc' = "waiting"
  /\ waitsOn' = e
  /\ UNCHANGED <<gEventsPage, evts, told, pageSet, signaled, autoReset, slots, result>>

\* The driver completes the wait with a signaled event.
WaitComplete ==
  /\ pc = "waiting"
  /\ signaled[waitsOn.id]
  /\ signaled' = Take(signaled, waitsOn.id)
  /\ told' = Forget(waitsOn.id)
  /\ result' = "complete"
  /\ pc' = "idle"
  /\ UNCHANGED <<gEventsPage, evts, pageSet, autoReset, slots, waitsOn>>

\* Fault: no timeout is passed.
WaitTimeout_Never == FALSE /\ UNCHANGED vars

\* args.timeout milliseconds later.
WaitTimeout ==
  /\ pc = "waiting"
  /\ ~ signaled[waitsOn.id]
  /\ result' = "timeout"
  /\ pc' = "idle"
  /\ UNCHANGED <<gEventsPage, evts, told, pageSet, signaled, autoReset, slots, waitsOn>>

-----------------------------------------------------------------------------
(* The GPU and its interrupt.                                              *)

GpuWrite(e) ==
  /\ slots' = slots \cup ({e.hw} \cap Slots)
  /\ told' = told \cup {[id |-> e.id, by |-> "gpu"]}
  /\ IF e.id \in slots'
     THEN signaled' = [signaled EXCEPT ![e.id] = TRUE]
     ELSE UNCHANGED signaled
  /\ UNCHANGED <<gEventsPage, evts, pageSet, autoReset, pc, waitsOn, result>>

-----------------------------------------------------------------------------
Init ==
  /\ gEventsPage = FALSE /\ pageSet = FALSE
  /\ evts = {} /\ told = {} /\ slots = {}
  /\ signaled = [j \in {} |-> FALSE] /\ autoReset = [j \in {} |-> TRUE]
  /\ pc = "idle" /\ waitsOn = Event(0) /\ result = "none"

Next ==
  \/ KmtCreateEvent
  \/ \E e \in evts : \/ KmtDestroyEvent(e)
                     \/ KmtSetEvent(e)
                     \/ KmtWaitOnEvent(e)
                     \/ GpuWrite(e)
  \/ WaitComplete
  \/ WaitTimeout

\* The driver ends a wait, one way or the other.
Fairness == WF_vars(WaitComplete \/ WaitTimeout)

Spec == Init /\ [][Next]_vars /\ Fairness

=============================================================================
