-------------------------- MODULE DeviceInputProof --------------------------
(***************************************************************************)
(* Theorems about what comes from the devices.                             *)
(*                                                                         *)
(* MiEq, for every queue size, every set of devices and screens and any    *)
(* number of events: the invariants of the ring, that it implements the    *)
(* queue of InputFifo, and the order of times.                             *)
(*                                                                         *)
(* KdMouse, which makes the events of a pointer, for any number of         *)
(* buttons: what the emulation may do to them, and that it never begins.   *)
(***************************************************************************)
EXTENDS MCMiEq, KdMouse, SequenceTheorems, WellFoundedInduction, TLAPS

\* While the dispatcher reads a slot before popping it, the slot is the one at
\* head; once popped, it is the slot just before head.
BeforePop == {"Screen", "Switch", "ReadX", "ReadY", "SwitchPop", "Pop"}
AfterPop == {"NewScreen", "Dispatch", "Process"}
HoldsSlot ==
    /\ pc \in BeforePop => e = head /\ head # tail
    /\ pc \in AfterPop => head = Succ(e) /\ events[e].event # <<>>

QueuedFilled == \A i \in Slots : Queued(i) => events[i].event # <<>>

\* The inductive invariant.
IInv == TypeOK /\ HoldsSlot /\ QueuedFilled /\ LastMotionTrue

-----------------------------------------------------------------------------
\* Succ and Prev are inverse walks around the ring.
LEMMA SuccPrev ==
    \A i \in Slots : /\ Succ(i) \in Slots /\ Prev(i) \in Slots
                     /\ Succ(Prev(i)) = i /\ Prev(Succ(i)) = i
                     /\ Succ(i) # i /\ Prev(i) # i
  BY QueueAssumption DEF Slots, Succ, Prev

\* The newest slot is queued when the queue is not empty.
LEMMA NewestQueued ==
    ASSUME head \in Slots, tail \in Slots, head # tail
    PROVE  Queued(Prev(tail))
  BY QueueAssumption DEF Slots, Prev, Queued

LEMMA HeadQueued ==
    ASSUME head \in Slots, tail \in Slots, head # tail
    PROVE  Queued(head)
  BY QueueAssumption DEF Slots, Queued

\* A slot that was just popped is not the newest one, and not the next to be
\* filled unless the queue is full.
LEMMA PoppedSlot ==
    ASSUME head \in Slots, tail \in Slots, NEW i \in Slots, head = Succ(i)
    PROVE  /\ head # tail => i # Prev(tail)
           /\ Succ(tail) # head => i # tail
  BY SuccPrev, QueueAssumption DEF Slots, Succ, Prev

LEMMA InitOK == Init => IInv
  <1> SUFFICES ASSUME Init PROVE IInv
    OBVIOUS
  <1>1. TypeOK
    BY QueueAssumption, ScreenAssumption, DeviceAssumption
       DEF Init, TypeOK, Slots, Devices, EventRec, Event
  <1>2. HoldsSlot
    BY DEF Init, HoldsSlot, BeforePop, AfterPop
  <1>3. QueuedFilled
    BY QueueAssumption DEF Init, QueuedFilled, Queued, Slots
  <1>4. LastMotionTrue
    BY DEF Init, LastMotionTrue
  <1> QED
    BY <1>1, <1>2, <1>3, <1>4 DEF IInv

-----------------------------------------------------------------------------
\* What the handler posts is well typed.
LEMMA MakeEventType ==
    ASSUME posts \in Nat, NEW type \in EventTypes, NEW d \in Devices, NEW t \in Times
    PROVE  MakeEvent(type, d, t) \in Event
  BY DEF MakeEvent, Event

LEMMA BurstType ==
    ASSUME posts \in Nat, NEW d \in Devices, NEW t \in Times
    PROVE  /\ MotionEvents(d, t) \in Seq(Event)
           /\ ButtonEvents(d, t) \in Seq(Event)
           /\ KeyEvents(d, t) \in Seq(Event)
           /\ <<MakeEvent("MotionNotify", d, t)>> \in Seq(Event)
  <1>1. \A type \in EventTypes : MakeEvent(type, d, t) \in Event
    BY MakeEventType
  <1>2. \A type \in EventTypes : Core(type, d, t) \in Seq(Event)
    BY <1>1 DEF Core
  <1>3. \A type \in EventTypes : <<MakeEvent(type, d, t)>> \in Seq(Event)
    BY <1>1
  <1>4. <<MakeEvent("DeviceMotionNotify", d, t),
          MakeEvent("DeviceValuator", d, t)>> \in Seq(Event)
    BY <1>1 DEF EventTypes
  <1>5. "MotionNotify" \in EventTypes /\ "ButtonPress" \in EventTypes
        /\ "KeyPress" \in EventTypes /\ "DeviceButtonPress" \in EventTypes
        /\ "DeviceKeyPress" \in EventTypes
    BY DEF EventTypes
  <1> QED
    BY <1>2, <1>3, <1>4, <1>5 DEF MotionEvents, ButtonEvents, KeyEvents

LEMMA MotionIdType ==
    ASSUME NEW ev, NEW d \in Devices
    PROVE  IsMotion(ev, d) \in Devices
  BY DeviceAssumption DEF IsMotion, Devices

\* Storing an event of the handler in any slot keeps the types.
LEMMA StoreType ==
    ASSUME TypeOK, NEW slot \in Slots, NEW ev \in Event, Store(slot, ev)
    PROVE  /\ events' \in [Slots -> EventRec]
           /\ lastEventTime' \in Times /\ lastMotion' \in Devices
           /\ events'[slot].event # <<>>
           /\ IsMotion(events'[slot].event[1], events'[slot].pDev) = lastMotion'
           /\ \A i \in Slots : i # slot => events'[i] = events[i]
           /\ head' = head
  <1>1. StoredTime(ev) \in Times
    BY DEF TypeOK, StoredTime, Event
  <1>2. [ev EXCEPT !.time = StoredTime(ev)] \in Event
    BY <1>1 DEF Event
  <1>3. [event |-> <<[ev EXCEPT !.time = StoredTime(ev)]>>,
         pScreen |-> pEnqueueScreen, pDev |-> poster] \in EventRec
    BY <1>2 DEF TypeOK, EventRec
  <1>4. events' \in [Slots -> EventRec]
    BY <1>3 DEF TypeOK, Store
  <1>5. events'[slot] = [event |-> <<[ev EXCEPT !.time = StoredTime(ev)]>>,
                         pScreen |-> pEnqueueScreen, pDev |-> poster]
    BY DEF TypeOK, Store
  <1>6. IsMotion(events'[slot].event[1], events'[slot].pDev) = lastMotion'
    <2>1. events'[slot].event[1] = [ev EXCEPT !.time = StoredTime(ev)]
          /\ events'[slot].pDev = poster
      BY <1>5
    <2>2. events'[slot].event[1].type = ev.type
      BY <2>1 DEF Event
    <2> QED
      BY <2>1, <2>2 DEF Store, IsMotion
  <1>7. lastMotion' \in Devices
    BY MotionIdType DEF TypeOK, Store
  <1>8. events'[slot].event # <<>>
    BY <1>5
  <1>9. \A i \in Slots : i # slot => events'[i] = events[i]
    BY DEF TypeOK, Store
  <1> QED
    BY <1>1, <1>4, <1>6, <1>7, <1>8, <1>9 DEF Store

-----------------------------------------------------------------------------
\* Each step of the handler preserves the invariant.
LEMMA EnqueueOK == IInv /\ mieqEnqueue => IInv'
  <1> SUFFICES ASSUME IInv, mieqEnqueue PROVE IInv'
    OBVIOUS
  <1> USE DEF IInv
  <1> DEFINE ev == Head(pending)
  <1>1. ev \in Event /\ pending' \in Seq(Event)
    BY DEF TypeOK, mieqEnqueue
  <1>2. UNCHANGED <<poster, posts, pEnqueueScreen, pDequeueScreen, pc, e, x, y,
                    dev, coreFrom>>
    BY DEF mieqEnqueue, mainVars
  <1>3. head \in Slots /\ tail \in Slots /\ e \in Slots
    BY DEF TypeOK
  <1>4. CASE AttachValuator(ev)
    <2> DEFINE last == Prev(tail)
    <2>1. UNCHANGED <<head, tail, lastEventTime, lastMotion>> /\ tail # head
      BY <1>4 DEF AttachValuator, ValuatorFits
    <2>2. last \in Slots
      BY <1>3, SuccPrev
    <2>3. events[last] \in EventRec /\ events[last].event # <<>>
      BY <2>1, <2>2, <1>3, NewestQueued DEF TypeOK, QueuedFilled
    <2>4. events' = [events EXCEPT ![last].event = Append(@, ev)]
      BY <1>4 DEF AttachValuator
    <2>5. events'[last] = [events[last] EXCEPT !.event = Append(@, ev)]
          /\ \A i \in Slots : i # last => events'[i] = events[i]
      BY <2>2, <2>4 DEF TypeOK
    <2>6. Append(events[last].event, ev) \in Seq(Event)
          /\ Append(events[last].event, ev) # <<>>
          /\ Append(events[last].event, ev)[1] = events[last].event[1]
      BY <1>1, <2>3 DEF EventRec
    <2>7. events'[last] \in EventRec /\ events'[last].event # <<>>
          /\ events'[last].event[1] = events[last].event[1]
          /\ events'[last].pDev = events[last].pDev
      BY <2>3, <2>5, <2>6 DEF EventRec
    <2>8. events' \in [Slots -> EventRec]
      BY <2>2, <2>4, <2>5, <2>7 DEF TypeOK
    <2>9. TypeOK'
      BY <1>1, <1>2, <2>1, <2>8 DEF TypeOK
    <2>10. HoldsSlot'
      BY <1>2, <1>3, <2>1, <2>5, <2>7 DEF HoldsSlot, BeforePop, AfterPop
    <2>11. QueuedFilled'
      BY <2>1, <2>5, <2>7 DEF QueuedFilled, Queued
    <2>12. LastMotionTrue'
      BY <2>1, <2>7 DEF LastMotionTrue
    <2> QED
      BY <2>9, <2>10, <2>11, <2>12
  <1>5. CASE DropValuator(ev) \/ Toss(ev)
    <2>1. UNCHANGED queueVars
      BY <1>5 DEF DropValuator, Toss
    <2> QED
      BY <1>1, <1>2, <2>1
         DEF queueVars, TypeOK, HoldsSlot, QueuedFilled, Queued, LastMotionTrue
  <1>6. CASE Compress(ev)
    <2> DEFINE last == Prev(tail)
    <2>1. UNCHANGED tail /\ tail # head /\ Store(last, ev) /\ last \in Slots
      BY <1>3, <1>6, SuccPrev DEF Compress, Coalesces
    <2>2. /\ events' \in [Slots -> EventRec] /\ head' = head
          /\ lastEventTime' \in Times /\ lastMotion' \in Devices
          /\ events'[last].event # <<>>
          /\ IsMotion(events'[last].event[1], events'[last].pDev) = lastMotion'
          /\ \A i \in Slots : i # last => events'[i] = events[i]
      BY <1>1, <2>1, StoreType
    <2>3. TypeOK'
      BY <1>1, <1>2, <2>1, <2>2 DEF TypeOK
    <2>4. HoldsSlot'
      BY <1>2, <1>3, <2>1, <2>2 DEF HoldsSlot
    <2>5. QueuedFilled'
      BY <2>1, <2>2 DEF QueuedFilled, Queued
    <2>6. LastMotionTrue'
      BY <2>1, <2>2 DEF LastMotionTrue
    <2> QED
      BY <2>3, <2>4, <2>5, <2>6
  <1>7. CASE AppendEvent(ev)
    <2>1. tail' = Succ(tail) /\ Succ(tail) # head /\ Store(tail, ev)
          /\ Succ(tail) \in Slots /\ Prev(Succ(tail)) = tail
      BY <1>3, <1>7, SuccPrev DEF AppendEvent
    <2>2. /\ events' \in [Slots -> EventRec] /\ head' = head
          /\ lastEventTime' \in Times /\ lastMotion' \in Devices
          /\ events'[tail].event # <<>>
          /\ IsMotion(events'[tail].event[1], events'[tail].pDev) = lastMotion'
          /\ \A i \in Slots : i # tail => events'[i] = events[i]
      BY <1>1, <1>3, <2>1, StoreType
    <2>3. TypeOK'
      BY <1>1, <1>2, <2>1, <2>2 DEF TypeOK
    <2>4. HoldsSlot'
      <3>1. pc \in AfterPop => e # tail
        BY <1>3, <2>1, PoppedSlot DEF HoldsSlot
      <3> QED
        BY <1>2, <1>3, <2>1, <2>2, <3>1 DEF HoldsSlot
    <2>5. QueuedFilled'
      <3> SUFFICES ASSUME NEW i \in Slots, Queued(i)', i # tail
                   PROVE  events[i].event # <<>>
        BY <2>2 DEF QueuedFilled
      <3>1. Queued(i)
        BY <1>3, <2>1, <2>2, QueueAssumption DEF Queued, Slots, Succ
      <3> QED
        BY <3>1 DEF QueuedFilled
    <2>6. LastMotionTrue'
      BY <2>1, <2>2 DEF LastMotionTrue
    <2> QED
      BY <2>3, <2>4, <2>5, <2>6
  <1> QED
    BY <1>4, <1>5, <1>6, <1>7 DEF mieqEnqueue

-----------------------------------------------------------------------------
\* Steps that leave the ring alone keep what the invariant says of it.
LEMMA RingUnchanged ==
    ASSUME IInv, UNCHANGED queueVars
    PROVE  QueuedFilled' /\ LastMotionTrue'
  BY DEF IInv, queueVars, QueuedFilled, Queued, LastMotionTrue

\* The handler starts with a burst of some device.
LEMMA SigioOK == IInv /\ Sigio => IInv'
  <1> SUFFICES ASSUME IInv, Sigio PROVE IInv'
    OBVIOUS
  <1>1. \E d \in Devices : /\ pending' \in Seq(Event)
                           /\ poster' = d
                           /\ pEnqueueScreen' \in Screens
    <2>1. CASE \E d \in Pointers : PostPointer(d)
      BY <2>1, BurstType DEF PostPointer, IInv, TypeOK, Devices
    <2>2. CASE \E d \in Keyboards : PostKey(d)
      BY <2>2, BurstType DEF PostKey, IInv, TypeOK, Devices
    <2> QED
      BY <2>1, <2>2 DEF Sigio
  <1>2. posts' \in Nat /\ UNCHANGED <<queueVars, pDequeueScreen, mainVars>>
    BY DEF Sigio, PostPointer, PostKey, Numbered, IInv, TypeOK
  <1>3. TypeOK'
    BY <1>1, <1>2 DEF IInv, TypeOK, queueVars, mainVars
  <1>4. HoldsSlot'
    BY <1>2 DEF IInv, HoldsSlot, queueVars, mainVars
  <1> QED
    BY <1>2, <1>3, <1>4, RingUnchanged DEF IInv

\* A warp by the main thread, with the handler blocked.
LEMMA WarpOK == ASSUME IInv, NEW s \in Screens, Warp(s) PROVE IInv'
  <1>1. UNCHANGED <<queueVars, mainVars>> /\ pEnqueueScreen' \in Screens
        /\ pDequeueScreen' \in Screens
    BY DEF Warp, IInv, TypeOK
  <1>2. pending' \in Seq(Event) /\ poster' \in Devices /\ posts' \in Nat
    <2>1. CorePointer \in Devices
      BY DEF Devices
    <2>2. \A t \in Times :
             <<MakeEvent("MotionNotify", CorePointer, t)>> \in Seq(Event)
      BY <2>1, BurstType DEF IInv, TypeOK
    <2>3. CASE UNCHANGED signalVars
      BY <2>3 DEF IInv, TypeOK, signalVars
    <2>4. CASE /\ \E t \in Times : pending' =
                    <<MakeEvent("MotionNotify", CorePointer, t)>>
               /\ poster' = CorePointer /\ Numbered
      BY <2>1, <2>2, <2>4 DEF IInv, TypeOK, Numbered
    <2> QED
      BY <2>3, <2>4 DEF Warp
  <1>3. TypeOK'
    BY <1>1, <1>2 DEF IInv, TypeOK, queueVars, mainVars
  <1>4. HoldsSlot'
    BY <1>1 DEF IInv, HoldsSlot, queueVars, mainVars
  <1> QED
    BY <1>1, <1>3, <1>4, RingUnchanged DEF IInv

\* The slot the dispatcher reads holds an event.
LEMMA SlotRead ==
    ASSUME IInv, pc \in BeforePop \/ pc \in AfterPop
    PROVE  events[e] \in EventRec /\ events[e].event[1] \in Event
  <1>1. events[e] \in EventRec
    BY DEF IInv, TypeOK
  <1>2. events[e].event # <<>>
    BY HeadQueued DEF IInv, TypeOK, HoldsSlot, QueuedFilled
  <1>3. events[e].event \in Seq(Event)
    BY <1>1 DEF EventRec
  <1> QED
    BY <1>1, <1>2, <1>3

\* The steps of the dispatcher that do not move head.
LEMMA ReadOK ==
    ASSUME IInv,
           \/ Start \/ Loop \/ CompareScreen \/ SwitchScreen \/ ReadX \/ ReadY
           \/ NewCurrentScreen \/ Dispatch \/ Process
    PROVE  IInv'
  <1>1. UNCHANGED <<queueVars, pEnqueueScreen, signalVars>>
    BY DEF Start, Loop, CompareScreen, SwitchScreen, ReadX, ReadY,
           NewCurrentScreen, Dispatch, Process, UnchangedByMain, queueVars
  <1>2. QueuedFilled' /\ LastMotionTrue'
    BY <1>1, RingUnchanged
  <1> USE DEF IInv, TypeOK, queueVars, signalVars
  <1>3. CASE Start \/ CompareScreen \/ NewCurrentScreen \/ Process
    <2>1. TypeOK'
      BY <1>1, <1>3 DEF Start, CompareScreen, NewCurrentScreen, Process
    <2>2. HoldsSlot'
      BY <1>1, <1>3 DEF Start, CompareScreen, NewCurrentScreen, Process,
                        HoldsSlot, BeforePop, AfterPop
    <2> QED
      BY <1>2, <2>1, <2>2
  <1>4. CASE Loop
    <2>1. TypeOK'
      BY <1>1, <1>4 DEF Loop
    <2>2. HoldsSlot'
      BY <1>1, <1>4 DEF Loop, HoldsSlot, BeforePop, AfterPop
    <2> QED
      BY <1>2, <2>1, <2>2
  <1>5. CASE SwitchScreen \/ ReadX \/ ReadY
    <2>1. events[e] \in EventRec /\ events[e].event[1] \in Event
      BY <1>5, SlotRead DEF SwitchScreen, ReadX, ReadY, BeforePop
    <2>2. events[e].pScreen \in Screens /\ events[e].event[1].rootX \in Nat
          /\ events[e].event[1].rootY \in Nat
      BY <2>1 DEF EventRec, Event
    <2>3. TypeOK'
      BY <1>1, <1>5, <2>2 DEF SwitchScreen, ReadX, ReadY
    <2>4. HoldsSlot'
      BY <1>1, <1>5 DEF SwitchScreen, ReadX, ReadY, HoldsSlot, BeforePop, AfterPop
    <2> QED
      BY <1>2, <2>3, <2>4
  <1>6. CASE Dispatch
    <2>1. events[e].pDev \in Devices
      BY <1>6, SlotRead DEF Dispatch, AfterPop, EventRec
    <2>2. CorePointer \in Devices /\ CoreKeyboard \in Devices
      BY DEF Devices
    <2>3. dev' \in Devices
      BY <1>6, <2>1, <2>2 DEF Dispatch
    <2>4. coreFrom' \in [{CorePointer, CoreKeyboard} -> Devices]
      BY <1>6, <2>1 DEF Dispatch
    <2>5. TypeOK'
      BY <1>1, <1>6, <2>3, <2>4 DEF Dispatch
    <2>6. HoldsSlot'
      BY <1>1, <1>6 DEF Dispatch, HoldsSlot, BeforePop, AfterPop
    <2> QED
      BY <1>2, <2>5, <2>6
  <1> QED
    BY <1>3, <1>4, <1>5, <1>6

\* Popping: the slot in hand leaves the queue.
LEMMA PopOK == IInv /\ Pop => IInv'
  <1> SUFFICES ASSUME IInv, Pop PROVE IInv'
    OBVIOUS
  <1> USE DEF IInv
  <1>1. head' = Succ(head) /\ e = head /\ head # tail /\ head \in Slots
        /\ tail \in Slots
    BY DEF Pop, HoldsSlot, BeforePop, TypeOK
  <1>2. UNCHANGED <<tail, lastEventTime, lastMotion, events, pEnqueueScreen,
                    pDequeueScreen, pending, poster, posts, e, x, y, dev, coreFrom>>
    BY DEF Pop, UnchangedByMain, signalVars
  <1>3. TypeOK'
    BY <1>1, <1>2, SuccPrev DEF TypeOK, Pop
  <1>4. HoldsSlot'
    BY <1>1, <1>2, HeadQueued DEF Pop, HoldsSlot, BeforePop, AfterPop, QueuedFilled
  <1>5. QueuedFilled'
    <2> SUFFICES ASSUME NEW i \in Slots, Queued(i)' PROVE events[i].event # <<>>
      BY <1>2 DEF QueuedFilled
    <2>1. Queued(i)
      BY <1>1, <1>2, QueueAssumption DEF Queued, Slots, Succ
    <2> QED
      BY <2>1 DEF QueuedFilled
  <1>6. LastMotionTrue'
    BY <1>1, <1>2 DEF LastMotionTrue
  <1> QED
    BY <1>3, <1>4, <1>5, <1>6

-----------------------------------------------------------------------------
\* IInv is inductive.
LEMMA StepOK == IInv /\ [Next]_vars => IInv'
  <1> SUFFICES ASSUME IInv, [Next]_vars PROVE IInv'
    OBVIOUS
  <1>1. CASE Sigio
    BY <1>1, SigioOK
  <1>2. CASE mieqEnqueue
    BY <1>2, EnqueueOK
  <1>3. CASE Start \/ mieqProcessInputEvents
    BY <1>3, ReadOK, PopOK DEF mieqProcessInputEvents
  <1>4. CASE \E s \in Screens : Warp(s)
    BY <1>4, WarpOK
  <1>5. CASE UNCHANGED vars
    <2>1. TypeOK' /\ HoldsSlot'
      BY <1>5 DEF vars, queueVars, signalVars, mainVars, IInv, TypeOK, HoldsSlot
    <2> QED
      BY <1>5, <2>1, RingUnchanged DEF vars, IInv
  <1> QED
    BY <1>1, <1>2, <1>3, <1>4, <1>5 DEF Next

THEOREM Inductive == Spec => []IInv
  <1>1. Init => IInv
    BY InitOK
  <1>2. IInv /\ [Next]_vars => IInv'
    BY StepOK
  <1> QED
    BY <1>1, <1>2, PTL DEF Spec

\* Every field of the queue and every local of the dispatcher keeps its type:
\* in particular head, tail and the slot in hand stay inside the ring.
THEOREM TypeCorrect == Spec => []TypeOK
  <1>1. IInv => TypeOK
    BY DEF IInv
  <1> QED
    BY <1>1, Inductive, PTL

\* lastMotion always describes the newest queued entry (mieq.c:140-175).
THEOREM CoalescesMotionOnly == Spec => []LastMotionTrue
  <1>1. IInv => LastMotionTrue
    BY DEF IInv
  <1> QED
    BY <1>1, Inductive, PTL

\* A step that changes a slot is one of the handler's, and it spares the slot
\* the dispatcher has popped and is still reading (mieq.c:228-259).
LEMMA HandSpared ==
    IInv /\ [Next]_vars =>
        ((pc \in {"Dispatch", "Process"}) => events'[e] = events[e])
  <1> SUFFICES ASSUME IInv, [Next]_vars, pc \in {"Dispatch", "Process"}
               PROVE  events'[e] = events[e]
    OBVIOUS
  <1>1. head = Succ(e) /\ head \in Slots /\ tail \in Slots /\ e \in Slots
    BY DEF IInv, TypeOK, HoldsSlot, AfterPop
  <1>2. (head # tail => e # Prev(tail)) /\ (Succ(tail) # head => e # tail)
    BY <1>1, PoppedSlot
  <1>3. CASE mieqEnqueue
    <2> DEFINE ev == Head(pending)
    <2>1. CASE AttachValuator(ev)
      BY <1>1, <1>2, <2>1 DEF AttachValuator, ValuatorFits, IInv, TypeOK
    <2>2. CASE DropValuator(ev) \/ Toss(ev)
      BY <2>2 DEF DropValuator, Toss, queueVars
    <2>3. CASE Compress(ev)
      BY <1>1, <1>2, <2>3 DEF Compress, Coalesces, Store, IInv, TypeOK
    <2>4. CASE AppendEvent(ev)
      BY <1>1, <1>2, <2>4 DEF AppendEvent, Store, IInv, TypeOK
    <2> QED
      BY <1>3, <2>1, <2>2, <2>3, <2>4 DEF mieqEnqueue
  <1>4. CASE ~ mieqEnqueue
    <2>1. UNCHANGED events
      BY <1>4 DEF Next, vars, queueVars, Sigio, PostPointer, PostKey, Start,
                  mieqProcessInputEvents, Loop, CompareScreen, SwitchScreen,
                  ReadX, ReadY, Pop, NewCurrentScreen, Dispatch, Process, Warp,
                  UnchangedByMain
    <2> QED
      BY <2>1
  <1> QED
    BY <1>3, <1>4

THEOREM HandStable == Spec => InHandStable
  <1>1. IInv /\ [Next]_vars =>
            [(pc \in {"Dispatch", "Process"}) => events'[e] = events[e]]_vars
    BY HandSpared
  <1> QED
    BY <1>1, Inductive, PTL DEF Spec, InHandStable

-----------------------------------------------------------------------------
\* The ring as a sequence: how many entries lie between head h and tail t,
\* where the k-th of them is, and what they are.
Count(h, t) == IF h <= t THEN t - h ELSE QUEUE_SIZE - h + t
Index(h, k) == IF h + k - 1 < QUEUE_SIZE THEN h + k - 1 ELSE h + k - 1 - QUEUE_SIZE
Content(ring, h, t) == [k \in 1 .. Count(h, t) |-> ring[Index(h, k)]]

\* Two rings that differ in one slot at most.
AgreeBut(ring, new, s) == \A i \in Slots : i # s => new[i] = ring[i]

\* The k-th entries are distinct queued slots, from head to Prev(tail).
LEMMA RingWalk ==
    ASSUME NEW h \in Slots, NEW t \in Slots
    PROVE  /\ Count(h, t) \in 0 .. QUEUE_SIZE - 1
           /\ Count(h, t) = 0 <=> h = t
           /\ \A k \in 1 .. Count(h, t) : Index(h, k) \in Slots
           /\ \A j, k \in 1 .. Count(h, t) : j # k => Index(h, j) # Index(h, k)
           /\ h # t => Index(h, Count(h, t)) = Prev(t) /\ Index(h, 1) = h
           /\ \A k \in 1 .. Count(h, t) : Index(h, k) # t
  BY QueueAssumption DEF Slots, Count, Index, Prev

\* A slot more at the end of the queue, and one less at its front.
LEMMA RingPut ==
    ASSUME NEW h \in Slots, NEW t \in Slots
    PROVE  /\ Succ(t) = h <=> Count(h, t) = QUEUE_SIZE - 1
           /\ Succ(t) # h => /\ Count(h, Succ(t)) = Count(h, t) + 1
                             /\ Index(h, Count(h, t) + 1) = t
  BY QueueAssumption DEF Slots, Count, Index, Succ

LEMMA RingTake ==
    ASSUME NEW h \in Slots, NEW t \in Slots, h # t
    PROVE  /\ Count(Succ(h), t) = Count(h, t) - 1
           /\ \A k \in 1 .. Count(h, t) - 1 : Index(Succ(h), k) = Index(h, k + 1)
  BY QueueAssumption DEF Slots, Count, Index, Succ

\* Index is the code's `% QUEUE_SIZE'.
LEMMA Wrapped ==
    ASSUME NEW ring, NEW h \in Slots, NEW t \in Slots
    PROVE  [k \in 1 .. Count(h, t) |-> ring[(h + k - 1) % QUEUE_SIZE]]
              = Content(ring, h, t)
  <1>1. \A k \in 1 .. Count(h, t) : (h + k - 1) % QUEUE_SIZE = Index(h, k)
    <2> SUFFICES ASSUME NEW k \in 1 .. Count(h, t)
                 PROVE  (h + k - 1) % QUEUE_SIZE = Index(h, k)
      OBVIOUS
    <2>1. /\ QUEUE_SIZE \in Nat /\ QUEUE_SIZE > 0 /\ h \in Int /\ k \in Int
          /\ 0 <= h + k - 1 /\ h + k - 1 < 2 * QUEUE_SIZE
      BY RingWalk, QueueAssumption DEF Slots, Count
    <2>2. CASE h + k - 1 < QUEUE_SIZE
      BY <2>1, <2>2 DEF Index
    <2>3. CASE h + k - 1 >= QUEUE_SIZE
      BY <2>1, <2>3 DEF Index
    <2> QED BY <2>1, <2>2, <2>3
  <1> QED BY <1>1 DEF Content

\* The queue of the refinement is the content of the ring.
LEMMA QueueIs ==
    ASSUME head \in Slots, tail \in Slots
    PROVE  QueueLen = Count(head, tail) /\ QueueSeq = Content(events, head, tail)
  BY Wrapped DEF QueueSeq, QueueLen, Count

LEMMA QueueIsNext ==
    ASSUME head' \in Slots, tail' \in Slots
    PROVE  QueueSeq' = Content(events', head', tail')
  BY Wrapped DEF QueueSeq, QueueLen, Count

\* What the lemmas below use of a content.
IsContent(q, ring, h, t) ==
    /\ q \in Seq(EventRec)
    /\ Len(q) = Count(h, t)
    /\ \A k \in 1 .. Count(h, t) : q[k] = ring[Index(h, k)]
    /\ q = <<>> <=> h = t

LEMMA ContentIs ==
    ASSUME NEW ring \in [Slots -> EventRec], NEW h \in Slots, NEW t \in Slots
    PROVE  IsContent(Content(ring, h, t), ring, h, t)
  <1>1. /\ Count(h, t) \in Nat /\ (Count(h, t) = 0 <=> h = t)
        /\ \A k \in 1 .. Count(h, t) : Index(h, k) \in Slots
    BY RingWalk, QueueAssumption
  <1> DEFINE n == Count(h, t)
             q == Content(ring, h, t)
  <1>2. q = [k \in 1 .. n |-> ring[Index(h, k)]]
    BY DEF Content
  <1>3. \A k \in 1 .. n : ring[Index(h, k)] \in EventRec
    BY <1>1
  <1> HIDE DEF n, q
  <1>4. n \in Nat
    BY <1>1 DEF n
  <1>5. q \in Seq(EventRec) /\ Len(q) = n /\ \A k \in 1 .. n : q[k] = ring[Index(h, k)]
    BY <1>2, <1>3, <1>4
  <1>6. q = <<>> <=> n = 0
    BY <1>4, <1>5, EmptySeq
  <1> QED BY <1>1, <1>5, <1>6 DEF n, q, IsContent

\* An event stored behind the others, one stored over the newest, and the
\* oldest taken out, as changes of the sequence.
LEMMA ContentPut ==
    ASSUME NEW ring \in [Slots -> EventRec], NEW new \in [Slots -> EventRec],
           NEW h \in Slots, NEW t \in Slots, Succ(t) # h,
           AgreeBut(ring, new, t)
    PROVE  LET q == Content(ring, h, t)
               r == Content(new, h, Succ(t))
           IN  Len(r) = Len(q) + 1 /\ Fifo!Front(r) = q
  <1> DEFINE n == Count(h, t)
             q == Content(ring, h, t)
             r == Content(new, h, Succ(t))
  <1>1. Succ(t) \in Slots
    BY SuccPrev
  <1>2. n \in Nat /\ Count(h, Succ(t)) = n + 1
    BY RingWalk, RingPut, QueueAssumption
  <1>3. /\ q \in Seq(EventRec) /\ Len(q) = n
        /\ \A k \in 1 .. n : q[k] = ring[Index(h, k)]
    <2>1. IsContent(q, ring, h, t)
      BY ContentIs
    <2> QED BY <2>1 DEF IsContent
  <1>4. /\ r \in Seq(EventRec) /\ Len(r) = n + 1
        /\ \A k \in 1 .. n + 1 : r[k] = new[Index(h, k)]
    <2>1. IsContent(r, new, h, Succ(t))
      BY <1>1, ContentIs
    <2> QED BY <1>2, <2>1 DEF IsContent
  <1>5. \A k \in 1 .. n : Index(h, k) \in Slots /\ Index(h, k) # t
    BY RingWalk
  <1> HIDE DEF n, q, r
  <1>6. \A k \in 1 .. n : r[k] = q[k]
    BY <1>2, <1>3, <1>4, <1>5 DEF AgreeBut
  <1>7. Fifo!Front(r) = SubSeq(r, 1, n)
    BY <1>2, <1>4 DEF Fifo!Front
  <1>8. /\ SubSeq(r, 1, n) \in Seq(EventRec) /\ Len(SubSeq(r, 1, n)) = n
        /\ \A k \in 1 .. n : SubSeq(r, 1, n)[k] = r[k]
    BY <1>2, <1>4
  <1>9. SubSeq(r, 1, n) = q
    BY <1>3, <1>6, <1>8, SeqEqual
  <1> QED BY <1>3, <1>4, <1>7, <1>9 DEF q, r

LEMMA ContentOver ==
    ASSUME NEW ring \in [Slots -> EventRec], NEW new \in [Slots -> EventRec],
           NEW h \in Slots, NEW t \in Slots, h # t,
           AgreeBut(ring, new, Prev(t))
    PROVE  LET q == Content(ring, h, t)
               r == Content(new, h, t)
           IN  /\ q # <<>> /\ Len(r) = Len(q) /\ Fifo!Front(r) = Fifo!Front(q)
               /\ Fifo!Last(q) = ring[Prev(t)] /\ Fifo!Last(r) = new[Prev(t)]
  <1> DEFINE n == Count(h, t)
             q == Content(ring, h, t)
             r == Content(new, h, t)
  <1>1. /\ n \in Nat /\ n > 0 /\ Index(h, n) = Prev(t)
        /\ \A k \in 1 .. n : Index(h, k) \in Slots
        /\ \A j, k \in 1 .. n : j # k => Index(h, j) # Index(h, k)
    BY RingWalk, QueueAssumption
  <1>2. /\ q \in Seq(EventRec) /\ Len(q) = n /\ q # <<>>
        /\ \A k \in 1 .. n : q[k] = ring[Index(h, k)]
    <2>1. IsContent(q, ring, h, t)
      BY ContentIs
    <2> QED BY <2>1 DEF IsContent
  <1>3. /\ r \in Seq(EventRec) /\ Len(r) = n
        /\ \A k \in 1 .. n : r[k] = new[Index(h, k)]
    <2>1. IsContent(r, new, h, t)
      BY ContentIs
    <2> QED BY <2>1 DEF IsContent
  <1> HIDE DEF n, q, r
  <1> DEFINE m == n - 1
  <1>4. m \in Nat /\ m <= n /\ \A k \in 1 .. m : k \in 1 .. n /\ n \in 1 .. n /\ k # n
    BY <1>1
  <1> HIDE DEF m
  <1>5. \A k \in 1 .. m : r[k] = q[k]
    BY <1>1, <1>2, <1>3, <1>4 DEF AgreeBut
  <1>6. /\ SubSeq(r, 1, m) \in Seq(EventRec) /\ Len(SubSeq(r, 1, m)) = m
        /\ \A k \in 1 .. m : SubSeq(r, 1, m)[k] = r[k]
    BY <1>1, <1>3, <1>4
  <1>7. /\ SubSeq(q, 1, m) \in Seq(EventRec) /\ Len(SubSeq(q, 1, m)) = m
        /\ \A k \in 1 .. m : SubSeq(q, 1, m)[k] = q[k]
    BY <1>1, <1>2, <1>4
  <1>8. SubSeq(r, 1, m) = SubSeq(q, 1, m)
    BY <1>5, <1>6, <1>7, SeqEqual
  <1>9. Fifo!Front(r) = Fifo!Front(q)
    BY <1>2, <1>3, <1>8 DEF Fifo!Front, m
  <1>10. Fifo!Last(q) = ring[Prev(t)] /\ Fifo!Last(r) = new[Prev(t)]
    BY <1>1, <1>2, <1>3 DEF Fifo!Last
  <1> QED BY <1>2, <1>3, <1>9, <1>10 DEF q, r

LEMMA ContentTake ==
    ASSUME NEW ring \in [Slots -> EventRec], NEW h \in Slots, NEW t \in Slots, h # t
    PROVE  LET q == Content(ring, h, t)
           IN  /\ q # <<>> /\ Head(q) = ring[h]
               /\ Content(ring, Succ(h), t) = Tail(q)
  <1> DEFINE n == Count(h, t)
             q == Content(ring, h, t)
             r == Content(ring, Succ(h), t)
  <1>1. Succ(h) \in Slots
    BY SuccPrev
  <1>2. /\ n \in Nat /\ n > 0 /\ Index(h, 1) = h /\ Count(Succ(h), t) = n - 1
        /\ \A k \in 1 .. n - 1 : Index(Succ(h), k) = Index(h, k + 1)
    BY RingWalk, RingTake, QueueAssumption
  <1>3. /\ q \in Seq(EventRec) /\ Len(q) = n /\ q # <<>>
        /\ \A k \in 1 .. n : q[k] = ring[Index(h, k)]
    <2>1. IsContent(q, ring, h, t)
      BY ContentIs
    <2> QED BY <2>1 DEF IsContent
  <1>4. /\ r \in Seq(EventRec) /\ Len(r) = n - 1
        /\ \A k \in 1 .. n - 1 : r[k] = ring[Index(h, k + 1)]
    <2>1. IsContent(r, ring, Succ(h), t)
      BY <1>1, ContentIs
    <2> QED BY <1>2, <2>1 DEF IsContent
  <1> HIDE DEF n, q, r
  <1>5. /\ Tail(q) \in Seq(EventRec) /\ Len(Tail(q)) = n - 1
        /\ \A k \in 1 .. n - 1 : Tail(q)[k] = q[k + 1]
    BY <1>2, <1>3, HeadTailProperties
  <1>6. \A k \in 1 .. n - 1 : r[k] = Tail(q)[k]
    <2> SUFFICES ASSUME NEW k \in 1 .. n - 1 PROVE r[k] = Tail(q)[k]
      OBVIOUS
    <2>1. k + 1 \in 1 .. n
      BY <1>2
    <2> QED BY <1>3, <1>4, <1>5, <2>1
  <1>7. r = Tail(q)
    BY <1>4, <1>5, <1>6, SeqEqual
  <1>8. Head(q) = ring[h]
    BY <1>2, <1>3
  <1> QED BY <1>3, <1>7, <1>8 DEF q, r

-----------------------------------------------------------------------------
\* With one screen, nobody ever switches.
SwitchPlaces == {"Switch", "ReadX", "ReadY", "SwitchPop", "NewScreen", "Confine"}
OneScreen ==
    ~ switching =>
        /\ pEnqueueScreen = FirstScreen /\ pDequeueScreen = FirstScreen
        /\ \A i \in Slots : events[i].pScreen = FirstScreen
        /\ pc \notin SwitchPlaces

\* With several, a device posts nothing that coalesces: within a burst the
\* extension motion and the core motion alternate, and room for both was left.
\* What is left of a burst of the kinds that come:
Presses == {"DeviceButtonPress", "DeviceKeyPress", "ButtonPress", "KeyPress"}
Settled == lastMotion \in {0, CorePointer}
PressesLeft == Settled /\ \A k \in 1 .. Len(pending) : pending[k].type \in Presses
WarpLeft ==
    /\ Settled /\ pc = "Idle" /\ poster = CorePointer
    /\ Len(pending) = 1 /\ pending[1].type = "MotionNotify"
MotionLeft ==
    /\ Settled /\ poster \in Pointers /\ Count(head, tail) + 2 < QUEUE_SIZE - 1
    /\ Len(pending) = 3 /\ pending[1].type = "DeviceMotionNotify"
    /\ pending[2].type = "DeviceValuator" /\ pending[3].type = "MotionNotify"
ValuatorLeft ==
    /\ lastMotion = poster /\ poster \in Pointers
    /\ Count(head, tail) + 1 < QUEUE_SIZE - 1
    /\ Len(pending) = 2 /\ pending[1].type = "DeviceValuator"
    /\ pending[2].type = "MotionNotify"
CoreLeft ==
    /\ lastMotion = poster /\ poster \in Pointers
    /\ Count(head, tail) < QUEUE_SIZE - 1
    /\ Len(pending) = 1 /\ pending[1].type = "MotionNotify"
Bursts ==
    switching => PressesLeft \/ WarpLeft \/ MotionLeft \/ ValuatorLeft \/ CoreLeft

\* Every event posted, and every event queued, is whole.
Whole(ev) == ev.rootX = ev.rootY
DataWhole ==
    /\ \A k \in 1 .. Len(pending) : Whole(pending[k])
    /\ \A i \in Slots : events[i].event # <<>> => Whole(events[i].event[1])

\* What the dispatcher has copied from the slot in hand is still what it says.
ReadWhole ==
    /\ pc \in {"ReadX", "ReadY", "SwitchPop", "Pop", "Dispatch"} =>
          events[e].pScreen = pDequeueScreen
    /\ pc \in {"ReadY", "SwitchPop"} => x = events[e].event[1].rootX
    /\ pc = "SwitchPop" => y = events[e].event[1].rootY
    /\ pc = "NewScreen" => x = y

RInv == IInv /\ switching \in BOOLEAN /\ OneScreen /\ Bursts /\ DataWhole /\ ReadWhole
-----------------------------------------------------------------------------
LEMMA WholeInit == MCInit => RInv
  <1> SUFFICES ASSUME MCInit PROVE RInv
    OBVIOUS
  <1>1. IInv
    BY InitOK DEF MCInit
  <1>2. OneScreen
    BY DEF MCInit, Init, OneScreen, SwitchPlaces
  <1>3. Bursts
    BY DEF MCInit, Init, Bursts, PressesLeft, Settled
  <1>4. DataWhole
    BY DEF MCInit, Init, DataWhole
  <1>5. ReadWhole
    BY DEF MCInit, Init, ReadWhole
  <1> QED BY <1>1, <1>2, <1>3, <1>4, <1>5 DEF MCInit, RInv

\* The first event of a burst, and what is left after it.
LEMMA Rest ==
    ASSUME TypeOK, mieqEnqueue
    PROVE  /\ Len(pending) \in Nat /\ Len(pending) > 0 /\ pending[1] \in Event
           /\ Head(pending) = pending[1] /\ Len(pending') = Len(pending) - 1
           /\ \A k \in 1 .. Len(pending) - 1 : pending'[k] = pending[k + 1]
  <1>1. pending \in Seq(Event) /\ pending # <<>> /\ pending' = Tail(pending)
    BY DEF TypeOK, mieqEnqueue
  <1> QED BY <1>1, HeadTailProperties

\* What a step of the handler leaves of a slot: its first event, its screen
\* and its device, unless it stores the event of the step there.
Kept(i) ==
    /\ events'[i].pScreen = events[i].pScreen
    /\ events'[i].event # <<>> <=> events[i].event # <<>>
    /\ events[i].event # <<>> => events'[i].event[1] = events[i].event[1]
Stored(i, ev) ==
    /\ events'[i].pScreen = pEnqueueScreen
    /\ events'[i].event[1].rootX = ev.rootX
    /\ events'[i].event[1].rootY = ev.rootY

LEMMA AttachKeeps ==
    ASSUME IInv, NEW ev \in Event, AttachValuator(ev)
    PROVE  \A i \in Slots : Kept(i)
  <1> DEFINE last == Prev(tail)
  <1>1. head \in Slots /\ tail \in Slots /\ tail # head /\ last \in Slots
    BY SuccPrev DEF IInv, TypeOK, AttachValuator, ValuatorFits
  <1>2. events[last] \in EventRec /\ events[last].event # <<>>
    BY <1>1, NewestQueued DEF IInv, TypeOK, QueuedFilled
  <1>3. events' = [events EXCEPT ![last].event = Append(@, ev)]
    BY DEF AttachValuator
  <1>4. events'[last] = [events[last] EXCEPT !.event = Append(@, ev)]
        /\ \A i \in Slots : i # last => events'[i] = events[i]
    BY <1>1, <1>3 DEF IInv, TypeOK
  <1>5. Append(events[last].event, ev) # <<>>
        /\ Append(events[last].event, ev)[1] = events[last].event[1]
    BY <1>2 DEF EventRec
  <1>6. Kept(last)
    BY <1>2, <1>4, <1>5 DEF EventRec, Kept
  <1> QED BY <1>4, <1>6 DEF Kept

LEMMA StoreKeeps ==
    ASSUME IInv, NEW slot \in Slots, NEW ev \in Event, Store(slot, ev)
    PROVE  Stored(slot, ev) /\ \A i \in Slots : i # slot => Kept(i)
  <1>1. events'[slot] = [event |-> <<[ev EXCEPT !.time = StoredTime(ev)]>>,
                         pScreen |-> pEnqueueScreen, pDev |-> poster]
    BY DEF IInv, TypeOK, Store
  <1>2. [ev EXCEPT !.time = StoredTime(ev)].rootX = ev.rootX
        /\ [ev EXCEPT !.time = StoredTime(ev)].rootY = ev.rootY
    BY DEF Event
  <1>3. events'[slot].pScreen = pEnqueueScreen
        /\ events'[slot].event[1] = [ev EXCEPT !.time = StoredTime(ev)]
    BY <1>1
  <1>4. Stored(slot, ev)
    BY <1>2, <1>3 DEF Stored
  <1> QED BY <1>4, StoreType DEF IInv, Kept

\* The four kinds of steps of the handler.
LEMMA EnqueueKeeps ==
    ASSUME IInv, mieqEnqueue
    PROVE  \/ /\ ~ Compress(pending[1]) /\ ~ AppendEvent(pending[1])
              /\ UNCHANGED <<head, tail, lastMotion>>
              /\ \A i \in Slots : Kept(i)
           \/ /\ Compress(pending[1]) /\ UNCHANGED <<head, tail>>
              /\ lastMotion' = IsMotion(pending[1], poster)
              /\ Stored(Prev(tail), pending[1])
              /\ \A i \in Slots : i # Prev(tail) => Kept(i)
           \/ /\ AppendEvent(pending[1])
              /\ Succ(tail) # head /\ head' = head /\ tail' = Succ(tail)
              /\ lastMotion' = IsMotion(pending[1], poster)
              /\ Stored(tail, pending[1])
              /\ \A i \in Slots : i # tail => Kept(i)
  <1> DEFINE ev == pending[1]
  <1>1. ev \in Event /\ Head(pending) = ev /\ tail \in Slots /\ Prev(tail) \in Slots
    BY Rest, SuccPrev DEF IInv, TypeOK
  <1>2. CASE AttachValuator(ev)
    BY <1>1, <1>2, AttachKeeps DEF AttachValuator, Compress, AppendEvent
  <1>3. CASE DropValuator(ev) \/ Toss(ev)
    <2>1. UNCHANGED <<head, tail, lastMotion, events>>
      BY <1>3 DEF DropValuator, Toss, queueVars
    <2>2. ~ Compress(ev) /\ ~ AppendEvent(ev)
      BY <1>3 DEF DropValuator, Toss, Compress, AppendEvent
    <2> QED BY <2>1, <2>2 DEF Kept
  <1>4. CASE Compress(ev)
    BY <1>1, <1>4, StoreKeeps DEF Compress, Store
  <1>5. CASE AppendEvent(ev)
    BY <1>1, <1>5, StoreKeeps DEF AppendEvent, Store
  <1> QED BY <1>1, <1>2, <1>3, <1>4, <1>5 DEF mieqEnqueue

LEMMA MotionIds ==
    ASSUME NEW ev, NEW d
    PROVE  /\ ev.type = "MotionNotify" => IsMotion(ev, d) = CorePointer
           /\ ev.type = "DeviceMotionNotify" => IsMotion(ev, d) = d
           /\ ev.type \in Presses => IsMotion(ev, d) = 0
  BY DEF IsMotion, Presses

\* While screens switch, only the motion of a warp replaces an entry, and the
\* dispatcher is idle then.
LEMMA CompressIdle ==
    ASSUME RInv, mieqEnqueue, switching, Compress(pending[1])
    PROVE  pc = "Idle" /\ WarpLeft
  <1> DEFINE ev == pending[1]
  <1>1. IsMotion(ev, poster) # 0 /\ IsMotion(ev, poster) = lastMotion
        /\ ev.type # "DeviceValuator"
    BY DEF Compress, Coalesces
  <1>2. CorePointer \notin Pointers /\ 0 \notin Pointers /\ Len(pending) > 0
        /\ 1 \in 1 .. Len(pending)
    BY Rest, DeviceAssumption DEF RInv, IInv
  <1>3. ~ PressesLeft
    BY <1>1, <1>2, MotionIds DEF PressesLeft
  <1>4. ~ MotionLeft
    BY <1>1, <1>2, MotionIds DEF MotionLeft, Settled
  <1>5. ~ ValuatorLeft
    BY <1>1 DEF ValuatorLeft
  <1>6. ~ CoreLeft
    BY <1>1, <1>2, MotionIds DEF CoreLeft
  <1> QED BY <1>3, <1>4, <1>5, <1>6 DEF RInv, Bursts, WarpLeft

LEMMA EnqueueBursts ==
    ASSUME RInv, mieqEnqueue, UNCHANGED switching
    PROVE  Bursts'
  <1> SUFFICES ASSUME switching PROVE Bursts'
    BY DEF Bursts
  <1> DEFINE ev == pending[1]
             n == Count(head, tail)
  <1>1. /\ Len(pending) \in Nat /\ Len(pending) > 0 /\ Len(pending') = Len(pending) - 1
        /\ \A k \in 1 .. Len(pending) - 1 : pending'[k] = pending[k + 1]
    BY Rest DEF RInv, IInv
  <1>2. UNCHANGED <<poster, pc>>
    BY DEF mieqEnqueue, mainVars
  <1>3. /\ n \in Nat /\ QUEUE_SIZE \in Nat
        /\ (Succ(tail) = head <=> n = QUEUE_SIZE - 1)
        /\ (Succ(tail) # head => Count(head, Succ(tail)) = n + 1)
    BY RingWalk, RingPut, QueueAssumption DEF RInv, IInv, TypeOK
  <1>4. CorePointer \notin Pointers /\ 0 \notin Pointers
    BY DeviceAssumption
  <1>5. CASE PressesLeft
    <2>1. ev.type \in Presses
      BY <1>1, <1>5 DEF PressesLeft
    <2>2. lastMotion' \in {0, lastMotion}
      BY <2>1, MotionIds, EnqueueKeeps DEF RInv
    <2>3. \A k \in 1 .. Len(pending') : pending'[k].type \in Presses
      <3> SUFFICES ASSUME NEW k \in 1 .. Len(pending')
                   PROVE  pending'[k].type \in Presses
        OBVIOUS
      <3>1. k \in 1 .. Len(pending) - 1 /\ k + 1 \in 1 .. Len(pending)
        BY <1>1
      <3> QED BY <1>1, <1>5, <3>1 DEF PressesLeft
    <2> QED BY <1>5, <2>2, <2>3 DEF Bursts, PressesLeft, Settled
  <1>6. CASE WarpLeft \/ CoreLeft
    <2>1. lastMotion' = lastMotion \/ lastMotion' = CorePointer
      BY <1>6, MotionIds, EnqueueKeeps DEF RInv, WarpLeft, CoreLeft
    <2>2. Len(pending') = 0
      BY <1>1, <1>6 DEF WarpLeft, CoreLeft
    <2>3. CASE WarpLeft
      BY <2>1, <2>2, <2>3 DEF Bursts, PressesLeft, WarpLeft, Settled
    <2>4. CASE CoreLeft
      <3>1. ev.type = "MotionNotify" /\ IsMotion(ev, poster) = CorePointer
        BY <2>4, MotionIds DEF CoreLeft
      <3>2. ~ Coalesces(ev) /\ Succ(tail) # head
        BY <1>3, <1>4, <2>4, <3>1 DEF CoreLeft, Coalesces
      <3>3. Head(pending) = ev
        BY Rest DEF RInv, IInv
      <3>4. AppendEvent(ev)
        BY <3>1, <3>2, <3>3 DEF mieqEnqueue, AttachValuator, DropValuator, Compress, Toss
      <3>5. lastMotion' = CorePointer
        BY <3>1, <3>4 DEF AppendEvent, Store
      <3> QED BY <2>2, <3>5 DEF Bursts, PressesLeft, Settled
    <2> QED BY <1>6, <2>3, <2>4
  <1>7. CASE MotionLeft
    <2>1. ev.type = "DeviceMotionNotify" /\ IsMotion(ev, poster) = poster
          /\ poster \in Pointers
      BY <1>7, MotionIds DEF MotionLeft
    <2>2. ~ Coalesces(ev) /\ Succ(tail) # head
      BY <1>3, <1>4, <1>7, <2>1 DEF MotionLeft, Coalesces, Settled
    <2>3. Head(pending) = ev
      BY Rest DEF RInv, IInv
    <2>4. AppendEvent(ev)
      BY <2>1, <2>2, <2>3 DEF mieqEnqueue, AttachValuator, DropValuator, Compress, Toss
    <2>5. lastMotion' = poster /\ head' = head /\ tail' = Succ(tail)
      BY <2>1, <2>4 DEF AppendEvent, Store
    <2>6. Count(head', tail') + 1 < QUEUE_SIZE - 1
      BY <1>3, <1>7, <2>2, <2>5 DEF MotionLeft
    <2>7. Len(pending') = 2 /\ pending'[1] = pending[2] /\ pending'[2] = pending[3]
      BY <1>1, <1>7 DEF MotionLeft
    <2>8. ValuatorLeft'
      BY <1>2, <1>7, <2>1, <2>5, <2>6, <2>7 DEF ValuatorLeft, MotionLeft
    <2> QED BY <2>8 DEF Bursts
  <1>8. CASE ValuatorLeft
    <2>1. ev.type = "DeviceValuator"
      BY <1>8 DEF ValuatorLeft
    <2>2. UNCHANGED <<head, tail, lastMotion>>
      BY <2>1, EnqueueKeeps DEF RInv, Compress, AppendEvent
    <2>3. Len(pending') = 1 /\ pending'[1] = pending[2]
      BY <1>1, <1>8 DEF ValuatorLeft
    <2>4. CoreLeft'
      BY <1>2, <1>3, <1>8, <2>2, <2>3 DEF ValuatorLeft, CoreLeft
    <2> QED BY <2>4 DEF Bursts
  <1> QED BY <1>5, <1>6, <1>7, <1>8 DEF RInv, Bursts

LEMMA EnqueueWhole ==
    ASSUME RInv, mieqEnqueue, UNCHANGED switching
    PROVE  RInv'
  <1> DEFINE ev == pending[1]
  <1>1. IInv' /\ switching' \in BOOLEAN /\ Bursts'
    BY EnqueueOK, EnqueueBursts DEF RInv
  <1>2. UNCHANGED <<pEnqueueScreen, pDequeueScreen, pc, e, x, y>>
    BY DEF mieqEnqueue, mainVars
  <1>3. head \in Slots /\ tail \in Slots /\ e \in Slots /\ Prev(tail) \in Slots
    BY SuccPrev DEF RInv, IInv, TypeOK
  <1>4. \A i \in Slots : \/ Kept(i)
                         \/ Stored(i, ev) /\ i = tail /\ Succ(tail) # head
                         \/ Stored(i, ev) /\ Compress(ev)
    BY EnqueueKeeps DEF RInv
  <1>5. OneScreen'
    BY <1>2, <1>4 DEF RInv, OneScreen, Kept, Stored
  <1>6. DataWhole'
    <2>1. /\ Len(pending) \in Nat /\ Len(pending) > 0 /\ Len(pending') = Len(pending) - 1
          /\ \A k \in 1 .. Len(pending) - 1 : pending'[k] = pending[k + 1]
      BY Rest DEF RInv, IInv
    <2>2. \A k \in 1 .. Len(pending') : Whole(pending'[k])
      <3> SUFFICES ASSUME NEW k \in 1 .. Len(pending') PROVE Whole(pending'[k])
        OBVIOUS
      <3>1. k \in 1 .. Len(pending) - 1 /\ k + 1 \in 1 .. Len(pending)
        BY <2>1
      <3> QED BY <2>1, <3>1 DEF RInv, DataWhole
    <2>3. Whole(ev)
      BY <2>1 DEF RInv, DataWhole
    <2>4. \A i \in Slots : events'[i].event # <<>> => Whole(events'[i].event[1])
      BY <1>4, <2>3 DEF RInv, DataWhole, Kept, Stored, Whole
    <2> QED BY <2>2, <2>4 DEF DataWhole, Whole
  <1>7. ReadWhole'
    <2> SUFFICES ASSUME pc \in {"ReadX", "ReadY", "SwitchPop", "Pop", "Dispatch"}
                 PROVE  /\ events'[e].pScreen = events[e].pScreen
                        /\ pc \in SwitchPlaces => events'[e].event[1] = events[e].event[1]
      BY <1>2 DEF RInv, ReadWhole, SwitchPlaces
    <2>1. events[e].event # <<>>
      BY HeadQueued DEF RInv, IInv, TypeOK, HoldsSlot, QueuedFilled, BeforePop, AfterPop
    <2>2. ~ (e = tail /\ Succ(tail) # head)
      BY <1>3, PoppedSlot DEF RInv, IInv, HoldsSlot, BeforePop, AfterPop
    <2>3. CASE Kept(e)
      BY <2>1, <2>3 DEF Kept
    <2>4. CASE Compress(ev) /\ Stored(e, ev)
      <3>1. ~ switching
        BY <2>4, CompressIdle
      <3> QED BY <1>3, <2>4, <3>1 DEF RInv, OneScreen, Stored
    <2> QED BY <1>3, <1>4, <2>2, <2>3, <2>4
  <1> QED BY <1>1, <1>5, <1>6, <1>7 DEF RInv

\* What the bursts of a device are made of.
LEMMA PairOf ==
    ASSUME NEW a, NEW b
    PROVE  LET p == <<a>> \o <<b>>
           IN  Len(p) = 2 /\ p[1] = a /\ p[2] = b
  OBVIOUS

LEMMA CoreShape ==
    ASSUME NEW d, NEW t, NEW u, NEW v
    PROVE  LET p == <<MakeEvent(u, d, t)>> \o Core(v, d, t)
           IN  /\ Len(p) > 0
               /\ \A k \in 1 .. Len(p) : p[k] \in {MakeEvent(u, d, t), MakeEvent(v, d, t)}
  <1>1. CASE d \in CoreSending
    BY <1>1, PairOf DEF Core
  <1>2. CASE d \notin CoreSending
    BY <1>2 DEF Core
  <1> QED BY <1>1, <1>2

LEMMA MotionShape ==
    ASSUME NEW d, NEW t
    PROVE  LET p == MotionEvents(d, t)
           IN  /\ Len(p) > 0
               /\ \A k \in 1 .. Len(p) : \E u : p[k] = MakeEvent(u, d, t)
               /\ d \in CoreSending =>
                     /\ Len(p) = 3
                     /\ p[1] = MakeEvent("DeviceMotionNotify", d, t)
                     /\ p[2] = MakeEvent("DeviceValuator", d, t)
                     /\ p[3] = MakeEvent("MotionNotify", d, t)
  <1> DEFINE p == MotionEvents(d, t)
  <1>1. CASE d \in CoreSending
    <2>1. \A a, b, c : /\ Len(<<a, b>> \o <<c>>) = 3 /\ (<<a, b>> \o <<c>>)[1] = a
                       /\ (<<a, b>> \o <<c>>)[2] = b /\ (<<a, b>> \o <<c>>)[3] = c
      OBVIOUS
    <2>2. p = <<MakeEvent("DeviceMotionNotify", d, t), MakeEvent("DeviceValuator", d, t)>>
              \o <<MakeEvent("MotionNotify", d, t)>>
      BY <1>1 DEF MotionEvents, Core
    <2> HIDE DEF p
    <2>3. /\ Len(p) = 3
          /\ p[1] = MakeEvent("DeviceMotionNotify", d, t)
          /\ p[2] = MakeEvent("DeviceValuator", d, t)
          /\ p[3] = MakeEvent("MotionNotify", d, t)
      BY <2>1, <2>2
    <2>4. \A k \in 1 .. Len(p) : k \in {1, 2, 3}
      BY <2>3
    <2> QED BY <2>3, <2>4 DEF p
  <1>2. CASE d \notin CoreSending
    <2>1. p = <<MakeEvent("DeviceMotionNotify", d, t), MakeEvent("DeviceValuator", d, t)>>
      BY <1>2 DEF MotionEvents, Core
    <2>2. /\ Len(p) = 2
          /\ p[1] = MakeEvent("DeviceMotionNotify", d, t)
          /\ p[2] = MakeEvent("DeviceValuator", d, t)
      BY <2>1
    <2>3. \A k \in 1 .. Len(p) : k \in {1, 2}
      BY <2>2
    <2> QED BY <1>2, <2>2, <2>3
  <1> QED BY <1>1, <1>2

LEMMA PressShape ==
    ASSUME NEW d, NEW t, NEW p, p \in {ButtonEvents(d, t), KeyEvents(d, t)}
    PROVE  /\ Len(p) > 0
           /\ \A k \in 1 .. Len(p) : \E u \in Presses : p[k] = MakeEvent(u, d, t)
  <1>1. PICK u \in Presses, v \in Presses : p = <<MakeEvent(u, d, t)>> \o Core(v, d, t)
    BY DEF ButtonEvents, KeyEvents, Presses
  <1>2. /\ Len(p) > 0
        /\ \A k \in 1 .. Len(p) : p[k] \in {MakeEvent(u, d, t), MakeEvent(v, d, t)}
    BY <1>1, CoreShape
  <1> QED BY <1>2

\* Steps that leave the ring and the dispatcher alone.
LEMMA RingIdle ==
    ASSUME RInv, UNCHANGED <<queueVars, mainVars, switching>>
    PROVE  /\ (\A k \in 1 .. Len(pending') : Whole(pending'[k])) => DataWhole'
           /\ pDequeueScreen' = pDequeueScreen => ReadWhole'
           /\ pEnqueueScreen' = FirstScreen /\ pDequeueScreen' = pDequeueScreen
                 => OneScreen'
           /\ switching /\ pEnqueueScreen' \in Screens => OneScreen'
  BY DEF RInv, queueVars, mainVars, DataWhole, ReadWhole, OneScreen, Whole

LEMMA SigioWhole ==
    ASSUME RInv, Sigio, MCNext
    PROVE  RInv'
  <1>1. PICK d \in Pointers \cup Keyboards, t \in Times :
            /\ pending = <<>> /\ poster' = d
            /\ \/ d \in Pointers /\ pending' \in {MotionEvents(d, t), ButtonEvents(d, t)}
               \/ pending' = KeyEvents(d, t)
    BY DEF Sigio, PostPointer, PostKey
  <1>2. UNCHANGED <<queueVars, pDequeueScreen, mainVars, switching>>
    BY DEF Sigio, PostPointer, PostKey, MCNext
  <1>3. IInv' /\ pEnqueueScreen' \in Screens
    BY SigioOK DEF RInv, IInv, TypeOK
  <1>4. DataWhole'
    <2>1. \A u : Whole(MakeEvent(u, d, t))
      BY DEF MakeEvent, Whole
    <2>2. \A k \in 1 .. Len(pending') : Whole(pending'[k])
      <3>1. CASE pending' = MotionEvents(d, t)
        <4>1. \A k \in 1 .. Len(pending') : \E u : pending'[k] = MakeEvent(u, d, t)
          BY <3>1, MotionShape
        <4> QED BY <2>1, <4>1
      <3>2. CASE pending' \in {ButtonEvents(d, t), KeyEvents(d, t)}
        <4>1. \A k \in 1 .. Len(pending') :
                 \E u \in Presses : pending'[k] = MakeEvent(u, d, t)
          BY <3>2, PressShape
        <4> QED BY <2>1, <4>1
      <3> QED BY <1>1, <3>1, <3>2
    <2> QED BY <1>2, <2>2, RingIdle
  <1>5. OneScreen' /\ ReadWhole'
    BY <1>2, <1>3, RingIdle DEF MCNext, RInv
  <1>6. Bursts'
    <2> SUFFICES ASSUME switching PROVE Bursts'
      BY <1>2 DEF Bursts
    <2>1. Settled /\ UNCHANGED <<head, tail, lastMotion>>
      <3>1. lastMotion \in {0, CorePointer}
        BY <1>1 DEF RInv, Bursts, PressesLeft, WarpLeft, MotionLeft, ValuatorLeft,
                    CoreLeft, Settled
      <3> QED BY <1>2, <3>1 DEF Settled, queueVars
    <2>2. Len(pending') > 0
      BY <1>1, MotionShape, PressShape
    <2>3. pending' # <<>>
      BY <2>2
    <2>4. d \in CoreSending \cup {CorePointer} /\ Count(head, tail) + 2 < QUEUE_SIZE - 1
      BY <1>1, <2>3, QueueIs DEF MCNext, Posted, Burst, RInv, IInv, TypeOK
    <2>5. CASE d \in Pointers /\ pending' = MotionEvents(d, t)
      <3>1. d \in CoreSending
        BY <2>4, <2>5, DeviceAssumption
      <3>2. /\ Len(pending') = 3 /\ pending'[1].type = "DeviceMotionNotify"
            /\ pending'[2].type = "DeviceValuator" /\ pending'[3].type = "MotionNotify"
        <4>1. /\ Len(pending') = 3
              /\ pending'[1] = MakeEvent("DeviceMotionNotify", d, t)
              /\ pending'[2] = MakeEvent("DeviceValuator", d, t)
              /\ pending'[3] = MakeEvent("MotionNotify", d, t)
          BY <2>5, <3>1, MotionShape
        <4> QED BY <4>1 DEF MakeEvent
      <3>3. MotionLeft'
        BY <1>1, <2>1, <2>4, <2>5, <3>2 DEF MotionLeft, Settled
      <3> QED BY <3>3 DEF Bursts
    <2>6. CASE pending' \in {ButtonEvents(d, t), KeyEvents(d, t)}
      <3>1. \A u : MakeEvent(u, d, t).type = u
        BY DEF MakeEvent
      <3>2. \A k \in 1 .. Len(pending') : pending'[k].type \in Presses
        <4>1. \A k \in 1 .. Len(pending') :
                 \E u \in Presses : pending'[k] = MakeEvent(u, d, t)
          BY <2>6, PressShape
        <4> QED BY <3>1, <4>1
      <3> QED BY <2>1, <3>2 DEF Bursts, PressesLeft, Settled
    <2> QED BY <1>1, <2>5, <2>6
  <1> QED BY <1>2, <1>3, <1>4, <1>5, <1>6 DEF RInv

LEMMA WarpWhole ==
    ASSUME RInv, MCNext, NEW s \in Screens, Warp(s)
    PROVE  RInv'
  <1>1. UNCHANGED <<queueVars, mainVars, switching>> /\ pending = <<>>
        /\ pc \in {"Idle", "Process", "Confine"} /\ pEnqueueScreen' = s
    BY DEF Warp, MCNext, Running
  <1>2. IInv'
    BY WarpOK DEF RInv
  <1>3. pending' = <<>> \/ (pc = "Idle" /\ poster' = CorePointer
           /\ \E t \in Times : pending' = <<MakeEvent("MotionNotify", CorePointer, t)>>)
    BY <1>1 DEF Warp, signalVars
  <1>4. DataWhole'
    <2>1. \A t : Whole(MakeEvent("MotionNotify", CorePointer, t))
      BY DEF MakeEvent, Whole
    <2>2. \A k \in 1 .. Len(pending') : Whole(pending'[k])
      BY <1>3, <2>1
    <2> QED BY <1>1, <2>2, RingIdle
  <1>5. OneScreen'
    <2>1. CASE switching
      BY <1>1, <2>1 DEF OneScreen
    <2>2. CASE ~ switching
      <3>1. s = FirstScreen /\ s = pEnqueueScreen
        BY <1>1, <2>2 DEF MCNext, RInv, OneScreen
      <3>2. pDequeueScreen' = pDequeueScreen
        BY <3>1 DEF Warp
      <3> QED BY <1>1, <3>1, <3>2, RingIdle
    <2> QED BY <2>1, <2>2
  <1>6. ReadWhole'
    BY <1>1 DEF ReadWhole, mainVars
  <1>7. Bursts'
    <2> SUFFICES ASSUME switching PROVE Bursts'
      BY <1>1 DEF Bursts
    <2>1. lastMotion \in {0, CorePointer} /\ lastMotion' = lastMotion /\ pc' = pc
      BY <1>1 DEF RInv, Bursts, PressesLeft, WarpLeft, MotionLeft, ValuatorLeft,
                  CoreLeft, Settled, queueVars, mainVars
    <2>2. CASE pending' = <<>>
      BY <2>1, <2>2 DEF Bursts, PressesLeft, Settled
    <2>3. ASSUME NEW t \in Times, pc = "Idle", poster' = CorePointer,
                 pending' = <<MakeEvent("MotionNotify", CorePointer, t)>>
          PROVE  Bursts'
      <3>1. Len(pending') = 1 /\ pending'[1].type = "MotionNotify"
        BY <2>3 DEF MakeEvent
      <3>2. WarpLeft'
        BY <2>1, <2>3, <3>1 DEF WarpLeft, Settled
      <3> QED BY <3>2 DEF Bursts
    <2> QED BY <1>3, <2>2, <2>3
  <1> QED BY <1>1, <1>2, <1>4, <1>5, <1>6, <1>7 DEF RInv

LEMMA MainWhole ==
    ASSUME RInv, MCNext, Start \/ mieqProcessInputEvents
    PROVE  RInv'
  <1>1. UNCHANGED <<tail, lastEventTime, lastMotion, events, pEnqueueScreen,
                    pending, poster, posts, switching>> /\ pending = <<>>
    BY DEF Start, mieqProcessInputEvents, Loop, CompareScreen, SwitchScreen, ReadX,
           ReadY, Pop, NewCurrentScreen, Dispatch, Process, UnchangedByMain,
           signalVars, MCNext, Running
  <1>2. IInv'
    BY StepOK DEF RInv, Next
  <1>3. DataWhole'
    BY <1>1 DEF RInv, DataWhole, Whole
  <1>4. Bursts'
    BY <1>1 DEF RInv, Bursts, PressesLeft, WarpLeft, MotionLeft, ValuatorLeft,
                CoreLeft, Settled
  <1>5. pc \in BeforePop => events[e].event # <<>>
    BY HeadQueued DEF RInv, IInv, TypeOK, HoldsSlot, QueuedFilled
  <1>6. OneScreen'
    <2> SUFFICES ASSUME ~ switching PROVE OneScreen'
      BY <1>1 DEF OneScreen
    <2>1. e \in Slots /\ events[e].pScreen = pDequeueScreen /\ pc \notin SwitchPlaces
      BY DEF RInv, IInv, TypeOK, OneScreen
    <2>2. pDequeueScreen' = pDequeueScreen /\ pc' \notin SwitchPlaces
      BY <2>1 DEF Start, mieqProcessInputEvents, Loop, CompareScreen, SwitchScreen,
             ReadX, ReadY, Pop, NewCurrentScreen, Dispatch, Process, SwitchPlaces
    <2> QED BY <1>1, <2>2 DEF RInv, OneScreen
  <1>7. ReadWhole'
    <2> USE DEF ReadWhole
    <2>1. CASE Start \/ Loop \/ CompareScreen \/ NewCurrentScreen \/ Process
      BY <1>1, <2>1 DEF RInv, Start, Loop, CompareScreen, NewCurrentScreen, Process
    <2>2. CASE SwitchScreen \/ ReadX \/ ReadY
      BY <1>1, <2>2 DEF RInv, SwitchScreen, ReadX, ReadY
    <2>3. CASE Pop
      <3>1. e \in Slots /\ events[e].event # <<>>
        BY <1>5, <2>3 DEF RInv, IInv, TypeOK, Pop, BeforePop
      <3>2. Whole(events[e].event[1])
        BY <3>1 DEF RInv, DataWhole
      <3> QED BY <1>1, <2>3, <3>2 DEF RInv, Pop, Whole
    <2>4. CASE Dispatch
      BY <1>1, <2>4 DEF RInv, Dispatch
    <2> QED BY <2>1, <2>2, <2>3, <2>4 DEF mieqProcessInputEvents
  <1> QED BY <1>1, <1>2, <1>3, <1>4, <1>6, <1>7 DEF RInv

LEMMA WholeStep == RInv /\ [MCNext]_<<vars, switching>> => RInv'
  <1> SUFFICES ASSUME RInv, [MCNext]_<<vars, switching>> PROVE RInv'
    OBVIOUS
  <1>1. CASE MCNext
    BY <1>1, SigioWhole, EnqueueWhole, WarpWhole, MainWhole DEF MCNext, Next
  <1>2. CASE UNCHANGED <<vars, switching>>
    <2>1. UNCHANGED <<queueVars, mainVars, switching, pEnqueueScreen, pDequeueScreen,
                      pending, poster>>
      BY <1>2 DEF vars, signalVars
    <2>2. IInv'
      BY <1>2, StepOK DEF RInv
    <2>3. Bursts'
      BY <2>1 DEF RInv, Bursts, PressesLeft, WarpLeft, MotionLeft, ValuatorLeft,
                  CoreLeft, Settled, queueVars, mainVars
    <2>4. OneScreen' /\ DataWhole' /\ ReadWhole'
      BY <2>1 DEF RInv, OneScreen, DataWhole, ReadWhole, Whole, queueVars, mainVars
    <2> QED BY <2>1, <2>2, <2>3, <2>4 DEF RInv
  <1> QED BY <1>1, <1>2

-----------------------------------------------------------------------------
\* The handler touches nothing the dispatcher works on.
LEMMA HandKept ==
    ASSUME RInv, mieqEnqueue
    PROVE  InHand' = InHand
  <1>1. UNCHANGED <<pc, e, x, y, pDequeueScreen>>
    BY DEF mieqEnqueue, mainVars
  <1>2. pc \in {"Dispatch", "Process"} => events'[e] = events[e]
    BY HandSpared DEF RInv, Next
  <1> QED BY <1>1, <1>2 DEF InHand

\* Each step of the handler is a step of the FIFO, or none.
LEMMA AttachIsFifo ==
    ASSUME RInv, mieqEnqueue, AttachValuator(pending[1])
    PROVE  Fifo!Attach
  <1> DEFINE last == Prev(tail)
             v == pending[1]
             old == events[last]
             new == events'[last]
  <1>1. head \in Slots /\ tail \in Slots /\ tail # head /\ last \in Slots
        /\ head' = head /\ tail' = tail
    BY SuccPrev DEF RInv, IInv, TypeOK, AttachValuator, ValuatorFits
  <1>2. /\ events \in [Slots -> EventRec] /\ events' \in [Slots -> EventRec]
        /\ old \in EventRec /\ v \in Event
    BY <1>1, EnqueueOK, Rest DEF RInv, IInv, TypeOK
  <1>3. /\ events' = [events EXCEPT ![last].event = Append(@, v)]
        /\ Len(old.event) < NEVENTS
    BY DEF AttachValuator, ValuatorFits
  <1>4. AgreeBut(events, events', last) /\ new = [old EXCEPT !.event = Append(@, v)]
    BY <1>1, <1>2, <1>3 DEF AgreeBut
  <1>5. /\ QueueSeq # <<>> /\ Len(QueueSeq') = Len(QueueSeq)
        /\ Fifo!Front(QueueSeq') = Fifo!Front(QueueSeq)
        /\ Fifo!Last(QueueSeq) = old /\ Fifo!Last(QueueSeq') = new
    <2>1. QueueSeq = Content(events, head, tail)
          /\ QueueSeq' = Content(events', head, tail)
      BY <1>1, QueueIs, QueueIsNext
    <2> QED BY <1>1, <1>2, <1>4, <2>1, ContentOver
  <1> HIDE DEF old, new, v, last
  <1>6. old.event \in Seq(Event) /\ new.event = Append(old.event, v)
        /\ new = [old EXCEPT !.event = new.event]
    BY <1>2, <1>4 DEF EventRec
  <1>7. Fifo!Front(new.event) = old.event
    BY <1>2, <1>6, AppendProperties DEF Fifo!Front
  <1> QED BY <1>3, <1>5, <1>6, <1>7, HandKept DEF Fifo!Attach, old

LEMMA CompressIsFifo ==
    ASSUME RInv, mieqEnqueue, Compress(pending[1])
    PROVE  Fifo!Coalesce
  <1> DEFINE last == Prev(tail)
  <1>1. head \in Slots /\ tail \in Slots /\ tail # head /\ last \in Slots
        /\ tail' = tail /\ Store(last, pending[1]) /\ pending[1] \in Event
    BY Rest, SuccPrev DEF RInv, IInv, TypeOK, Compress, Coalesces
  <1>2. /\ events \in [Slots -> EventRec] /\ events' \in [Slots -> EventRec]
        /\ head' = head /\ AgreeBut(events, events', last)
        /\ EntryMotionId(events'[last]) = lastMotion'
    BY <1>1, StoreType DEF RInv, IInv, TypeOK, AgreeBut, EntryMotionId
  <1>3. lastMotion # 0 /\ lastMotion' = lastMotion
    BY <1>1 DEF Compress, Coalesces, Store
  <1>4. EntryMotionId(events[last]) = lastMotion
    BY <1>1, <1>3 DEF RInv, IInv, LastMotionTrue, EntryMotionId
  <1>5. /\ QueueSeq # <<>> /\ Len(QueueSeq') = Len(QueueSeq)
        /\ Fifo!Front(QueueSeq') = Fifo!Front(QueueSeq)
        /\ Fifo!Last(QueueSeq) = events[last] /\ Fifo!Last(QueueSeq') = events'[last]
    <2>1. QueueSeq = Content(events, head, tail)
          /\ QueueSeq' = Content(events', head, tail)
      BY <1>1, <1>2, QueueIs, QueueIsNext
    <2> QED BY <1>1, <1>2, <2>1, ContentOver
  <1> QED BY <1>2, <1>3, <1>4, <1>5, HandKept DEF Fifo!Coalesce

LEMMA AppendIsFifo ==
    ASSUME RInv, mieqEnqueue, AppendEvent(pending[1])
    PROVE  Fifo!Put
  <1>1. head \in Slots /\ tail \in Slots /\ Succ(tail) \in Slots /\ Succ(tail) # head
        /\ tail' = Succ(tail) /\ Store(tail, pending[1]) /\ pending[1] \in Event
    BY Rest, SuccPrev DEF RInv, IInv, TypeOK, AppendEvent
  <1>2. /\ events \in [Slots -> EventRec] /\ events' \in [Slots -> EventRec]
        /\ head' = head /\ AgreeBut(events, events', tail)
    BY <1>1, StoreType DEF RInv, IInv, TypeOK, AgreeBut
  <1>3. QueueSeq = Content(events, head, tail)
        /\ QueueSeq' = Content(events', head, Succ(tail))
    BY <1>1, <1>2, QueueIs, QueueIsNext
  <1>4. Len(QueueSeq') = Len(QueueSeq) + 1 /\ Fifo!Front(QueueSeq') = QueueSeq
    BY <1>1, <1>2, <1>3, ContentPut
  <1>5. Len(QueueSeq) = Count(head, tail)
    BY <1>1, <1>2, <1>3, ContentIs DEF IsContent
  <1>6. Len(QueueSeq) < QUEUE_SIZE - 1
    BY <1>1, <1>5, RingWalk, RingPut, QueueAssumption
  <1> QED BY <1>4, <1>6, HandKept DEF Fifo!Put

\* The dispatcher's steps.
LEMMA PopIsFifo ==
    ASSUME RInv, Pop
    PROVE  Fifo!TakeEvent \/ Fifo!TakeSwitch
  <1>1. head \in Slots /\ tail \in Slots /\ head # tail /\ e = head
        /\ head' = Succ(head) /\ Succ(head) \in Slots
        /\ events \in [Slots -> EventRec]
    BY SuccPrev DEF RInv, IInv, TypeOK, HoldsSlot, BeforePop, Pop
  <1>2. UNCHANGED <<tail, events, pDequeueScreen, e, x, y>>
    BY DEF Pop, UnchangedByMain
  <1>3. QueueSeq # <<>> /\ Head(QueueSeq) = events[head] /\ QueueSeq' = Tail(QueueSeq)
    <2>1. QueueSeq = Content(events, head, tail)
          /\ QueueSeq' = Content(events, Succ(head), tail)
      BY <1>1, <1>2, QueueIs, QueueIsNext
    <2> QED BY <1>1, <2>1, ContentTake
  <1>4. InHand = <<>>
    BY DEF Pop, InHand
  <1>5. CASE pc = "Pop"
    <2>1. InHand' = <<events[head]>>
      BY <1>1, <1>2, <1>5 DEF Pop, InHand
    <2> QED BY <1>3, <1>4, <2>1 DEF Fifo!TakeEvent
  <1>6. CASE pc = "SwitchPop"
    <2>1. InHand' = <<[pScreen |-> pDequeueScreen, x |-> x, y |-> y]>>
      BY <1>2, <1>6 DEF Pop, InHand
    <2>2. /\ pDequeueScreen = events[head].pScreen
          /\ x = events[head].event[1].rootX /\ y = events[head].event[1].rootY
      BY <1>1, <1>6 DEF RInv, ReadWhole
    <2> QED BY <1>3, <1>4, <2>1, <2>2 DEF Fifo!TakeSwitch
  <1> QED BY <1>5, <1>6 DEF Pop

LEMMA Untouched ==
    ASSUME UNCHANGED <<head, tail, events>>
    PROVE  QueueSeq' = QueueSeq
  BY DEF QueueSeq, QueueLen

LEMMA DoneIsFifo ==
    ASSUME RInv, NewCurrentScreen \/ Dispatch \/ Process
    PROVE  Fifo!Done \/ UNCHANGED Fifo!vars
  <1>1. QueueSeq' = QueueSeq /\ UNCHANGED <<events, e>>
    BY Untouched DEF NewCurrentScreen, Dispatch, Process, UnchangedByMain
  <1>2. CASE Dispatch /\ pc' = "Process"
    BY <1>1, <1>2 DEF Dispatch, InHand, Fifo!vars
  <1>3. CASE NewCurrentScreen /\ pc = "Confine"
    BY <1>1, <1>3 DEF NewCurrentScreen, InHand, Fifo!vars
  <1>4. CASE ~ (Dispatch /\ pc' = "Process") /\ ~ (NewCurrentScreen /\ pc = "Confine")
    <2>1. pc \in {"NewScreen", "Dispatch", "Process"} /\ pc' \in {"Idle", "Loop", "Confine"}
      BY <1>4 DEF NewCurrentScreen, Dispatch, Process
    <2>2. InHand # <<>> /\ InHand' = <<>>
      BY <2>1 DEF InHand
    <2> QED BY <1>1, <2>2 DEF Fifo!Done
  <1> QED BY <1>2, <1>3, <1>4

LEMMA OthersStutter ==
    ASSUME RInv, \/ Sigio \/ Start \/ Loop \/ CompareScreen \/ SwitchScreen
                 \/ ReadX \/ ReadY \/ \E s \in Screens : Warp(s)
    PROVE  UNCHANGED Fifo!vars
  <1>1. QueueSeq' = QueueSeq
    BY Untouched DEF Sigio, PostPointer, PostKey, Start, Loop, CompareScreen,
       SwitchScreen, ReadX, ReadY, Warp, queueVars, UnchangedByMain
  <1>2. InHand' = InHand
    <2>1. CASE Sigio
      BY <2>1 DEF Sigio, PostPointer, PostKey, queueVars, mainVars, InHand
    <2>2. CASE Start \/ Loop \/ CompareScreen \/ SwitchScreen \/ ReadX \/ ReadY
      <3>1. pc \notin AfterPop /\ pc' \notin AfterPop
        BY <2>2 DEF Start, Loop, CompareScreen, SwitchScreen, ReadX, ReadY, AfterPop
      <3> QED BY <3>1 DEF InHand, AfterPop
    <2>3. CASE \E s \in Screens : Warp(s)
      BY <2>3 DEF Warp, queueVars, mainVars, InHand
    <2> QED BY <2>1, <2>2, <2>3
  <1> QED BY <1>1, <1>2 DEF Fifo!vars

LEMMA FifoStep ==
    RInv /\ [MCNext]_<<vars, switching>> => [Fifo!Next]_(Fifo!vars)
  <1> SUFFICES ASSUME RInv, [MCNext]_<<vars, switching>>
               PROVE  [Fifo!Next]_(Fifo!vars)
    OBVIOUS
  <1>1. CASE mieqEnqueue
    <2> DEFINE ev == pending[1]
    <2>1. Head(pending) = ev
      BY <1>1, Rest DEF RInv, IInv
    <2>2. CASE AttachValuator(ev) \/ Compress(ev) \/ AppendEvent(ev)
      BY <1>1, <2>2, AttachIsFifo, CompressIsFifo, AppendIsFifo DEF Fifo!Next
    <2>3. CASE DropValuator(ev) \/ Toss(ev)
      <3>1. QueueSeq' = QueueSeq
        BY <2>3, Untouched DEF DropValuator, Toss, queueVars
      <3> QED BY <1>1, <3>1, HandKept DEF Fifo!vars
    <2> QED BY <1>1, <2>1, <2>2, <2>3 DEF mieqEnqueue
  <1>2. CASE Pop
    BY <1>2, PopIsFifo DEF Fifo!Next
  <1>3. CASE NewCurrentScreen \/ Dispatch \/ Process
    BY <1>3, DoneIsFifo DEF Fifo!Next
  <1>4. CASE \/ Sigio \/ Start \/ Loop \/ CompareScreen \/ SwitchScreen
             \/ ReadX \/ ReadY \/ \E s \in Screens : Warp(s)
    BY <1>4, OthersStutter
  <1>5. CASE UNCHANGED <<vars, switching>>
    BY <1>5, Untouched DEF vars, queueVars, mainVars, InHand, Fifo!vars
  <1> QED BY <1>1, <1>2, <1>3, <1>4, <1>5 DEF MCNext, Next, mieqProcessInputEvents

LEMMA FifoInit == MCInit => Fifo!Init
  <1> SUFFICES ASSUME MCInit PROVE Fifo!Init
    OBVIOUS
  <1>1. head = 0 /\ tail = 0 /\ pc = "Idle"
    BY DEF MCInit, Init
  <1>2. QueueSeq = <<>>
    <2>1. QueueLen = 0
      BY <1>1 DEF QueueLen
    <2> QED BY <2>1 DEF QueueSeq
  <1>3. InHand = <<>>
    BY <1>1 DEF InHand
  <1> QED BY <1>2, <1>3 DEF Fifo!Init

\* The ring buffer, filled by the handler between any two reads of the
\* dispatcher, is the bounded FIFO of InputFifo (mieq.c:98-265).
THEOREM RingIsFifo == MCSpec => ImplementsFifo
  <1>1. MCInit => RInv /\ Fifo!Init
    BY WholeInit, FifoInit
  <1>2. RInv /\ [MCNext]_<<vars, switching>> => RInv' /\ [Fifo!Next]_(Fifo!vars)
    BY WholeStep, FifoStep
  <1> QED BY <1>1, <1>2, PTL DEF MCSpec, ImplementsFifo, Fifo!Spec

\* A screen switch reaches the dispatcher before the events behind it, and with
\* the position of one event (mieq.c:217-231).
THEOREM SwitchesWhole == MCSpec => []ScreensInOrder
  <1>1. MCInit => RInv
    BY WholeInit
  <1>2. RInv /\ [MCNext]_<<vars, switching>> => RInv'
    BY WholeStep
  <1>3. RInv => ScreensInOrder
    BY DEF RInv, ReadWhole, ScreensInOrder, DispatchScreen, PositionWhole
  <1> QED BY <1>1, <1>2, <1>3, PTL DEF MCSpec

-----------------------------------------------------------------------------
\* A clock that is never set back by Window or more.
SteadyClock == \A t, u \in Times : u < t + Window

\* lastEventTime is not before the newest entry: the strengthening that orders
\* the next one behind it.
NewestTime == head # tail => events[Prev(tail)].event[1].time <= lastEventTime
TInv == IInv /\ TimesOrdered /\ NewestTime

LEMMA QueuedTime ==
    ASSUME IInv, NEW i \in Slots, Queued(i)
    PROVE  events[i].event # <<>> /\ events[i].event[1].time \in Nat
  <1>1. events[i].event # <<>> /\ events[i].event \in Seq(Event)
    BY DEF IInv, TypeOK, QueuedFilled, EventRec
  <1>2. events[i].event[1] \in Event
    BY <1>1
  <1> QED BY <1>1, <1>2, TimeAssumption DEF Event

\* The ends of the queue, walking around the ring.
LEMMA QueueEnds ==
    ASSUME head \in Slots, tail \in Slots
    PROVE  /\ ~ Queued(tail)
           /\ \A i \in Slots : Queued(i) => head # tail
  BY QueueAssumption DEF Queued, Slots

LEMMA StoredLater ==
    ASSUME SteadyClock, TypeOK, NEW slot \in Slots, NEW ev \in Event, Store(slot, ev)
    PROVE  /\ lastEventTime \in Nat /\ lastEventTime' \in Nat
           /\ lastEventTime <= lastEventTime'
           /\ events'[slot].event[1].time = lastEventTime'
  <1>1. /\ lastEventTime \in Times /\ ev.time \in Times /\ lastEventTime \in Nat
        /\ ev.time \in Nat /\ Window \in Nat /\ lastEventTime' = StoredTime(ev)
        /\ lastEventTime < ev.time + Window
    BY TimeAssumption DEF TypeOK, Event, Store, SteadyClock
  <1>2. lastEventTime' \in Nat /\ lastEventTime <= lastEventTime'
    BY <1>1 DEF StoredTime
  <1>3. events'[slot].event = <<[ev EXCEPT !.time = StoredTime(ev)]>>
    BY DEF TypeOK, Store
  <1>4. [ev EXCEPT !.time = StoredTime(ev)].time = StoredTime(ev)
    BY DEF Event
  <1>5. events'[slot].event[1] = [ev EXCEPT !.time = StoredTime(ev)]
    BY <1>3
  <1> QED BY <1>1, <1>2, <1>4, <1>5

LEMMA TimesEnqueue ==
    ASSUME SteadyClock, TInv, mieqEnqueue
    PROVE  TimesOrdered' /\ NewestTime'
  <1> DEFINE ev == pending[1]
  <1>1. /\ ev \in Event /\ TypeOK /\ IInv /\ head \in Slots /\ tail \in Slots
        /\ Succ(tail) \in Slots /\ Prev(tail) \in Slots /\ Prev(Succ(tail)) = tail
        /\ Succ(Prev(tail)) = tail
    BY Rest, SuccPrev DEF TInv, IInv, TypeOK
  <1>2. \A i \in Slots : Succ(i) \in Slots /\ Succ(i) # i /\ Prev(Succ(i)) = i
    BY SuccPrev
  <1>3. CASE /\ UNCHANGED <<head, tail, lastEventTime>>
             /\ \A i \in Slots : Kept(i)
    <2>1. \A i \in Slots : Queued(i) => events'[i].event[1] = events[i].event[1]
      BY <1>1, <1>3, QueuedTime DEF Kept
    <2>2. TimesOrdered'
      BY <1>2, <1>3, <2>1 DEF TInv, TimesOrdered, Queued, InOrder
    <2>3. NewestTime'
      BY <1>1, <1>3, <2>1, NewestQueued DEF TInv, NewestTime
    <2> QED BY <2>2, <2>3
  <1>4. CASE Compress(ev)
    <2> DEFINE last == Prev(tail)
    <2>1. /\ head # tail /\ head' = head /\ tail' = tail /\ Store(last, ev)
          /\ \A i \in Slots : i # last => events'[i] = events[i]
      BY <1>1, <1>4, StoreType DEF Compress, Coalesces, Store
    <2>2. /\ lastEventTime \in Nat /\ lastEventTime' \in Nat
          /\ lastEventTime <= lastEventTime'
          /\ events'[last].event[1].time = lastEventTime'
      BY <1>1, <2>1, StoredLater
    <2>3. events[last].event[1].time \in Nat
          /\ events[last].event[1].time <= lastEventTime
      BY <1>1, <2>1, NewestQueued, QueuedTime DEF TInv, NewestTime
    <2>4. TimesOrdered'
      <3> SUFFICES ASSUME NEW i \in Slots, Queued(i), Queued(Succ(i)), Succ(i) # head
                   PROVE  events'[i].event[1].time <= events'[Succ(i)].event[1].time
        BY <2>1 DEF TimesOrdered, Queued, InOrder
      <3>1. /\ events[i].event[1].time <= events[Succ(i)].event[1].time
            /\ events[i].event[1].time \in Nat
        BY <1>1, QueuedTime DEF TInv, TimesOrdered, InOrder
      <3>2. i # last
        BY <1>1, QueueEnds
      <3> QED BY <1>2, <2>1, <2>2, <2>3, <3>1, <3>2
    <2>5. NewestTime'
      BY <2>1, <2>2 DEF NewestTime
    <2> QED BY <2>4, <2>5
  <1>5. CASE AppendEvent(ev)
    <2>1. /\ Succ(tail) # head /\ head' = head /\ tail' = Succ(tail) /\ Store(tail, ev)
          /\ \A i \in Slots : i # tail => events'[i] = events[i]
      BY <1>1, <1>5, StoreType DEF AppendEvent, Store
    <2>2. /\ lastEventTime \in Nat /\ lastEventTime' \in Nat
          /\ lastEventTime <= lastEventTime'
          /\ events'[tail].event[1].time = lastEventTime'
      BY <1>1, <2>1, StoredLater
    <2>3. TimesOrdered'
      <3> SUFFICES ASSUME NEW i \in Slots, Queued(i)', Queued(Succ(i))', Succ(i) # head
                   PROVE  events'[i].event[1].time <= events'[Succ(i)].event[1].time
        BY <2>1 DEF TimesOrdered, InOrder
      <3>1. i # tail
        BY <1>1, <2>1, QueueAssumption DEF Queued, Slots, Succ
      <3>2. Queued(i) /\ (Succ(i) # tail => Queued(Succ(i)))
        BY <1>1, <2>1, <3>1, QueueAssumption DEF Queued, Slots, Succ
      <3>3. CASE Succ(i) = tail
        <4>1. i = Prev(tail) /\ head # tail /\ events[i].event[1].time \in Nat
              /\ events[i].event[1].time <= lastEventTime
          BY <1>1, <1>2, <3>2, <3>3, QueueEnds, QueuedTime DEF TInv, NewestTime
        <4> QED BY <2>1, <2>2, <3>1, <3>3, <4>1
      <3>4. CASE Succ(i) # tail
        BY <1>2, <2>1, <3>1, <3>2, <3>4 DEF TInv, TimesOrdered, InOrder
      <3> QED BY <3>3, <3>4
    <2>4. NewestTime'
      BY <1>1, <2>1, <2>2 DEF NewestTime
    <2> QED BY <2>3, <2>4
  <1>6. CASE AttachValuator(ev) \/ DropValuator(ev) \/ Toss(ev)
    <2>1. UNCHANGED <<head, tail, lastEventTime>>
      BY <1>6 DEF AttachValuator, DropValuator, Toss, queueVars
    <2>2. \A i \in Slots : Kept(i)
      BY <1>1, <1>6, AttachKeeps DEF DropValuator, Toss, queueVars, Kept
    <2> QED BY <1>3, <2>1, <2>2
  <1>7. Head(pending) = ev
    BY Rest DEF TInv, IInv
  <1> QED BY <1>4, <1>5, <1>6, <1>7 DEF mieqEnqueue

LEMMA TimesStep ==
    ASSUME SteadyClock, TInv, [Next]_vars
    PROVE  TInv'
  <1>1. IInv'
    BY StepOK DEF TInv
  <1>2. CASE mieqEnqueue
    BY <1>1, <1>2, TimesEnqueue DEF TInv
  <1>3. CASE Pop
    <2>1. /\ head' = Succ(head) /\ UNCHANGED <<tail, events, lastEventTime>>
          /\ head \in Slots /\ tail \in Slots /\ head # tail
      BY <1>3 DEF Pop, UnchangedByMain, TInv, IInv, TypeOK, HoldsSlot, BeforePop
    <2>2. \A i \in Slots : Succ(i) \in Slots /\ Queued(i)' => Queued(i) /\ i # head
      BY <2>1, QueueAssumption DEF Queued, Slots, Succ
    <2>3. TimesOrdered'
      BY <2>1, <2>2, SuccPrev DEF TInv, TimesOrdered, InOrder
    <2>4. NewestTime'
      BY <2>1 DEF TInv, NewestTime
    <2> QED BY <1>1, <2>3, <2>4 DEF TInv
  <1>4. CASE ~ mieqEnqueue /\ ~ Pop
    <2>1. UNCHANGED <<head, tail, events, lastEventTime>>
      BY <1>4 DEF Next, vars, queueVars, Sigio, PostPointer, PostKey, Start,
                  mieqProcessInputEvents, Loop, CompareScreen, SwitchScreen,
                  ReadX, ReadY, NewCurrentScreen, Dispatch, Process, Warp,
                  UnchangedByMain
    <2>2. TimesOrdered' /\ NewestTime'
      BY <2>1 DEF TInv, TimesOrdered, InOrder, Queued, NewestTime
    <2> QED BY <1>1, <2>2 DEF TInv
  <1> QED BY <1>2, <1>3, <1>4

\* With a clock that is never set back by Window or more, the queue is in order
\* of time at every moment (mieq.c:163).
THEOREM TimesForward ==
    ASSUME SteadyClock
    PROVE  Spec => []TimesOrdered
  <1>1. Init => TInv
    <2> SUFFICES ASSUME Init PROVE TInv
      OBVIOUS
    <2>1. IInv /\ head = 0 /\ tail = 0
      BY InitOK DEF Init
    <2>2. \A i \in Slots : ~ Queued(i)
      BY <2>1 DEF Queued, Slots
    <2> QED BY <2>1, <2>2 DEF TInv, TimesOrdered, NewestTime
  <1>2. TInv /\ [Next]_vars => TInv'
    BY TimesStep
  <1>3. TInv => TimesOrdered
    BY DEF TInv
  <1> QED BY <1>1, <1>2, <1>3, PTL DEF Spec

-----------------------------------------------------------------------------
(* KdMouse: the events of a pointer. *)

\* What the machine is given, and what it holds: hold leaves before the next
\* state is entered, so that a press of the button 1 or 3 is held in state start
\* and no other row of the table but that of button_2_down is ever used.
Given ==
    {ev \in Events : ev.type = "Motion" \/ ev.b \in Buttons} \cup {NoEvent}
Holds(ev) == ev.type = "Press" /\ ev.b \in {1, 3}
Held == {ev \in Given : Holds(ev)} \cup {NoEvent}
Reached == {"start", "button_2_down"}
Machines ==
    [mouseState : Reached, eventHeld : BOOLEAN, heldEvent : Held,
     timeoutPending : {FALSE}, emulationTimeout : Nat]
Results ==
    [m : Machines, out : Seq(Events), logical : SUBSET Buttons,
     stolen : BOOLEAN]

MouseInv ==
    /\ MouseTypeOK
    /\ machine \in Machines
    /\ logical \ Emulated = buttonState \ Emulated

-----------------------------------------------------------------------------
(* One event. *)

LEMMA GivenIs ==
    ASSUME NEW ev \in Given
    PROVE  \/ ev = NoEvent
           \/ /\ ev \in Events
              /\ ev.type \in {"Motion", "Press", "Release"}
              /\ ev.type # "Motion" => ev.b \in Buttons
BY DEF Given, Events

LEMMA MachineTypes ==
    Machines \subseteq [mouseState : States, eventHeld : BOOLEAN,
                        heldEvent : Events \cup {NoEvent},
                        timeoutPending : BOOLEAN, emulationTimeout : Nat]
<1>1. Held \subseteq Events \cup {NoEvent}
    BY DEF Held, Given
<1>2. Reached \subseteq States
    BY DEF Reached, States
<1> QED
    BY <1>1, <1>2 DEF Machines

LEMMA Enqueued ==
    ASSUME NEW r \in Results, NEW ev \in Given
    PROVE  /\ Enqueue(r, ev) \in Results
           /\ Enqueue(r, ev).logical = Apply(r.logical, ev)
           /\ Enqueue(r, ev).m = r.m
           /\ Enqueue(r, ev).stolen = r.stolen
<1>1. CASE ev = NoEvent
    BY <1>1 DEF Enqueue, Apply, NoEvent, Results
<1>2. CASE ev \in Events /\ ev # NoEvent
    <2>1. /\ ev.type \in {"Motion", "Press", "Release"}
          /\ ev.type # "Motion" => ev.b \in Buttons
        BY <1>2, GivenIs
    <2>2. /\ r.out \in Seq(Events) /\ r.logical \in SUBSET Buttons
          /\ r = [m |-> r.m, out |-> r.out, logical |-> r.logical, stolen |-> r.stolen]
          /\ r.m \in Machines /\ r.stolen \in BOOLEAN
        BY DEF Results
    <2>3. Append(r.out, ev) \in Seq(Events)
        BY <1>2, <2>2
    <2>4. Apply(r.logical, ev) \in SUBSET Buttons
        BY <2>1, <2>2 DEF Apply
    <2>5. Enqueue(r, ev) =
              [m |-> r.m, out |-> Append(r.out, ev),
               logical |-> Apply(r.logical, ev), stolen |-> r.stolen]
        BY <2>1, <2>2 DEF Enqueue
    <2> QED
        BY <2>2, <2>3, <2>4, <2>5 DEF Results
<1> QED
    BY <1>1, <1>2, GivenIs

\* Three things can be done in a state that is reached.
LEMMA Rows ==
    ASSUME NEW s \in Reached, NEW c \in Classes
    PROVE  LET t == Transition(s, c)
           IN  \/ c \in {"down_1", "down_3"} /\ t.first = "hold"
               \/ t.first = "deliver" /\ t.second = "noop" /\ t.next \in Reached
               \/ t.first = "noop" /\ t.second = "noop" /\ t.next \in Reached
<1>1. CASE s = "start"
    BY <1>1 DEF Transition, Classes, Deliver, Ignore, To, Reached
<1>2. CASE s = "button_2_down"
    <2>1. Transition(s, c) = DownRow(c, "down_2", "up_2", "button_2_down")
        BY <1>2 DEF Transition
    <2> QED
        BY <2>1 DEF DownRow, Classes, Deliver, Ignore, To, Reached
<1> QED
    BY <1>1, <1>2 DEF Reached

LEMMA ClassIs ==
    ASSUME NEW m \in Machines, NEW ev \in Given
    PROVE  /\ KdClassifyInput(m, ev) \in Classes
           /\ KdClassifyInput(m, ev) \in {"down_1", "down_3"} => Holds(ev)
<1>1. CASE ev = NoEvent
    BY <1>1 DEF KdClassifyInput, NoEvent, Classes
<1>2. CASE ev.type = "Press"
    BY <1>2 DEF KdClassifyInput, PressClass, Classes, Holds
<1>3. CASE ev.type = "Release"
    BY <1>3 DEF KdClassifyInput, ReleaseClass, Classes
<1>4. CASE ev.type = "Motion"
    BY <1>4 DEF KdClassifyInput, Classes
<1> QED
    BY <1>1, <1>2, <1>3, <1>4, GivenIs

\* The machine posts no more than what it holds, and swallows what it is to hold.
LEMMA MachineRuns ==
    ASSUME NEW r \in Results, NEW ev \in Given
    PROVE  LET done == KdRunMouseMachine(r, ev)
           IN  /\ done \in Results
               /\ done.logical \ {1, 2, 3} = r.logical \ {1, 2, 3}
               /\ done.stolen => Holds(ev)
<1> DEFINE c  == KdClassifyInput(r.m, ev)
           t  == Transition(r.m.mouseState, c)
           r0 == [r EXCEPT !.stolen = FALSE]
           r1 == Act(r0, t.first, ev)
           r2 == Act(r1, t.second, ev)
           done == KdRunMouseMachine(r, ev)
<1>1. r.m \in Machines /\ r.m.mouseState \in Reached /\ r.m.heldEvent \in Held
    BY DEF Results, Machines
<1>2. c \in Classes /\ (c \in {"down_1", "down_3"} => Holds(ev))
    BY <1>1, ClassIs
<1>3. r0 \in Results /\ r0.m = r.m /\ r0.logical = r.logical /\ r0.stolen = FALSE
    BY DEF Results
<1>4. \/ Holds(ev) /\ t.first = "hold"
      \/ t.first = "deliver" /\ t.second = "noop" /\ t.next \in Reached
      \/ t.first = "noop" /\ t.second = "noop" /\ t.next \in Reached
    <2> HIDE DEF c
    <2> QED
        BY <1>1, <1>2, Rows
<1>5. done = IF r2.stolen THEN r2 ELSE [r2 EXCEPT !.m.mouseState = t.next]
    BY DEF KdRunMouseMachine
<1> HIDE DEF r0, t, c, done
<1>6. CASE Holds(ev) /\ t.first = "hold"
    <2>1. r1 = [r0 EXCEPT !.m.eventHeld = TRUE, !.m.heldEvent = ev, !.stolen = TRUE]
        BY <1>3, <1>6 DEF Act
    <2>2. ev \in Held
        BY <1>6 DEF Held
    <2> DEFINE m1 == [r0.m EXCEPT !.eventHeld = TRUE, !.heldEvent = ev]
    <2>3. r1 \in Results /\ r1.logical = r.logical /\ r1.stolen = TRUE
        <3>1. m1 \in Machines
            BY <1>1, <1>3, <2>2 DEF Machines
        <3>2. r1 = [r0 EXCEPT !.m = m1, !.stolen = TRUE]
            BY <2>1
        <3> HIDE DEF m1, r1
        <3> QED
            BY <1>3, <3>1, <3>2 DEF Results
    <2> HIDE DEF r1
    <2>4. r2 = r1
        BY <2>3 DEF Act
    <2> QED
        BY <1>5, <1>6, <2>3, <2>4 DEF done
<1>7. ASSUME r1 \in Results, r1.stolen = FALSE, t.second = "noop", t.next \in Reached,
             r1.logical \ {1, 2, 3} = r.logical \ {1, 2, 3}
      PROVE  /\ done \in Results
             /\ done.logical \ {1, 2, 3} = r.logical \ {1, 2, 3}
             /\ done.stolen => Holds(ev)
    <2>1. r2 = r1
        BY <1>7 DEF Act
    <2>2. done = [r1 EXCEPT !.m.mouseState = t.next]
        BY <1>5, <1>7, <2>1
    <2> HIDE DEF r1
    <2>3. done \in Results /\ done.logical = r1.logical /\ done.stolen = FALSE
        BY <1>7, <2>2 DEF Results, Machines
    <2> QED
        BY <1>7, <2>3
<1>8. CASE t.first = "noop" /\ t.second = "noop" /\ t.next \in Reached
    <2>1. r1 = r0
        BY <1>3, <1>8 DEF Act
    <2> HIDE DEF r1
    <2> QED
        BY <1>3, <1>7, <1>8, <2>1 DEF done
<1>9. CASE t.first = "deliver" /\ t.second = "noop" /\ t.next \in Reached
    <2>1. r1 = Enqueue(r0, r0.m.heldEvent)
        BY <1>3, <1>9 DEF Act
    <2>2. r0.m.heldEvent \in Given /\ r0.m.heldEvent \in Held
        BY <1>1, <1>3 DEF Held, Given
    <2>3. /\ r1 \in Results /\ r1.stolen = FALSE
          /\ r1.logical = Apply(r.logical, r0.m.heldEvent)
        BY <1>3, <2>1, <2>2, Enqueued
    <2>4. r1.logical \ {1, 2, 3} = r.logical \ {1, 2, 3}
        BY <2>2, <2>3 DEF Held, Holds, Apply, NoEvent
    <2> HIDE DEF r1
    <2> QED
        BY <1>7, <1>9, <2>3, <2>4 DEF done
<1> QED
    BY <1>4, <1>6, <1>8, <1>9 DEF done

\* A key or a timeout does nothing in the states that are reached.
LEMMA KeyRuns ==
    ASSUME NEW r \in Results
    PROVE  KdRunMouseMachine(r, NoEvent) = [r EXCEPT !.stolen = FALSE]
<1> DEFINE r0 == [r EXCEPT !.stolen = FALSE]
           s  == r.m.mouseState
<1>1. KdClassifyInput(r.m, NoEvent) = "keyboard"
    BY DEF KdClassifyInput, NoEvent
<1>2. s \in Reached /\ r.m \in Machines
    BY DEF Results, Machines
<1>3. Transition(s, "keyboard") = Ignore(s)
    BY <1>2 DEF Transition, DownRow, Reached
<1>4. /\ Transition(s, "keyboard").first = "noop"
      /\ Transition(s, "keyboard").second = "noop"
      /\ Transition(s, "keyboard").next = s
    BY <1>3 DEF Ignore, To
<1>5. r0.stolen = FALSE /\ r0.m = r.m /\ r0 \in Results
    BY DEF Results
<1> HIDE DEF r0
<1>6. Act(r0, "noop", NoEvent) = r0
    BY <1>5 DEF Act
<1>7. KdRunMouseMachine(r, NoEvent) = [r0 EXCEPT !.m.mouseState = s]
    BY <1>1, <1>4, <1>5, <1>6 DEF KdRunMouseMachine, r0
<1>8. [r0 EXCEPT !.m.mouseState = s] = r0
    BY <1>2, <1>5 DEF Results, Machines
<1> QED
    BY <1>7, <1>8 DEF r0

\* An event of the device reaches the server but for the emulated buttons.
LEMMA EventPosted ==
    ASSUME NEW r \in Results, NEW ev \in Given, emulate \in BOOLEAN
    PROVE  LET next == _KdEnqueuePointerEvent(r, ev)
           IN  /\ next \in Results
               /\ next.logical \ Emulated = Apply(r.logical, ev) \ Emulated
<1> DEFINE done == IF emulate THEN KdRunMouseMachine(r, ev)
                              ELSE [r EXCEPT !.stolen = FALSE]
           next == _KdEnqueuePointerEvent(r, ev)
<1>1. /\ done \in Results
      /\ done.logical \ Emulated = r.logical \ Emulated
      /\ done.stolen => Holds(ev) /\ emulate
    <2>1. CASE emulate
        BY <2>1, MachineRuns DEF Emulated
    <2>2. CASE ~ emulate
        BY <2>2 DEF Results
    <2> QED
        BY <2>1, <2>2
<1>2. next = IF done.stolen THEN done ELSE Enqueue(done, ev)
    BY DEF _KdEnqueuePointerEvent
<1> HIDE DEF done, next
<1>3. CASE done.stolen
    <2>1. next = done
        BY <1>2, <1>3
    <2>2. Apply(r.logical, ev) \ Emulated = r.logical \ Emulated
        BY <1>1, <1>3 DEF Apply, Holds, Emulated
    <2> QED
        BY <1>1, <2>1, <2>2 DEF next
<1>4. CASE ~ done.stolen
    <2>1. next = Enqueue(done, ev)
        BY <1>2, <1>4
    <2>2. next \in Results /\ next.logical = Apply(done.logical, ev)
        BY <1>1, <2>1, Enqueued
    <2>3. Apply(done.logical, ev) \ Emulated
              = Apply(r.logical, ev) \ Emulated
        BY <1>1 DEF Apply
    <2> QED
        BY <2>2, <2>3 DEF next
<1> QED
    BY <1>3, <1>4

-----------------------------------------------------------------------------
(* The events of a report. *)

LEMMA Least ==
    ASSUME NEW S \in SUBSET Nat, S # {}
    PROVE  \E i \in S : \A j \in S : i <= j
<1> DEFINE R == OpToRel(<, Nat)
<1>1. IsWellFoundedOn(R, Nat)
    BY NatLessThanWellFounded
<1>2. \A i, j \in Nat : i < j => <<i, j>> \in R
    BY DEF OpToRel
<1> HIDE DEF R
<1>3. PICK i \in S : \A j \in S : <<j, i>> \notin R
    BY <1>1, WFMin
<1>4. ASSUME NEW j \in S PROVE i <= j
    <2>1. i \in Nat /\ j \in Nat /\ ~(j < i)
        BY <1>2, <1>3
    <2> QED
        BY <2>1
<1> QED
    BY <1>4

\* What one loop over the buttons goes through: `after' is a function of how far
\* it has come, and there is one because there is one for every shorter way.
LEMMA LoopGoes ==
    ASSUME NEW r, NEW type, NEW S, NEW px
    PROVE  \E after :
              /\ after[0] = r
              /\ \A n \in 1 .. nButtons :
                    after[n] = IF n \in S
                               THEN _KdEnqueuePointerEvent(
                                        after[n - 1], PointerEvent(type, px, n))
                               ELSE after[n - 1]
              /\ EachButton(r, type, S, px) = after[nButtons]
<1> DEFINE step(f, n) ==
               IF n = 0 THEN r
               ELSE IF n \in S
                    THEN _KdEnqueuePointerEvent(f[n - 1], PointerEvent(type, px, n))
                    ELSE f[n - 1]
           Goes(k) == \E f : f = [n \in 0 .. k |-> step(f, n)]
           after == CHOOSE f : f = [n \in 0 .. nButtons |-> step(f, n)]
<1>0. nButtons \in Nat
    BY MouseAssumption
<1>1. \A k \in Nat : Goes(k)
    <2> DEFINE B == {k \in Nat : ~ Goes(k)}
    <2> SUFFICES ASSUME B # {} PROVE FALSE
        OBVIOUS
    <2> HIDE DEF Goes
    <2>1. PICK k \in B : \A j \in B : k <= j
        <3>1. B \in SUBSET Nat
            OBVIOUS
        <3> HIDE DEF B
        <3> QED
            BY <3>1, Least
    <2>2. k \in Nat /\ ~ Goes(k)
        OBVIOUS
    <2>3. CASE k = 0
        <3> DEFINE g == [n \in 0 .. 0 |-> r]
        <3>1. g = [n \in 0 .. 0 |-> step(g, n)]
            OBVIOUS
        <3> HIDE DEF g
        <3> QED
            BY <2>2, <2>3, <3>1 DEF Goes
    <2>4. CASE k # 0
        <3>1. k - 1 \in Nat /\ k - 1 \notin B
            BY <2>1, <2>2, <2>4
        <3>2. Goes(k - 1)
            BY <3>1
        <3>3. PICK f : f = [n \in 0 .. k - 1 |-> step(f, n)]
            BY <3>2 DEF Goes
        <3> DEFINE g == [n \in 0 .. k |-> IF n = k THEN step(f, k) ELSE f[n]]
        <3>4. \A n \in 0 .. k : g[n] = step(g, n)
            <4> SUFFICES ASSUME NEW n \in 0 .. k PROVE g[n] = step(g, n)
                OBVIOUS
            <4>1. CASE n = 0
                BY <2>2, <2>4, <3>3, <4>1
            <4>2. CASE n # 0 /\ n # k
                <5>1. n \in 0 .. k - 1 /\ n - 1 \in 0 .. k - 1 /\ n - 1 # k /\ n - 1 \in 0 .. k
                    BY <2>2, <4>2
                <5>2. f[n] = step(f, n)
                    BY <3>3, <5>1
                <5>3. g[n] = f[n] /\ g[n - 1] = f[n - 1]
                    BY <4>2, <5>1
                <5> HIDE DEF g
                <5> QED
                    BY <4>2, <5>2, <5>3
            <4>3. CASE n = k
                <5>1. k - 1 \in 0 .. k /\ k - 1 # k
                    BY <2>2, <2>4
                <5>2. g[k] = step(f, k) /\ g[k - 1] = f[k - 1]
                    BY <2>2, <5>1
                <5> HIDE DEF g
                <5> QED
                    BY <2>4, <4>3, <5>2
            <4> QED
                BY <4>1, <4>2, <4>3
        <3>5. g = [n \in 0 .. k |-> step(g, n)]
            BY <3>4
        <3> HIDE DEF g
        <3> QED
            BY <2>2, <3>5 DEF Goes
    <2> QED
        BY <2>3, <2>4
<1>2. after = [n \in 0 .. nButtons |-> step(after, n)]
    <2>1. Goes(nButtons)
        BY <1>0, <1>1
    <2> QED
        BY <2>1
<1>3. EachButton(r, type, S, px) = after[nButtons]
    BY DEF EachButton
<1> HIDE DEF after
<1>4. after[0] = r
    BY <1>0, <1>2
<1>5. ASSUME NEW n \in 1 .. nButtons
      PROVE  after[n] = IF n \in S
                        THEN _KdEnqueuePointerEvent(
                                 after[n - 1], PointerEvent(type, px, n))
                        ELSE after[n - 1]
    <2>1. n \in 0 .. nButtons /\ n # 0
        BY <1>0
    <2> QED
        BY <1>2, <2>1
<1> QED
    BY <1>3, <1>4, <1>5

\* What one loop over the buttons makes of those the server holds to be down.
LEMMA ButtonsPosted ==
    ASSUME NEW r \in Results, NEW type \in {"Press", "Release"},
           NEW S \in SUBSET Buttons, NEW px \in Positions, emulate \in BOOLEAN
    PROVE  LET done == EachButton(r, type, S, px)
               made == IF type = "Press" THEN r.logical \cup S ELSE r.logical \ S
           IN  done \in Results /\ done.logical \ Emulated = made \ Emulated
<1> DEFINE part(n) == S \cap (1 .. n)
           made(n) == IF type = "Press" THEN r.logical \cup part(n) ELSE r.logical \ part(n)
<1>0. nButtons \in Nat /\ S \subseteq 1 .. nButtons
    BY MouseAssumption DEF Buttons
<1>1. PICK after :
         /\ after[0] = r
         /\ \A n \in 1 .. nButtons :
               after[n] = IF n \in S
                          THEN _KdEnqueuePointerEvent(
                                   after[n - 1], PointerEvent(type, px, n))
                          ELSE after[n - 1]
         /\ EachButton(r, type, S, px) = after[nButtons]
    BY LoopGoes
<1> DEFINE Good(n) == /\ after[n] \in Results
                      /\ after[n].logical \ Emulated = made(n) \ Emulated
<1>2. Good(0)
    <2>1. part(0) = {}
        BY <1>0
    <2> HIDE DEF part
    <2> QED
        BY <1>1, <2>1
<1>3. ASSUME NEW n \in 1 .. nButtons, Good(n - 1) PROVE Good(n)
    <2>0. n \in Nat /\ n - 1 \in Nat /\ n \in Buttons
        BY <1>0 DEF Buttons
    <2>1. CASE n \notin S
        <3>1. part(n) = part(n - 1)
            BY <1>0, <2>0, <2>1
        <3>2. after[n] = after[n - 1]
            BY <1>1, <2>1
        <3> HIDE DEF part
        <3> QED
            BY <1>3, <3>1, <3>2
    <2>2. CASE n \in S
        <3> DEFINE ev == PointerEvent(type, px, n)
        <3>1. part(n) = part(n - 1) \cup {n}
            BY <1>0, <2>0, <2>2
        <3>2. after[n] = _KdEnqueuePointerEvent(after[n - 1], ev)
            BY <1>1, <2>2
        <3>3. ev \in Given /\ ev.type = type /\ ev.b = n
            BY <2>0 DEF PointerEvent, Events, Given
        <3> HIDE DEF part, ev
        <3>4. /\ after[n] \in Results
              /\ after[n].logical \ Emulated
                     = Apply(after[n - 1].logical, ev) \ Emulated
            BY <1>3, <3>2, <3>3, EventPosted
        <3>5. Apply(after[n - 1].logical, ev) \ Emulated
                  = made(n) \ Emulated
            <4>1. CASE type = "Press"
                BY <1>3, <3>1, <3>3, <4>1 DEF Apply
            <4>2. CASE type = "Release"
                BY <1>3, <3>1, <3>3, <4>2 DEF Apply
            <4> QED
                BY <4>1, <4>2
        <3> QED
            BY <3>4, <3>5
    <2> QED
        BY <2>1, <2>2
<1>4. Good(nButtons)
    <2> DEFINE B == {n \in 0 .. nButtons : ~ Good(n)}
    <2> SUFFICES ASSUME B # {} PROVE FALSE
        BY <1>0
    <2> HIDE DEF Good
    <2>1. PICK k \in B : \A j \in B : k <= j
        <3>1. B \in SUBSET Nat
            BY <1>0
        <3> HIDE DEF B
        <3> QED
            BY <3>1, Least
    <2>2. k # 0
        BY <1>2
    <2>3. k - 1 \in 0 .. nButtons /\ ~(k <= k - 1) /\ k \in 1 .. nButtons
        BY <1>0, <2>2
    <2>4. Good(k - 1)
        BY <2>1, <2>3
    <2> QED
        BY <1>3, <2>3, <2>4
<1>5. part(nButtons) = S
    BY <1>0
<1> HIDE DEF part
<1> QED
    BY <1>1, <1>4, <1>5

LEMMA ReportStep ==
    ASSUME MouseInv, KdEnqueuePointerEvent
    PROVE  MouseInv'
<1>0. /\ emulate \in BOOLEAN /\ now \in Nat /\ emulate' = emulate /\ now' = now
      /\ buttonState \subseteq Buttons /\ logical \subseteq Buttons
      /\ machine \in Machines
      /\ logical \ Emulated = buttonState \ Emulated
    BY DEF MouseInv, MouseTypeOK, KdEnqueuePointerEvent
<1>1. PICK px \in Positions, down \in SUBSET Buttons :
         LET moved    == _KdEnqueuePointerEvent(
                             Idle(machine), PointerEvent("Motion", px, 0))
             released == EachButton(moved, "Release", buttonState \ down, px)
         IN  /\ Result(EachButton(released, "Press", down \ buttonState, px))
             /\ buttonState' = down /\ position' = px
    BY DEF KdEnqueuePointerEvent
<1> DEFINE motion   == PointerEvent("Motion", px, 0)
           moved    == _KdEnqueuePointerEvent(Idle(machine), motion)
           released == EachButton(moved, "Release", buttonState \ down, px)
           pressed  == EachButton(released, "Press", down \ buttonState, px)
<1>2. Idle(machine) \in Results /\ Idle(machine).logical = logical
    BY <1>0 DEF Idle, Results
<1>3. motion \in Given /\ motion.type = "Motion"
    BY DEF PointerEvent, Events, Given
<1>4. Result(pressed) /\ buttonState' = down /\ position' = px
    BY <1>1
<1> HIDE DEF motion
<1>5. moved \in Results /\ moved.logical \ Emulated = logical \ Emulated
    <2>1. Apply(Idle(machine).logical, motion) = logical
        BY <1>2, <1>3 DEF Apply
    <2> QED
        BY <1>0, <1>2, <1>3, <2>1, EventPosted
<1> HIDE DEF moved
<1>6. /\ released \in Results
      /\ released.logical \ Emulated
             = (moved.logical \ (buttonState \ down)) \ Emulated
    <2>1. buttonState \ down \in SUBSET Buttons
        BY <1>0
    <2>2. \A S \in SUBSET Buttons :
             LET done == EachButton(moved, "Release", S, px)
             IN  /\ done \in Results
                 /\ done.logical \ Emulated = (moved.logical \ S) \ Emulated
        BY <1>0, <1>5, ButtonsPosted
    <2> QED
        BY <2>1, <2>2
<1> HIDE DEF released
<1>7. /\ pressed \in Results
      /\ pressed.logical \ Emulated
             = (released.logical \cup (down \ buttonState)) \ Emulated
    <2>1. down \ buttonState \in SUBSET Buttons
        OBVIOUS
    <2>2. \A S \in SUBSET Buttons :
             LET done == EachButton(released, "Press", S, px)
             IN  /\ done \in Results
                 /\ done.logical \ Emulated = (released.logical \cup S) \ Emulated
        BY <1>0, <1>6, ButtonsPosted
    <2> QED
        BY <2>1, <2>2
<1> HIDE DEF pressed
<1>8. /\ machine' \in Machines /\ out' \in Seq(Events)
      /\ logical' \in SUBSET Buttons /\ logical' = pressed.logical
    BY <1>4, <1>7 DEF Result, Results
<1>9. logical' \ Emulated = buttonState' \ Emulated
    BY <1>0, <1>4, <1>5, <1>6, <1>7, <1>8
<1> QED
    BY <1>0, <1>4, <1>8, <1>9, MachineTypes DEF MouseInv, MouseTypeOK, Emulated

LEMMA MouseStep ==
    ASSUME MouseInv, [MouseNext]_mouseVars
    PROVE  MouseInv'
<1>0. /\ emulate \in BOOLEAN /\ now \in Nat /\ position \in Positions
      /\ buttonState \subseteq Buttons /\ logical \subseteq Buttons
      /\ machine \in Machines /\ out \in Seq(Events)
      /\ logical \ Emulated = buttonState \ Emulated
    BY DEF MouseInv, MouseTypeOK
<1>a. ASSUME UNCHANGED <<emulate, buttonState, position, logical>>, now' \in Nat,
             machine' \in Machines, out' \in Seq(Events)
      PROVE  MouseInv'
    <2>1. /\ emulate' = emulate /\ buttonState' = buttonState
          /\ position' = position /\ logical' = logical
        BY <1>a
    <2>2. MouseTypeOK'
        BY <1>0, <1>a, <2>1, MachineTypes DEF MouseTypeOK
    <2>3. logical' \ Emulated' = buttonState' \ Emulated'
        BY <1>0, <2>1 DEF Emulated
    <2> QED
        BY <1>a, <2>2, <2>3 DEF MouseInv
<1>b. ASSUME NEW m \in Machines,
             Result(KdRunMouseMachine(Idle(m), NoEvent))
      PROVE  machine' = m /\ out' = <<>> /\ logical' = logical
    <2>1. Idle(m) \in Results
        BY <1>0 DEF Idle, Results
    <2>2. KdRunMouseMachine(Idle(m), NoEvent)
              = [Idle(m) EXCEPT !.stolen = FALSE]
        BY <2>1, KeyRuns
    <2> QED
        BY <1>b, <2>2 DEF Result, Idle
<1>1. CASE KdEnqueuePointerEvent
    BY <1>1, ReportStep
<1>2. CASE KdHandleKeyboardEvent
    <2>1. machine' = machine /\ out' = <<>> /\ logical' = logical
        BY <1>0, <1>2, <1>b DEF KdHandleKeyboardEvent
    <2>2. out' \in Seq(Events)
        BY <2>1
    <2> QED
        BY <1>0, <1>2, <1>a, <2>1, <2>2 DEF KdHandleKeyboardEvent
<1>3. CASE KdWakeupHandler
    <2>1. now' \in Nat /\ UNCHANGED <<emulate, buttonState, position>>
        BY <1>0, <1>3, MouseAssumption DEF KdWakeupHandler
    <2>2. CASE Result(Idle(machine))
        <3>1. machine' = machine /\ out' = <<>> /\ logical' = logical
            BY <2>2 DEF Result, Idle
        <3>2. out' \in Seq(Events)
            BY <3>1
        <3>3. UNCHANGED <<emulate, buttonState, position, logical>>
            BY <2>1, <3>1
        <3>4. machine' \in Machines
            BY <1>0, <3>1
        <3> QED
            BY <1>a, <2>1, <3>2, <3>3, <3>4
    <2>3. CASE Result(KdRunMouseMachine(
                   Idle([machine EXCEPT !.timeoutPending = FALSE]), NoEvent))
        <3> DEFINE m == [machine EXCEPT !.timeoutPending = FALSE]
        <3>1. m \in Machines
            BY <1>0 DEF Machines
        <3>2. Result(KdRunMouseMachine(Idle(m), NoEvent))
            BY <2>3
        <3> HIDE DEF m
        <3>3. machine' = m /\ out' = <<>> /\ logical' = logical
            BY <1>b, <3>1, <3>2
        <3>4. machine' \in Machines /\ out' \in Seq(Events)
            BY <3>1, <3>3
        <3>5. UNCHANGED <<emulate, buttonState, position, logical>>
            BY <2>1, <3>3
        <3> QED
            BY <1>a, <2>1, <3>4, <3>5
    <2> QED
        BY <1>3, <2>2, <2>3 DEF KdWakeupHandler
<1>4. CASE KdResetInputMachine
    <2>1. machine' = [machine EXCEPT !.mouseState = "start", !.eventHeld = FALSE]
        BY <1>4 DEF KdResetInputMachine
    <2>2. machine' \in Machines
        BY <1>0, <2>1 DEF Machines, Reached
    <2> QED
        BY <1>0, <1>4, <1>a, <2>2 DEF KdResetInputMachine
<1>5. CASE UNCHANGED mouseVars
    BY <1>0, <1>5, <1>a DEF mouseVars
<1> QED
    BY <1>1, <1>2, <1>3, <1>4, <1>5 DEF MouseNext

LEMMA MouseInvariance ==
    MouseSpec => []MouseInv
<1>1. MouseInit => MouseInv
    <2> SUFFICES ASSUME MouseInit PROVE MouseInv
        OBVIOUS
    <2>1. machine \in Machines
        BY DEF MouseInit, Machines, Held, Reached
    <2>2. MouseTypeOK
        BY <2>1, MachineTypes, MouseAssumption DEF MouseInit, MouseTypeOK
    <2> QED
        BY <2>1, <2>2 DEF MouseInit, MouseInv
<1>2. MouseInv /\ [MouseNext]_mouseVars => MouseInv'
    BY MouseStep
<1> QED
    BY <1>1, <1>2, PTL DEF MouseSpec

\* With any number of buttons, reports, keys and timeouts: the server holds the
\* buttons that take no part in the emulation, or all of them without it, to be
\* just as the device says (KdEnqueuePointerEvent, KdRunMouseMachine).
THEOREM ButtonsAsReported ==
    MouseSpec => []ButtonsKept
<1>1. MouseInv => ButtonsKept
    BY DEF MouseInv, ButtonsKept
<1> QED
    BY <1>1, MouseInvariance, PTL

\* The emulation never begins: hold returns before KdRunMouseMachine enters the
\* next state, so no state in which a button is pending or a second button
\* generated is ever reached, and no timeout is ever set.
THEOREM NeverPending ==
    MouseSpec =>
               [](machine.mouseState \in {"start", "button_2_down"} /\ ~ machine.timeoutPending)
<1>1. MouseInv =>
          machine.mouseState \in {"start", "button_2_down"} /\ ~ machine.timeoutPending
    BY DEF MouseInv, Machines, Reached
<1> QED
    BY <1>1, MouseInvariance, PTL
=============================================================================
