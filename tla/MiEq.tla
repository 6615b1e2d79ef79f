-------------------------------- MODULE MiEq --------------------------------
(***************************************************************************)
(* The input event queue of mi/mieq.c: a ring of QUEUE_SIZE slots filled   *)
(* by the SIGIO handler (KdSigio -> driver read -> KdQueueEvent ->         *)
(* mieqEnqueue) and drained by the main thread (ProcessInputEvents ->      *)
(* mieqProcessInputEvents), without a lock: the handler may run between    *)
(* any two memory accesses of the main thread, and runs to its end before  *)
(* the main thread goes on.                                                *)
(*                                                                         *)
(* `pending' is what the running handler has still to enqueue: while it is *)
(* not empty the main thread does not move.  `pc' is the main thread's     *)
(* place in mieqProcessInputEvents, one step per access to a shared field. *)
(***************************************************************************)
EXTENDS Naturals, Sequences

CONSTANTS
    QUEUE_SIZE,     \* slots of the ring (256 in the code)
    NEVENTS,        \* xEvents one slot holds (7 in the code)
    Window,         \* largest step back in time that is hidden (10000 ms)
    Screens,
    FirstScreen,    \* screenInfo.screens[0]
    CorePointer,    \* id of inputInfo.pointer
    CoreKeyboard,   \* id of inputInfo.keyboard
    Pointers,       \* ids of the extension pointers
    Keyboards,      \* ids of the extension keyboards
    CoreSending,    \* the extension devices with coreEvents set
    Handled,        \* event types with a custom handler (mieqSetHandler)
    Times,          \* what GetTimeInMillis may return
    MaxPosts        \* bound on the bursts of events that are told apart

Devices == Pointers \cup Keyboards \cup {CorePointer, CoreKeyboard}

ASSUME QueueAssumption == QUEUE_SIZE \in Nat /\ QUEUE_SIZE >= 2
ASSUME SlotAssumption == NEVENTS \in Nat /\ NEVENTS >= 1
ASSUME TimeAssumption == Times \subseteq Nat /\ Times # {} /\ Window \in Nat
ASSUME ScreenAssumption == FirstScreen \in Screens
\* The virtual core keyboard is registered first and has id 0.
ASSUME DeviceAssumption ==
    /\ Devices \subseteq Nat /\ CoreKeyboard = 0
    /\ CorePointer # 0 /\ 0 \notin Pointers /\ CorePointer \notin Pointers
ASSUME MaxPosts \in Nat

EventTypes == {"MotionNotify", "ButtonPress", "KeyPress",
               "DeviceMotionNotify", "DeviceButtonPress", "DeviceKeyPress",
               "DeviceValuator"}

\* rootX and rootY stand for the data of an event: both are the number of
\* the burst it was posted in, so that data of two events do not agree; those
\* after the first MaxPosts share a number.
Event == [type : EventTypes, deviceid : Devices, time : Times,
          rootX : Nat, rootY : Nat]

EventRec == [event : Seq(Event), pScreen : Screens, pDev : Devices]

Slots == 0 .. QUEUE_SIZE - 1
Succ(i) == IF i = QUEUE_SIZE - 1 THEN 0 ELSE i + 1
Prev(i) == IF i = 0 THEN QUEUE_SIZE - 1 ELSE i - 1

VARIABLES
    head, tail, lastEventTime, lastMotion, events,
    pEnqueueScreen,  \* also miPointer.pScreen, always set with it
    pDequeueScreen,
    pending,         \* events the SIGIO handler has still to enqueue
    poster,          \* the device it enqueues them for
    posts,           \* number of the last burst
    pc, e, x, y,     \* locals of mieqProcessInputEvents
    dev,
    coreFrom         \* device the core pointer/keyboard last copied

queueVars == <<head, tail, lastEventTime, lastMotion, events>>
signalVars == <<pending, poster, posts>>
mainVars == <<pc, e, x, y, dev, coreFrom>>
vars == <<queueVars, pEnqueueScreen, pDequeueScreen, signalVars, mainVars>>

-----------------------------------------------------------------------------
\* mieqInit.
Init ==
    /\ head = 0 /\ tail = 0
    /\ lastEventTime \in Times
    /\ lastMotion = 0
    /\ events = [i \in Slots |-> [event |-> <<>>, pScreen |-> FirstScreen,
                                  pDev |-> CoreKeyboard]]
    /\ pEnqueueScreen = FirstScreen /\ pDequeueScreen = FirstScreen
    /\ pending = <<>> /\ poster = CoreKeyboard /\ posts = 0
    /\ pc = "Idle" /\ e = 0 /\ x = 0 /\ y = 0
    /\ dev = CoreKeyboard
    /\ coreFrom = [d \in {CorePointer, CoreKeyboard} |-> d]

-----------------------------------------------------------------------------
(* The producer. *)

\* The device id mieqEnqueue coalesces a motion by; 0: not a motion.
IsMotion(ev, pDev) ==
    CASE ev.type = "MotionNotify"       -> CorePointer
      [] ev.type = "DeviceMotionNotify" -> pDev
      [] OTHER                          -> 0

TakesValuators(ev) == ev.type \in {"DeviceMotionNotify", "DeviceButtonPress"}

\* A valuator is tacked on to the newest entry, unless that is full, has
\* been taken, or is no pointer event of the same device.  `oldtail - 1' is
\* not reduced modulo QUEUE_SIZE: with tail = 0 the code looks in front of
\* the array, finds no device event there and drops the valuator.
ValuatorFits(v) ==
    /\ tail # 0 /\ tail # head
    /\ Len(events[Prev(tail)].event) < NEVENTS
    /\ TakesValuators(events[Prev(tail)].event[1])
    /\ events[Prev(tail)].event[1].deviceid = v.deviceid

AttachValuator(v) ==
    /\ v.type = "DeviceValuator"
    /\ ValuatorFits(v)
    /\ events' = [events EXCEPT ![Prev(tail)].event = Append(@, v)]
    /\ UNCHANGED <<head, tail, lastEventTime, lastMotion>>

DropValuator(v) ==
    /\ v.type = "DeviceValuator"
    /\ ~ ValuatorFits(v)
    /\ UNCHANGED queueVars

\* Times do not run backwards, unless by a large step.
\* (Mutant: times are stored as they come.)
RawTime(ev) == ev.time
StoredTime(ev) ==
    IF ev.time < lastEventTime /\ lastEventTime - ev.time < Window
    THEN lastEventTime ELSE ev.time

Store(slot, ev) ==
    /\ events' = [events EXCEPT ![slot] =
                    [event   |-> <<[ev EXCEPT !.time = StoredTime(ev)]>>,
                     pScreen |-> pEnqueueScreen,
                     pDev    |-> poster]]
    /\ lastEventTime' = StoredTime(ev)
    /\ lastMotion' = IsMotion(ev, poster)
    /\ UNCHANGED head

\* (Mutants: a motion replaces the last entry although that was taken; or
\* although it is another device's.)
CoalescesTaken(ev) ==
    IsMotion(ev, poster) # 0 /\ IsMotion(ev, poster) = lastMotion
CoalescesAnyMotion(ev) ==
    IsMotion(ev, poster) # 0 /\ lastMotion # 0 /\ tail # head
Coalesces(ev) ==
    /\ IsMotion(ev, poster) # 0
    /\ IsMotion(ev, poster) = lastMotion
    /\ tail # head

Compress(ev) ==
    /\ ev.type # "DeviceValuator" /\ Coalesces(ev)
    /\ Store(Prev(tail), ev)
    /\ UNCHANGED tail

\* (Mutant: no check for a full queue.)
AppendUnchecked(ev) ==
    /\ ev.type # "DeviceValuator" /\ ~ Coalesces(ev)
    /\ tail' = Succ(tail)
    /\ Store(tail, ev)

AppendEvent(ev) ==
    /\ ev.type # "DeviceValuator" /\ ~ Coalesces(ev)
    /\ Succ(tail) # head
    /\ tail' = Succ(tail)
    /\ Store(tail, ev)

Toss(ev) ==
    /\ ev.type # "DeviceValuator" /\ ~ Coalesces(ev)
    /\ Succ(tail) = head
    /\ UNCHANGED queueVars

mieqEnqueue ==
    /\ pending # <<>>
    /\ LET ev == Head(pending)
       IN  \/ AttachValuator(ev) \/ DropValuator(ev)
           \/ Compress(ev) \/ AppendEvent(ev) \/ Toss(ev)
    /\ pending' = Tail(pending)
    /\ UNCHANGED <<poster, posts, pEnqueueScreen, pDequeueScreen, mainVars>>

Numbered == posts' = IF posts < MaxPosts THEN posts + 1 ELSE posts

\* The events one call of GetPointerEvents or GetKeyboardEvents makes.
MakeEvent(type, d, t) ==
    [type |-> type, deviceid |-> d, time |-> t,
     rootX |-> posts + 1, rootY |-> posts + 1]

Core(type, d, t) ==
    IF d \in CoreSending THEN <<MakeEvent(type, d, t)>> ELSE <<>>

MotionEvents(d, t) ==
    <<MakeEvent("DeviceMotionNotify", d, t), MakeEvent("DeviceValuator", d, t)>>
        \o Core("MotionNotify", d, t)

ButtonEvents(d, t) ==
    <<MakeEvent("DeviceButtonPress", d, t)>> \o Core("ButtonPress", d, t)

KeyEvents(d, t) ==
    <<MakeEvent("DeviceKeyPress", d, t)>> \o Core("KeyPress", d, t)

\* The SIGIO handler starts: a driver has read something and posts it.  A
\* device that sends core events may take the pointer over to another screen
\* (miPointerSetPosition -> CursorOffScreen, NewEventScreen(FALSE)).
PostPointer(d) ==
    /\ pending = <<>>
    /\ \E t \in Times, s \in Screens :
          /\ d \in CoreSending \/ s = pEnqueueScreen
          /\ pending' \in {MotionEvents(d, t), ButtonEvents(d, t)}
          /\ pEnqueueScreen' = s
    /\ poster' = d /\ Numbered
    /\ UNCHANGED <<queueVars, pDequeueScreen, mainVars>>

PostKey(d) ==
    /\ pending = <<>>
    /\ \E t \in Times : pending' = KeyEvents(d, t)
    /\ poster' = d /\ Numbered
    /\ UNCHANGED <<queueVars, pEnqueueScreen, pDequeueScreen, mainVars>>

Sigio == (\E d \in Pointers : PostPointer(d)) \/ (\E d \in Keyboards : PostKey(d))

-----------------------------------------------------------------------------
(* The consumer: mieqProcessInputEvents. *)

Running == pending = <<>>
UnchangedByMain == UNCHANGED <<tail, lastEventTime, lastMotion, events,
                               pEnqueueScreen, signalVars>>

Start ==
    /\ Running /\ pc = "Idle" /\ pc' = "Loop"
    /\ UnchangedByMain
    /\ UNCHANGED <<head, pDequeueScreen, e, x, y, dev, coreFrom>>

\* The loop's condition, and the slot it works on.
Loop ==
    /\ Running /\ pc = "Loop"
    /\ IF head # tail THEN pc' = "Screen" /\ e' = head
                      ELSE pc' = "Idle" /\ UNCHANGED e
    /\ UnchangedByMain
    /\ UNCHANGED <<head, pDequeueScreen, x, y, dev, coreFrom>>

CompareScreen ==
    /\ Running /\ pc = "Screen"
    /\ pc' = IF events[e].pScreen # pDequeueScreen THEN "Switch" ELSE "Pop"
    /\ UnchangedByMain
    /\ UNCHANGED <<head, pDequeueScreen, e, x, y, dev, coreFrom>>

SwitchScreen ==
    /\ Running /\ pc = "Switch" /\ pc' = "ReadX"
    /\ pDequeueScreen' = events[e].pScreen
    /\ UnchangedByMain
    /\ UNCHANGED <<head, e, x, y, dev, coreFrom>>

ReadX ==
    /\ Running /\ pc = "ReadX" /\ pc' = "ReadY"
    /\ x' = events[e].event[1].rootX
    /\ UnchangedByMain
    /\ UNCHANGED <<head, pDequeueScreen, e, y, dev, coreFrom>>

ReadY ==
    /\ Running /\ pc = "ReadY" /\ pc' = "SwitchPop"
    /\ y' = events[e].event[1].rootY
    /\ UnchangedByMain
    /\ UNCHANGED <<head, pDequeueScreen, e, x, dev, coreFrom>>

\* (Mutant: head moves on after a screen switch only.)
PopSwitchOnly ==
    /\ Running
    /\ \/ pc = "SwitchPop" /\ pc' = "NewScreen" /\ head' = Succ(head)
       \/ pc = "Pop" /\ pc' = "Dispatch" /\ UNCHANGED head
    /\ UnchangedByMain
    /\ UNCHANGED <<pDequeueScreen, e, x, y, dev, coreFrom>>

\* head moves on; from here on the slot is the handler's to refill.
Pop ==
    /\ Running
    /\ \/ pc = "SwitchPop" /\ pc' = "NewScreen"
       \/ pc = "Pop" /\ pc' = "Dispatch"
    /\ head' = Succ(head)
    /\ UnchangedByMain
    /\ UNCHANGED <<pDequeueScreen, e, x, y, dev, coreFrom>>

NewCurrentScreen ==
    /\ Running
    /\ \/ pc = "NewScreen" /\ pc' = "Confine"
       \/ pc = "Confine" /\ pc' = "Loop"
    /\ UnchangedByMain
    /\ UNCHANGED <<head, pDequeueScreen, e, x, y, dev, coreFrom>>

\* A custom handler gets the event and ends the whole call, with a `dev' left
\* over from the event before; otherwise a core event makes its device the
\* core one (SwitchCoreKeyboard, SwitchCorePointer).
Dispatch ==
    /\ Running /\ pc = "Dispatch"
    /\ LET ev == events[e].event[1] IN
       \/ ev.type \in Handled /\ pc' = "Idle" /\ UNCHANGED <<dev, coreFrom>>
       \/ /\ ev.type \notin Handled /\ pc' = "Process"
          /\ dev' = CASE ev.type = "KeyPress" -> CoreKeyboard
                      [] ev.type \in {"MotionNotify", "ButtonPress"} -> CorePointer
                      [] OTHER -> events[e].pDev
          /\ coreFrom' = IF ev.type \in {"KeyPress", "MotionNotify", "ButtonPress"}
                         THEN [coreFrom EXCEPT ![dev'] = events[e].pDev]
                         ELSE coreFrom
    /\ UnchangedByMain
    /\ UNCHANGED <<head, pDequeueScreen, e, x, y>>

\* dev->public.processInputProc reads the slot in place.
Process ==
    /\ Running /\ pc = "Process" /\ pc' = "Loop"
    /\ UnchangedByMain
    /\ UNCHANGED <<head, pDequeueScreen, e, x, y, dev, coreFrom>>

\* KdWarpCursor, from a request (pc = "Idle"), from the processing of an event
\* or from within NewCurrentScreen (ConfineCursorToWindow): with SIGIO blocked,
\* both sides of the queue are told of a new screen, and a warp that generates
\* an event posts a core motion.
Warp(s) ==
    /\ Running /\ pc \in {"Idle", "Process", "Confine"}
    /\ pEnqueueScreen' = s
    /\ pDequeueScreen' = IF s # pEnqueueScreen THEN s ELSE pDequeueScreen
    /\ \/ s # pEnqueueScreen /\ UNCHANGED signalVars
       \/ /\ pc = "Idle"
          /\ \E t \in Times :
                pending' = <<MakeEvent("MotionNotify", CorePointer, t)>>
          /\ poster' = CorePointer /\ Numbered
    /\ UNCHANGED <<queueVars, mainVars>>

mieqProcessInputEvents ==
    \/ Loop \/ CompareScreen \/ SwitchScreen \/ ReadX \/ ReadY \/ Pop
    \/ NewCurrentScreen \/ Dispatch \/ Process

Next ==
    \/ Sigio \/ mieqEnqueue
    \/ Start \/ mieqProcessInputEvents
    \/ \E s \in Screens : Warp(s)

\* The handler ends, and a started mieqProcessInputEvents goes on.
Fairness == WF_vars(mieqEnqueue) /\ WF_vars(mieqProcessInputEvents)

Spec == Init /\ [][Next]_vars /\ Fairness
-----------------------------------------------------------------------------
TypeOK ==
    /\ head \in Slots /\ tail \in Slots
    /\ lastEventTime \in Times
    /\ lastMotion \in Devices
    /\ events \in [Slots -> EventRec]
    /\ pEnqueueScreen \in Screens /\ pDequeueScreen \in Screens
    /\ pending \in Seq(Event) /\ poster \in Devices /\ posts \in Nat
    /\ pc \in {"Idle", "Loop", "Screen", "Switch", "ReadX", "ReadY",
               "SwitchPop", "NewScreen", "Confine", "Pop", "Dispatch", "Process"}
    /\ e \in Slots /\ x \in Nat /\ y \in Nat
    /\ dev \in Devices
    /\ coreFrom \in [{CorePointer, CoreKeyboard} -> Devices]

\* The slot the dispatcher has popped and is working on (mieq.c:231-259, read
\* several times through `e') is never refilled by the handler, although it
\* already counts as free.
InHandStable ==
    [][(pc \in {"Dispatch", "Process"}) => events'[e] = events[e]]_vars

\* lastMotion, kept outside the slots, tells the truth about the newest one,
\* also after tossed events and dropped valuators: so coalescing can only
\* replace a motion of the same device, never a button or a key.
LastMotionTrue ==
    head # tail /\ lastMotion # 0 =>
        /\ events[Prev(tail)].event # <<>>
        /\ IsMotion(events[Prev(tail)].event[1], events[Prev(tail)].pDev) = lastMotion

\* "Make sure that event times don't go backwards" (mieq.c:163): as long as
\* the clock steps back by less than Window, the queue is in order of time.
InOrder(i) == events[i].event[1].time <= events[Succ(i)].event[1].time
Queued(i) ==
    IF head <= tail THEN head <= i /\ i < tail ELSE i >= head \/ i < tail
TimesOrdered ==
    \A i \in Slots : Queued(i) /\ Queued(Succ(i)) /\ Succ(i) # head => InOrder(i)

\* An event is processed while its own screen is the current one: no screen
\* switch in the handler gets between the comparison of the screens and the
\* moment the slot is popped (mieq.c:217-231).
DispatchScreen == pc = "Dispatch" => events[e].pScreen = pDequeueScreen

\* The position given to NewCurrentScreen is the position of one event.
PositionWhole == pc = "NewScreen" => x = y

\* Both: screen switches, by the handler and by warps, reach the dispatcher in
\* their order among the events, and whole.
ScreensInOrder == DispatchScreen /\ PositionWhole

\* SIGIO brings new events.
Posted == pending = <<>> /\ pending' # <<>>

\* A call of mieqProcessInputEvents ends once the devices fall silent, wherever
\* the handler broke in before; as long as they do not it may go on for ever.
Drains == <>[][~ Posted]_vars => ((pc # "Idle") ~> (pc = "Idle"))
=============================================================================
