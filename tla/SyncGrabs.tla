----------------------------- MODULE SyncGrabs -----------------------------
(***************************************************************************)
(* Grabs of the pointer and the keyboard and the freezing they cause       *)
(* (dix/events.c).                                                         *)
(*                                                                         *)
(* A synchronous grab freezes its own device, or the others, until its     *)
(* client allows events.  What a frozen device sends is queued (pending)   *)
(* and played when something thaws it; a press that a grab froze its       *)
(* device on can be replayed to the windows below.  Playing an event runs  *)
(* the whole input handler again: it may activate a passive grab, end an   *)
(* automatic one, freeze or thaw a device, inside the request, the event   *)
(* or the close-down that started it.                                      *)
(*                                                                         *)
(* The server has one thread.  What it has begun and not finished is its   *)
(* call stack, of which stack keeps the calls that may run input handlers; *)
(* events and requests come when it is empty.  Windows form one chain, 1   *)
(* the root, each the child of the one before, with the sprite and the     *)
(* focus in the last.  Left out: time stamps (requests are in time),       *)
(* modifiers, confinement, cursors, enter, leave and focus events.         *)
(***************************************************************************)
EXTENDS Integers, Sequences

CONSTANTS
    Device,        \* inputInfo.devices: the core devices
    Pointer,       \* inputInfo.pointer
    Keyboard,      \* inputInfo.keyboard
    Client,
    NoClient,      \* activeGrab before the first grab
    NoDevice,      \* NullGrab, for sync.other
    Depth,         \* windows 1 .. Depth
    Owner,         \* whose close-down destroys a window: that of the last, if any
    ActiveGrabs,   \* the grabs of a device clients may ask for
    PassiveGrabs,  \* and the passive grabs: of a key or a button on a window
    Selections,    \* <<client, window>>: who may select for button presses, where
    Detail,        \* keys and buttons
    Repeats,       \* the keyboard sends a press of a key that is down
    MaxEvents      \* how many events each device sends

ASSUME DevicesAssumption ==
    /\ Pointer \in Device /\ Keyboard \in Device /\ Pointer # Keyboard
    /\ NoDevice \notin Device /\ NoClient \notin Client

ASSUME WindowsAssumption ==
    /\ Depth \in Nat \ {0}
    /\ Owner \in [1 .. Depth -> Client \cup {NoClient}]
    /\ \A w \in 1 .. Depth : Owner[w] # NoClient => w = Depth /\ w # 1

ASSUME BoundsAssumption ==
    Detail \subseteq Nat \ {0} /\ Repeats \in BOOLEAN /\ MaxEvents \in [Device -> Nat]

Window == 1 .. Depth
Mode == {"Sync", "Async"}

\* A grab as the code copies it into activeGrab.
Grab == [client : Client \cup {NoClient}, own : Mode, others : Mode, win : Window]

ASSUME GrabsAssumption ==
    ActiveGrabs \cup PassiveGrabs \subseteq
        [dev : Device, grab : [client : Client, own : Mode, others : Mode, win : Window]]

ASSUME SelectionsAssumption == Selections \subseteq Client \X Window

Event == [dev : Device, kind : {"press", "release", "motion"}, detail : Detail, n : Nat]

\* sync.event before the first event is kept.
NoEvent == [kind |-> "none"]

\* sync.state; the last two have the device frozen (FROZEN).
State == {"NOT_GRABBED", "THAWED", "FREEZE_NEXT_EVENT", "FREEZE_BOTH_NEXT_EVENT",
          "FROZEN_NO_EVENT", "FROZEN_WITH_EVENT"}
Frozen == {"FROZEN_NO_EVENT", "FROZEN_WITH_EVENT"}

VARIABLES
    dev,       \* per device: grabbed (dev->grab # NULL), grab (activeGrab),
               \* auto (fromPassiveGrab), activating (activatingKey), down,
               \* and sync: frozen, state, other, event
    pending,   \* syncEvents.pending
    pendtail,  \* syncEvents.pendtail: the next field of this member; 0, the head
    passive,   \* the passive grabs of the windows
    exists,    \* the windows there are, 1 .. some depth
    mapped,    \* those in the trace of the sprite, realized
    alive,     \* clients that are not clientGone
    stack,     \* the calls under way, the innermost first
    held,      \* what is down on the hardware
    sent,      \* number of the last event each device sent
    done,      \* number of the last event processed for each device
    split      \* devices that had a repeated press split in two (history)

queueVars == <<pending, pendtail>>
world == <<passive, exists, mapped, alive>>
inputVars == <<held, sent, done, split>>
vars == <<dev, queueVars, world, stack, inputVars>>

-----------------------------------------------------------------------------
(* Freezing.  Each operator maps the devices before to the devices after.  *)

\* FreezeThaw of every device, as ComputeFreezes begins.
Thaw(dv) ==
    [d \in Device |->
        [dv[d] EXCEPT !.frozen = dv[d].other # NoDevice \/ dv[d].state \in Frozen]]

\* sync.other of some device points at the grab of a device, x, that client
\* c is the grabber of: at activeGrab, whatever it now holds.
Mine(dv, x, c) == x # NoDevice /\ dv[x].grab.client = c

CheckGrabForSyncs(dv, d) ==
    LET g == dv[d].grab
        kept(x) == IF Mine(dv, dv[x].other, g.client) THEN NoDevice ELSE dv[x].other
    IN [x \in Device |->
         IF x = d
         THEN IF g.own = "Sync"
              THEN [dv[x] EXCEPT !.state = "FROZEN_NO_EVENT"]
              ELSE [dv[x] EXCEPT !.state = "THAWED", !.other = kept(x)]
         ELSE [dv[x] EXCEPT !.other = IF g.others = "Sync" THEN d ELSE kept(x)]]

ActivateGrab(dv, d, g, isAuto) ==
    Thaw(CheckGrabForSyncs(
        [dv EXCEPT ![d].grabbed = TRUE, ![d].grab = g, ![d].auto = isAuto], d))

\* (Mutant: the other devices stay frozen by a grab that is over.)
DeactivateGrabOnly(dv, d) ==
    Thaw([x \in Device |->
        [dv[x] EXCEPT !.grabbed = @ /\ x # d,
                      !.auto = @ /\ x # d,
                      !.state = IF x = d THEN "NOT_GRABBED" ELSE @]])

DeactivateGrab(dv, d) ==
    Thaw([x \in Device |->
        [dv[x] EXCEPT !.other = IF @ = d THEN NoDevice ELSE @,
                      !.grabbed = @ /\ x # d,
                      !.auto = @ /\ x # d,
                      !.state = IF x = d THEN "NOT_GRABBED" ELSE @]])

\* The end of DeliverGrabbedEvent, when the client has been sent event e.
FreezeOnEvent(dv, d, e) ==
    LET both == dv[d].state = "FREEZE_BOTH_NEXT_EVENT"
        joins(x) == /\ dv[x].state = "FREEZE_BOTH_NEXT_EVENT"
                    /\ dv[x].grab.client = dv[d].grab.client
    IN IF dv[d].state \notin {"FREEZE_NEXT_EVENT", "FREEZE_BOTH_NEXT_EVENT"}
       THEN dv
       ELSE [x \in Device |->
              IF x = d
              THEN [dv[x] EXCEPT !.state = "FROZEN_WITH_EVENT", !.frozen = TRUE,
                                 !.event = e]
              ELSE IF both THEN [dv[x] EXCEPT
                      !.frozen = TRUE,
                      !.state = IF joins(x) THEN "FROZEN_NO_EVENT" ELSE @,
                      !.other = IF joins(x) THEN @ ELSE d]
              ELSE dv[x]]

-----------------------------------------------------------------------------
(* The calls under way.                                                    *)

Play == [op |-> "play"]

\* syncEvents.playingEvents
Playing == \E i \in DOMAIN stack : stack[i].op = "play"

\* ComputeFreezes goes on to play the queue, unless that is under way or the
\* queue is empty.
Plays == IF Playing \/ pending = <<>> THEN <<>> ELSE <<Play>>

\* The windows' passive grabs that event e of device d meets, from window
\* first down.
Caught(dv, d, e, first) ==
    {p \in passive :
        /\ p.dev = d /\ e.kind = "press"
        /\ p.grab.win \in mapped /\ p.grab.win >= first
        /\ d = Pointer => \A b \in dv[d].down : b = e.detail}

\* CheckDeviceGrabs: the first passive grab met from window first down
\* is activated, then the event is sent to its client and kept (Arm).
CheckDeviceGrabs(dv, d, e, first, direct, rest) ==
    \E p \in Caught(dv, d, e, first) :
        /\ \A q \in Caught(dv, d, e, first) : p.grab.win <= q.grab.win
        /\ dev' = ActivateGrab(dv, d, p.grab, TRUE)
        /\ stack' = Plays \o <<[op |-> "arm", ev |-> e, direct |-> direct]>> \o rest

-----------------------------------------------------------------------------
(* Events.                                                                 *)

\* The keys and buttons of the device once e has been seen.
Keyed(d, e) ==
    LET downs == dev[d].down
    IN [dev EXCEPT ![d].down = CASE e.kind = "press"   -> downs \cup {e.detail}
                                 [] e.kind = "release" -> downs \ {e.detail}
                                 [] OTHER -> downs]

\* A release that ends the automatic grab it belongs to.
Ends(d, e) ==
    /\ e.kind = "release" /\ dev[d].auto
    /\ IF d = Pointer THEN dev[d].down \subseteq {e.detail}
                      ELSE e.detail = dev[d].activating

\* A key that was not down is not released.
Ignored(d, e) ==
    d # Pointer /\ e.kind = "release" /\ e.detail \notin dev[d].down

\* DeliverDeviceEvents, of an event no grab takes.  Whichever client selects
\* for it on a window under the sprite is sent it; for the press of a button
\* DeliverEventsToWindow gives it the automatic grab of the pointer.
DeliverDeviceEvents(dv, d, e, rest) ==
    \/ dev' = dv /\ stack' = rest
    \/ /\ d = Pointer /\ e.kind = "press"
       /\ \E s \in Selections :
            /\ s[1] \in alive /\ s[2] \in mapped
            /\ dev' = ActivateGrab(dv, d, [client |-> s[1], own |-> "Async",
                                           others |-> "Async", win |-> s[2]], TRUE)
       /\ stack' = Plays \o rest

\* DeliverGrabbedEvent, and the end of an automatic grab.  Motion freezes
\* nothing, nor does an event nobody has been sent.
Deliver(d, e, rest) ==
    \E heard \in BOOLEAN :
        LET freezes == heard /\ ~Ends(d, e) /\ e.kind # "motion"
            dv == IF freezes THEN FreezeOnEvent(Keyed(d, e), d, e) ELSE Keyed(d, e)
        IN /\ heard => dev[d].grab.client \in alive
           /\ dev' = IF Ends(d, e) THEN DeactivateGrab(dv, d) ELSE dv
           /\ stack' = (IF Ends(d, e) THEN Plays ELSE <<>>) \o rest

\* One event through the handler of its device.
Handle(d, e, rest) ==
    IF Ignored(d, e)
    THEN dev' = dev /\ stack' = rest
    ELSE IF ~dev[d].grabbed /\ Caught(Keyed(d, e), d, e, 1) # {}
    THEN CheckDeviceGrabs(Keyed(d, e), d, e, 1, TRUE, rest)
    ELSE IF dev[d].grabbed
    THEN Deliver(d, e, rest)
    ELSE DeliverDeviceEvents(Keyed(d, e), d, e, rest)

\* ProcessPointerEvent and ProcessKeyboardEvent.  A press of a key that is
\* down is handled as a release, and then sent again to the device.
Process(e, rest) ==
    LET d == e.dev
    IN IF d = Keyboard /\ e.kind = "press" /\ e.detail \in dev[d].down
       THEN /\ Handle(d, [e EXCEPT !.kind = "release"],
                      <<[op |-> "again", ev |-> e]>> \o rest)
            /\ split' = split \cup {d} /\ done' = done
       ELSE /\ Handle(d, e, rest)
            /\ done' = [done EXCEPT ![d] = e.n] /\ split' = split

\* EnqueueEvent: the pointer's last move takes the place of the one before.
Compresses(e) ==
    /\ pendtail < Len(pending)
    /\ e.kind = "motion" /\ pending[pendtail + 1].kind = "motion"

\* The slot pendtail addresses holds the last member, or nothing: the new
\* member is linked after the one, or into the other.
Enqueue(e) ==
    IF Compresses(e)
    THEN UNCHANGED queueVars
    ELSE /\ pendtail' = IF pendtail < Len(pending) THEN pendtail + 1 ELSE pendtail
         /\ pending' = Append(SubSeq(pending, 1, pendtail'), e)

\* The device's processInputProc, as FreezeThaw left it.
ProcessInputProc(e, rest) ==
    IF dev[e.dev].frozen
    THEN Enqueue(e) /\ stack' = rest /\ UNCHANGED <<dev, done, split>>
    ELSE Process(e, rest) /\ UNCHANGED queueVars

\* A device sends an event.  (A move merged into the last one is that one.)
Input(d, kind, detail) ==
    LET e == [dev |-> d, kind |-> kind, detail |-> detail, n |-> sent[d] + 1]
    IN /\ stack = <<>> /\ sent[d] < MaxEvents[d]
       /\ CASE kind = "press"   -> detail \notin held[d] \/ (Repeats /\ d = Keyboard)
            [] kind = "release" -> detail \in held[d]
            [] kind = "motion"  -> d = Pointer
       /\ held' = [held EXCEPT ![d] = CASE kind = "press"   -> @ \cup {detail}
                                        [] kind = "release" -> @ \ {detail}
                                        [] kind = "motion"  -> @]
       /\ sent' = IF dev[d].frozen /\ Compresses(e) THEN sent ELSE [sent EXCEPT ![d] = @ + 1]
       /\ ProcessInputProc(e, <<>>)
       /\ UNCHANGED world

\* The second half of a repeated press.
Again ==
    /\ stack # <<>> /\ Head(stack).op = "again"
    /\ ProcessInputProc(Head(stack).ev, Tail(stack))
    /\ UNCHANGED <<world, held, sent>>

\* The end of CheckPassiveGrabsOnWindow: the event that activated the grab
\* is kept for a replay; the keyboard's handler then notes the key.
Arm ==
    /\ stack # <<>> /\ Head(stack).op = "arm"
    /\ LET e == Head(stack).ev
           d == e.dev
           dv == IF dev[d].state = "FROZEN_NO_EVENT"
                 THEN [dev EXCEPT ![d].state = "FROZEN_WITH_EVENT", ![d].event = e]
                 ELSE dev
       IN dev' = IF Head(stack).direct /\ d # Pointer
                 THEN [dv EXCEPT ![d].activating = e.detail]
                 ELSE dv
    /\ stack' = Tail(stack)
    /\ UNCHANGED <<queueVars, world, inputVars>>

-----------------------------------------------------------------------------
(* Playing the queue.                                                      *)

\* The first queued event of a device that is not frozen.
IsNext(i) ==
    /\ i \in DOMAIN pending /\ ~dev[pending[i].dev].frozen
    /\ \A j \in DOMAIN pending : j < i => dev[pending[j].dev].frozen

\* (Mutant: pendtail is left where it was.)
PlayReleasedEventsOnly ==
    /\ stack # <<>> /\ Head(stack).op = "play"
    /\ \E i \in DOMAIN pending :
        /\ IsNext(i)
        /\ pending' = SubSeq(pending, 1, i - 1) \o SubSeq(pending, i + 1, Len(pending))
        /\ pendtail' = pendtail
        /\ Process(pending[i], stack)
    /\ UNCHANGED <<world, held, sent>>

\* One round of PlayReleasedEvents, which starts at the head each time.
PlayReleasedEvents ==
    /\ stack # <<>> /\ Head(stack).op = "play"
    /\ \E i \in DOMAIN pending :
        /\ IsNext(i)
        /\ pending' = SubSeq(pending, 1, i - 1) \o SubSeq(pending, i + 1, Len(pending))
        /\ pendtail' = IF pendtail >= i THEN pendtail - 1 ELSE pendtail
        /\ Process(pending[i], stack)
    /\ UNCHANGED <<world, held, sent>>

\* (Mutant: playing stops when one device is frozen.)
PlayDoneEarly ==
    /\ stack # <<>> /\ Head(stack).op = "play"
    /\ \/ \A i \in DOMAIN pending : dev[pending[i].dev].frozen
       \/ \E d \in Device : dev[d].frozen
    /\ stack' = Tail(stack)
    /\ UNCHANGED <<dev, queueVars, world, inputVars>>

\* Nothing is left to play: the end of ComputeFreezes.
PlayDone ==
    /\ stack # <<>> /\ Head(stack).op = "play"
    /\ \A i \in DOMAIN pending : dev[pending[i].dev].frozen
    /\ stack' = Tail(stack)
    /\ UNCHANGED <<dev, queueVars, world, inputVars>>

\* (Mutant: the device to replay is not forgotten.)
ReplayOn ==
    /\ stack # <<>> /\ Head(stack).op = "replay"
    /\ LET d == Head(stack).dev
           w == Head(stack).win
           e == dev[d].event
       IN IF w \in mapped /\ Caught(dev, d, e, w + 1) # {}
          THEN CheckDeviceGrabs(dev, d, e, w + 1, FALSE, stack)
          ELSE DeliverDeviceEvents(dev, d, e, stack)
    /\ UNCHANGED <<queueVars, world, inputVars>>

\* ComputeFreezes with a device to replay: the event it was frozen on meets
\* the passive grabs below the window of the grab that ended, if that window
\* is still in the trace of the sprite, and else is sent to the windows.
Replay ==
    /\ stack # <<>> /\ Head(stack).op = "replay"
    /\ LET d == Head(stack).dev
           w == Head(stack).win
           e == dev[d].event
       IN IF w \in mapped /\ Caught(dev, d, e, w + 1) # {}
          THEN CheckDeviceGrabs(dev, d, e, w + 1, FALSE, Tail(stack))
          ELSE DeliverDeviceEvents(dev, d, e, Tail(stack))
    /\ UNCHANGED <<queueVars, world, inputVars>>

-----------------------------------------------------------------------------
(* Requests.                                                               *)

SameClient(d, c) == dev[d].grabbed /\ dev[d].grab.client = c

Request(c) == stack = <<>> /\ c \in alive

\* ProcGrabPointer and GrabDevice: device p.dev for client p.grab.client.
GrabDevice(p) ==
    LET c == p.grab.client
        d == p.dev
    IN /\ Request(c)
       /\ dev[d].grabbed => SameClient(d, c)
       /\ p.grab.win \in mapped
       /\ dev[d].frozen /\ dev[d].other # NoDevice => Mine(dev, dev[d].other, c)
       /\ dev' = ActivateGrab(dev, d, p.grab, FALSE)
       /\ stack' = Plays
       /\ UNCHANGED <<queueVars, world, inputVars>>

\* ProcUngrabPointer and ProcUngrabKeyboard.
UngrabDevice(c, d) ==
    /\ Request(c) /\ SameClient(d, c)
    /\ dev' = DeactivateGrab(dev, d)
    /\ stack' = Plays
    /\ UNCHANGED <<queueVars, world, inputVars>>

\* thisSynced of AllowSome: this device is frozen by another grab of c.
ThisSynced(c, d) ==
    \E x \in Device \ {d} : SameClient(x, c) /\ dev[d].other = x

\* othersFrozen: c holds every other device frozen, by its grab of the
\* device or by another.
OthersFrozen(c, d) ==
    \A x \in Device \ {d} :
        IF SameClient(x, c) THEN dev[x].state \in Frozen
                            ELSE Mine(dev, dev[x].other, c)

\* Client c gives the devices of D it has grabbed the state s, and lets go
\* of what its grabs freeze among them.
Release(c, D, s) ==
    Thaw([x \in Device |->
        IF x \notin D THEN dev[x]
        ELSE [dev[x] EXCEPT !.state = IF SameClient(x, c) THEN s ELSE @,
                            !.other = IF Mine(dev, @, c) THEN NoDevice ELSE @]])

\* (Mutant: a device its client has grabbed is taken for frozen by that grab.)
ReleaseThisHalf(c, d, s) ==
    Thaw([dev EXCEPT ![d].state = IF SameClient(d, c) THEN s ELSE @,
                     ![d].other = IF ThisSynced(c, d) /\ ~SameClient(d, c)
                                  THEN NoDevice ELSE @])

\* AllowSome for one device: thawed, or thawed until its next event.
ReleaseThis(c, d, s) ==
    Thaw([dev EXCEPT ![d].state = IF SameClient(d, c) THEN s ELSE @,
                     ![d].other = IF ThisSynced(c, d) THEN NoDevice ELSE @])

\* What AllowSome asks of every request.
Allowed(c, d) ==
    /\ Request(c)
    /\ \/ SameClient(d, c) /\ dev[d].state \in Frozen
       \/ ThisSynced(c, d)

AllowThaw(c, d) ==        \* AsyncPointer, AsyncKeyboard
    /\ Allowed(c, d)
    /\ dev' = ReleaseThis(c, d, "THAWED")
    /\ stack' = Plays

AllowNextEvent(c, d) ==   \* SyncPointer, SyncKeyboard
    /\ Allowed(c, d) /\ SameClient(d, c)
    /\ dev' = ReleaseThis(c, d, "FREEZE_NEXT_EVENT")
    /\ stack' = Plays

AllowBoth(c, d, s) ==     \* AsyncBoth, SyncBoth
    /\ Allowed(c, d) /\ OthersFrozen(c, d)
    /\ dev' = Release(c, Device, s)
    /\ stack' = Plays

AllowOthers(c, d) ==      \* AsyncOtherDevices
    /\ Allowed(c, d) /\ OthersFrozen(c, d)
    /\ dev' = Release(c, Device \ {d}, "THAWED")
    /\ stack' = Plays

AllowReplay(c, d) ==      \* ReplayPointer, ReplayKeyboard
    /\ Allowed(c, d) /\ SameClient(d, c) /\ dev[d].state = "FROZEN_WITH_EVENT"
    /\ LET free == [dev EXCEPT ![d].other = IF ThisSynced(c, d) THEN NoDevice ELSE @]
       IN dev' = DeactivateGrab(free, d)
    /\ stack' = <<[op |-> "replay", dev |-> d, win |-> dev[d].grab.win], Play>>

AllowSome(c, d) ==
    /\ \/ AllowThaw(c, d)
       \/ AllowNextEvent(c, d)
       \/ \E s \in {"THAWED", "FREEZE_BOTH_NEXT_EVENT"} : AllowBoth(c, d, s)
       \/ AllowOthers(c, d)
       \/ AllowReplay(c, d)
    /\ UNCHANGED <<queueVars, world, inputVars>>

\* ProcGrabButton and ProcGrabKey.
GrabButton(p) ==
    /\ Request(p.grab.client) /\ p.grab.win \in exists
    /\ p \notin passive
    /\ passive' = passive \cup {p}
    /\ UNCHANGED <<dev, queueVars, exists, mapped, alive, stack, inputVars>>

\* ProcUngrabButton and ProcUngrabKey.
UngrabButton(p) ==
    /\ Request(p.grab.client)
    /\ p \in passive
    /\ passive' = passive \ {p}
    /\ UNCHANGED <<dev, queueVars, exists, mapped, alive, stack, inputVars>>

-----------------------------------------------------------------------------
(* Windows and clients that go.                                            *)

\* DeleteWindowFromAnyEvents, for each device in turn.
Kills(w) == <<[op |-> "kill", dev |-> Pointer, win |-> w],
              [op |-> "kill", dev |-> Keyboard, win |-> w]>>

\* UnmapWindow: the grabs on a window that could be seen end while it is
\* still in the trace.
UnmapCalls(w) ==
    IF w \in mapped THEN Kills(w) \o <<[op |-> "unmap", win |-> w]>> ELSE <<>>

\* (Mutant: the grabs end before the window is unmapped only.)
DeleteCallsOnce(w) == UnmapCalls(w) \o <<[op |-> "unlist", win |-> w]>>

\* DeleteWindow: the same, and again when the window is freed, with the
\* passive grabs it lists.
DeleteCalls(w) == UnmapCalls(w) \o Kills(w) \o <<[op |-> "unlist", win |-> w]>>

\* The last window of the chain; the root neither goes nor is unmapped.
Last(w) == w \in exists /\ w # 1 /\ \A v \in exists : v <= w

UnmapWindow(c, w) ==
    /\ Request(c) /\ Last(w) /\ w \in mapped
    /\ stack' = UnmapCalls(w)
    /\ UNCHANGED <<dev, queueVars, world, inputVars>>

MapWindow(c, w) ==
    /\ Request(c) /\ Last(w)
    /\ mapped' = mapped \cup {w}
    /\ UNCHANGED <<dev, queueVars, passive, exists, alive, stack, inputVars>>

DestroyWindow(c, w) ==
    /\ Request(c) /\ Last(w)
    /\ stack' = DeleteCalls(w)
    /\ UNCHANGED <<dev, queueVars, world, inputVars>>

\* The grab of one device on the window ends.
Kill ==
    /\ stack # <<>> /\ Head(stack).op = "kill"
    /\ LET d == Head(stack).dev
       IN IF dev[d].grabbed /\ dev[d].grab.win = Head(stack).win
          THEN dev' = DeactivateGrab(dev, d) /\ stack' = Plays \o Tail(stack)
          ELSE dev' = dev /\ stack' = Tail(stack)
    /\ UNCHANGED <<queueVars, world, inputVars>>

Unmap ==
    /\ stack # <<>> /\ Head(stack).op = "unmap"
    /\ mapped' = mapped \ {Head(stack).win}
    /\ stack' = Tail(stack)
    /\ UNCHANGED <<dev, queueVars, passive, exists, alive, inputVars>>

Unlist ==
    /\ stack # <<>> /\ Head(stack).op = "unlist"
    /\ passive' = {p \in passive : p.grab.win # Head(stack).win}
    /\ exists' = exists \ {Head(stack).win}
    /\ stack' = Tail(stack)
    /\ UNCHANGED <<dev, queueVars, mapped, alive, inputVars>>

CloseDownClient(c) ==
    /\ Request(c)
    /\ stack' = <<[op |-> "release", client |-> c], [op |-> "free", client |-> c]>>
    /\ UNCHANGED <<dev, queueVars, world, inputVars>>

\* ReleaseActiveGrabs: pass after pass, until the client has no grab.  Then
\* the client is gone.
ReleaseActiveGrabs ==
    /\ stack # <<>> /\ Head(stack).op = "release"
    /\ LET c == Head(stack).client
       IN \/ \E d \in Device :
              /\ SameClient(d, c)
              /\ dev' = DeactivateGrab(dev, d)
              /\ stack' = Plays \o stack
              /\ UNCHANGED alive
          \/ /\ \A d \in Device : ~SameClient(d, c)
             /\ stack' = Tail(stack) /\ alive' = alive \ {c}
             /\ UNCHANGED dev
    /\ UNCHANGED <<queueVars, passive, exists, mapped, inputVars>>

\* FreeClientResources: windows and passive grabs, in the order of a hash.
FreeClientResources ==
    /\ stack # <<>> /\ Head(stack).op = "free"
    /\ LET c == Head(stack).client
           grabs == {p \in passive : p.grab.client = c}
           own == {w \in exists : Owner[w] = c}
       IN \/ \E p \in grabs : passive' = passive \ {p} /\ UNCHANGED stack
          \/ \E w \in own : Last(w) /\ stack' = DeleteCalls(w) \o stack /\ UNCHANGED passive
          \/ grabs = {} /\ own = {} /\ stack' = Tail(stack) /\ UNCHANGED passive
    /\ UNCHANGED <<dev, queueVars, exists, mapped, alive, inputVars>>

-----------------------------------------------------------------------------
Init ==
    /\ dev = [d \in Device |->
                [grabbed |-> FALSE,
                 grab |-> [client |-> NoClient, own |-> "Async", others |-> "Async", win |-> 1],
                 auto |-> FALSE, activating |-> 0, down |-> {},
                 frozen |-> FALSE, state |-> "NOT_GRABBED", other |-> NoDevice,
                 event |-> NoEvent]]
    /\ pending = <<>> /\ pendtail = 0
    /\ passive = {} /\ exists = Window /\ mapped = Window /\ alive = Client
    /\ stack = <<>>
    /\ held = [d \in Device |-> {}]
    /\ sent = [d \in Device |-> 0] /\ done = [d \in Device |-> 0]
    /\ split = {}

\* The server goes on with what it has begun.
Continue ==
    \/ Again \/ Arm \/ PlayReleasedEvents \/ PlayDone \/ Replay
    \/ Kill \/ Unmap \/ Unlist \/ ReleaseActiveGrabs \/ FreeClientResources

Next ==
    \/ Continue
    \/ \E d \in Device, k \in {"press", "release", "motion"}, b \in Detail :
        Input(d, k, b)
    \/ \E c \in Client :
        \/ \E d \in Device : UngrabDevice(c, d) \/ AllowSome(c, d)
        \/ \E w \in Window : UnmapWindow(c, w) \/ MapWindow(c, w) \/ DestroyWindow(c, w)
        \/ CloseDownClient(c)
    \/ \E p \in ActiveGrabs : GrabDevice(p)
    \/ \E p \in PassiveGrabs : GrabButton(p) \/ UngrabButton(p)

\* The server runs: what it has begun goes on.
Spec == Init /\ [][Next]_vars /\ WF_vars(Continue)
-----------------------------------------------------------------------------
(* Properties.                                                             *)

DeviceRecord ==
    [grabbed : BOOLEAN, grab : Grab, auto : BOOLEAN, activating : Detail \cup {0},
     down : SUBSET Detail, frozen : BOOLEAN, state : State,
     other : Device \cup {NoDevice}, event : Event \cup {NoEvent}]

\* A call under way, with its arguments.
Frame ==
    [op : {"play"}]
    \cup [op : {"again"}, ev : Event]
    \cup [op : {"arm"}, ev : Event, direct : BOOLEAN]
    \cup [op : {"replay", "kill"}, dev : Device, win : Window]
    \cup [op : {"unmap", "unlist"}, win : Window]
    \cup [op : {"release", "free"}, client : Client]

\* Devices, queue, sets and calls stay in their ranges;
\* the queue's end is where its last member is, or where the next one goes.
TypeOK ==
    /\ dev \in [Device -> DeviceRecord]
    /\ pending \in Seq(Event) /\ stack \in Seq(Frame)
    /\ pendtail \in Nat /\ pendtail <= Len(pending) /\ Len(pending) <= pendtail + 1
    /\ passive \subseteq PassiveGrabs
    /\ exists \subseteq Window /\ mapped \subseteq Window
    /\ alive \subseteq Client
    /\ held \in [Device -> SUBSET Detail]
    /\ sent \in [Device -> Nat] /\ done \in [Device -> Nat]
    /\ split \subseteq Device

\* What a device has sent and its handler has not seen is queued, all of it,
\* once, in the order it was sent, however often grabs froze the device,
\* thawed it or were replayed; and nothing of a device that is not frozen is
\* left in the queue once it has been played (EnqueueEvent and
\* PlayReleasedEvents, events.c:984-1104).  A press that was split in two is
\* the exception: its first half may freeze the keyboard, and the second
\* then goes to the end of the queue, behind what was typed later.
InOrder ==
    /\ \A i, j \in DOMAIN pending :
        i < j /\ pending[i].dev = pending[j].dev /\ pending[i].dev \notin split
        => pending[i].n < pending[j].n
    /\ \A i \in DOMAIN pending : pending[i].dev \notin split =>
        pending[i].n > done[pending[i].dev] /\ pending[i].n <= sent[pending[i].dev]
    /\ \A d \in Device \ split : \A n \in done[d] + 1 .. sent[d] :
        \E i \in DOMAIN pending : pending[i].dev = d /\ pending[i].n = n
    /\ Playing \/ \A i \in DOMAIN pending : dev[pending[i].dev].frozen

\* A device is frozen exactly when its own grab, or a grab of another
\* device, holds it, and that grab is there: no device stays frozen, and
\* sync.other never points at a grab that is over, when windows, clients and
\* grabs come and go (events.c:1149-1150, 1272-1276).
FrozenByGrab ==
    \A d \in Device :
        /\ dev[d].frozen <=> dev[d].other # NoDevice \/ dev[d].state \in Frozen
        /\ dev[d].state = "NOT_GRABBED" <=> ~dev[d].grabbed
        /\ dev[d].other # NoDevice => dev[d].other # d /\ dev[dev[d].other].grabbed

\* A client whose grabs alone hold a device frozen can thaw it by allowing
\* its events, whichever of its grabs hold it (AllowSome, events.c:1336).
OwnerCanThaw ==
    stack = <<>> => \A c \in alive, d \in Device :
        /\ dev[d].frozen
        /\ dev[d].state \in Frozen => dev[d].grab.client = c
        /\ dev[d].other # NoDevice => dev[dev[d].other].grab.client = c
        => Allowed(c, d) /\ ~ReleaseThis(c, d, "THAWED")[d].frozen

\* An automatic grab of the pointer lasts while buttons are down, and no
\* grab outlasts its window, when the end of one grab plays events that
\* begin another (events.c:2937, 4330-4345).
GrabEnds ==
    stack = <<>> => \A d \in Device : dev[d].grabbed =>
        /\ dev[d].grab.win \in exists
        /\ d = Pointer /\ dev[d].auto => dev[d].down # {}

\* What the server has begun ends: the queue is played, and the passes of
\* ReleaseActiveGrabs come to an end although playing events may give the
\* client new grabs.
Finishes == []<>(stack = <<>>)

\* A client that has gone grabs nothing: ReleaseActiveGrabs, which
\* CloseDownClient calls with "XXX CloseDownClient should remove passive
\* grabs before releasing active grabs", leaves it none.
NoGhostGrab ==
    stack = <<>> => \A d \in Device : dev[d].grabbed => dev[d].grab.client \in alive
=============================================================================
