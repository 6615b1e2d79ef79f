------------------------------- MODULE KdMouse -------------------------------
(***************************************************************************)
(* Middle button emulation of hw/kdrive/src/kinput.c for one pointer: what *)
(* a driver reads goes through KdEnqueuePointerEvent, which turns it into  *)
(* a motion and button changes; with emulation on, each of these runs      *)
(* KdRunMouseMachine, which may swallow it, or post other events first.    *)
(*                                                                         *)
(* An input is a record [type, x, b]; y and z behave as x.  `out' is what  *)
(* the last step handed to the event queue, in order.                      *)
(***************************************************************************)
EXTENDS Integers, Sequences

CONSTANTS
    nButtons,           \* of the device, KD_MAX_BUTTON at most
    Positions,          \* pointer coordinates
    EMULATION_WINDOW,   \* 10 in the code
    EMULATION_TIMEOUT,  \* 100 ms in the code
    MaxTime             \* bound on the clock

ASSUME MouseAssumption ==
    /\ nButtons \in Nat
    /\ Positions \subseteq Int /\ 0 \in Positions
    /\ {EMULATION_WINDOW, EMULATION_TIMEOUT, MaxTime} \subseteq Nat

Buttons == 1 .. nButtons

States == {"start", "button_1_pend", "button_1_down", "button_2_down",
           "button_3_pend", "button_3_down", "synth_2_down_13",
           "synth_2_down_3", "synth_2_down_1"}
Classes == {"down_1", "up_1", "down_2", "up_2", "down_3", "up_3", "down_o",
            "up_o", "motion", "outside_box", "keyboard", "timeout"}

VARIABLES
    emulate,            \* emulateMiddleButton, an option of the device
    machine,            \* [mouseState, eventHeld, heldEvent, timeoutPending,
                        \*  emulationTimeout]
    buttonState,        \* buttons the device last reported down
    position,           \* where it is
    now,
    out,                \* events the last step enqueued
    logical             \* buttons the server holds to be down

mouseVars == <<emulate, machine, buttonState, position, now, out, logical>>

PointerEvent(type, px, b) == [type |-> type, x |-> px, b |-> b]
NoEvent == [type |-> "None", x |-> 0, b |-> 0]

-----------------------------------------------------------------------------
(* kdInputMachine: two actions, MAX_ACTIONS, and the state to go to. *)

To(first, second, state) == [first |-> first, second |-> second, next |-> state]
Ignore(state) == To("noop", "noop", state)
Deliver(state) == To("deliver", "noop", state)
ReleaseHeld(state) == To("release", "deliver", state)

\* A button in state `down': its own press is ignored, its release ends it.
DownRow(c, press, up, down) ==
    CASE c \in {press, "keyboard", "timeout"} -> Ignore(down)
      [] c = up -> Deliver("start")
      [] OTHER  -> Deliver(down)

\* A button is held back until it is clear whether the other one follows.
PendRow(c, other, up, pend, down) ==
    CASE c = other     -> To("clearto", "gen_down_2", "synth_2_down_13")
      [] c = up        -> ReleaseHeld("start")
      [] c = "motion"  -> Deliver(pend)
      [] c = "timeout" -> To("release", "noop", down)
      [] OTHER         -> ReleaseHeld(down)

Transition(s, c) ==
    CASE s = "start" ->
            (CASE c = "down_1" -> To("hold", "setto", "button_1_pend")
               [] c = "down_3" -> To("hold", "setto", "button_3_pend")
               [] c = "down_2" -> Deliver("button_2_down")
               [] c \in {"keyboard", "timeout"} -> Ignore("start")
               [] OTHER -> Deliver("start"))
      [] s = "button_1_pend" ->
            (CASE c = "down_1"   -> Ignore("button_1_pend")
               [] c = "keyboard" -> Ignore("button_1_down")
               [] OTHER -> PendRow(c, "down_3", "up_1", "button_1_pend", "button_1_down"))
      [] s = "button_3_pend" ->
            (CASE c = "keyboard" -> To("release", "noop", "button_3_down")
               [] OTHER -> PendRow(c, "down_1", "up_3", "button_3_pend", "button_3_down"))
      [] s = "button_1_down" -> DownRow(c, "down_1", "up_1", "button_1_down")
      [] s = "button_2_down" -> DownRow(c, "down_2", "up_2", "button_2_down")
      [] s = "button_3_down" -> DownRow(c, "down_3", "up_3", "button_3_down")
      [] s = "synth_2_down_13" ->
            (CASE c = "up_1" -> To("gen_up_2", "noop", "synth_2_down_3")
               [] c = "up_3" -> To("gen_up_2", "noop", "synth_2_down_1")
               [] c \in {"down_o", "up_o", "motion", "outside_box"} ->
                     Deliver("synth_2_down_13")
               [] OTHER -> Ignore("synth_2_down_13"))
      [] s = "synth_2_down_3" ->
            (CASE c = "up_3" -> Ignore("start")
               [] c \in {"down_3", "keyboard", "timeout"} -> Ignore("synth_2_down_3")
               [] OTHER -> Deliver("synth_2_down_3"))
      [] s = "synth_2_down_1" ->
            (CASE c = "up_1" -> Ignore("start")
               [] c \in {"down_1", "keyboard", "timeout"} -> Ignore("synth_2_down_1")
               [] OTHER -> Deliver("synth_2_down_1"))

-----------------------------------------------------------------------------
Abs(n) == IF n < 0 THEN -n ELSE n
KdInsideEmulationWindow(m, px) == Abs(m.heldEvent.x - px) < EMULATION_WINDOW

PressClass(b) ==
    CASE b = 1 -> "down_1" [] b = 2 -> "down_2" [] b = 3 -> "down_3" [] OTHER -> "down_o"
ReleaseClass(b) ==
    CASE b = 1 -> "up_1" [] b = 2 -> "up_2" [] b = 3 -> "up_3" [] OTHER -> "up_o"

\* The class is always computed from the event; a timeout or a key, which
\* come without one, are both of class "keyboard".
KdClassifyInput(m, ev) ==
    CASE ev.type = "Press"   -> PressClass(ev.b)
      [] ev.type = "Release" -> ReleaseClass(ev.b)
      [] ev.type = "Motion"  ->
            IF m.eventHeld /\ ~ KdInsideEmulationWindow(m, ev.x)
            THEN "outside_box" ELSE "motion"
      [] OTHER -> "keyboard"

\* What the server makes of an event: buttons go down and up.
Apply(S, ev) ==
    CASE ev.type = "Press"   -> S \cup {ev.b}
      [] ev.type = "Release" -> S \ {ev.b}
      [] OTHER               -> S

\* r: what an action has made so far of the variables, and whether the event in
\* hand is swallowed (`stolen').  GetPointerEvents makes nothing of an event
\* without a type.
Enqueue(r, ev) ==
    IF ev.type = "None" THEN r
    ELSE [r EXCEPT !.out = Append(@, ev), !.logical = Apply(@, ev)]

\* (Mutant: "deliver", too, leaves at once.)
ActDeliverSteals(r, action, ev) ==
    CASE r.stolen -> r
      [] action = "hold" ->
            [r EXCEPT !.m.eventHeld = TRUE, !.m.heldEvent = ev, !.stolen = TRUE]
      [] action = "deliver" -> [Enqueue(r, r.m.heldEvent) EXCEPT !.stolen = TRUE]
      [] OTHER -> r

\* One action of a transition.  hold, release, gen_down_2 and gen_up_2 leave
\* KdRunMouseMachine at once: neither the actions after them are done nor is
\* the next state entered, and the event is swallowed.
\* "deliver" posts the held event, whatever event is being handled.
Act(r, action, ev) ==
    IF r.stolen THEN r ELSE
    CASE action = "hold" ->
            [r EXCEPT !.m.eventHeld = TRUE, !.m.heldEvent = ev, !.stolen = TRUE]
      [] action = "setto" ->
            [r EXCEPT !.m.emulationTimeout = now + EMULATION_TIMEOUT,
                      !.m.timeoutPending = TRUE]
      [] action = "deliver" -> Enqueue(r, r.m.heldEvent)
      [] action = "release" ->
            [Enqueue(r, r.m.heldEvent) EXCEPT
                !.m.eventHeld = FALSE, !.m.timeoutPending = FALSE, !.stolen = TRUE]
      [] action = "clearto" -> [r EXCEPT !.m.timeoutPending = FALSE]
      [] action = "gen_down_2" ->
            [Enqueue(r, PointerEvent("Press", ev.x, 2)) EXCEPT
                !.m.eventHeld = FALSE, !.stolen = TRUE]
      [] action = "gen_up_2" ->
            [Enqueue(r, PointerEvent("Release", ev.x, 2)) EXCEPT !.stolen = TRUE]
      [] action = "noop" -> r

KdRunMouseMachine(r, ev) ==
    LET t == Transition(r.m.mouseState, KdClassifyInput(r.m, ev))
        done == Act(Act([r EXCEPT !.stolen = FALSE], t.first, ev), t.second, ev)
    IN  IF done.stolen THEN done ELSE [done EXCEPT !.m.mouseState = t.next]

\* An event of the device: queued unless the machine swallows it.
_KdEnqueuePointerEvent(r, ev) ==
    LET done == IF emulate THEN KdRunMouseMachine(r, ev)
                           ELSE [r EXCEPT !.stolen = FALSE]
    IN  IF done.stolen THEN done ELSE Enqueue(done, ev)

\* One of the two loops over the buttons: events for those of S.
EachButton(r, type, S, px) ==
    LET after[n \in 0 .. nButtons] ==
            IF n = 0 THEN r
            ELSE IF n \in S
            THEN _KdEnqueuePointerEvent(after[n - 1], PointerEvent(type, px, n))
            ELSE after[n - 1]
    IN  after[nButtons]

Idle(m) == [m |-> m, out |-> <<>>, logical |-> logical, stolen |-> FALSE]
Result(r) == machine' = r.m /\ out' = r.out /\ logical' = r.logical

-----------------------------------------------------------------------------
MouseInit ==
    /\ emulate \in BOOLEAN
    /\ machine = [mouseState |-> "start", eventHeld |-> FALSE,
                  heldEvent |-> NoEvent, timeoutPending |-> FALSE,
                  emulationTimeout |-> 0]
    /\ buttonState = {} /\ position = 0 /\ now = 0 /\ out = <<>> /\ logical = {}

\* The events of one report of the device: a motion, then the releases, then
\* the presses, by button number.
KdEnqueuePointerEvent ==
    /\ \E px \in Positions, down \in SUBSET Buttons :
          LET moved    == _KdEnqueuePointerEvent(
                              Idle(machine), PointerEvent("Motion", px, 0))
              released == EachButton(moved, "Release", buttonState \ down, px)
          IN  /\ Result(EachButton(released, "Press", down \ buttonState, px))
              /\ buttonState' = down /\ position' = px
    /\ UNCHANGED <<emulate, now>>

\* A key: every pointer's machine runs, with or without emulation.
KdHandleKeyboardEvent ==
    /\ Result(KdRunMouseMachine(Idle(machine), NoEvent))
    /\ UNCHANGED <<emulate, buttonState, position, now>>

\* Time passes; KdWakeupHandler looks whether an emulation timed out.
KdWakeupHandler ==
    /\ now < MaxTime
    /\ now' \in now + 1 .. MaxTime
    /\ Result(IF machine.timeoutPending /\ now' >= machine.emulationTimeout
              THEN KdRunMouseMachine(Idle([machine EXCEPT !.timeoutPending = FALSE]),
                                     NoEvent)
              ELSE Idle(machine))
    /\ UNCHANGED <<emulate, buttonState, position>>

\* A keyboard is plugged in.
KdResetInputMachine ==
    /\ machine' = [machine EXCEPT !.mouseState = "start", !.eventHeld = FALSE]
    /\ out' = <<>>
    /\ UNCHANGED <<emulate, buttonState, position, now, logical>>

MouseNext ==
    \/ KdEnqueuePointerEvent \/ KdHandleKeyboardEvent
    \/ KdWakeupHandler \/ KdResetInputMachine

MouseSpec == MouseInit /\ [][MouseNext]_mouseVars

-----------------------------------------------------------------------------
Events == [type : {"Motion", "Press", "Release"}, x : Positions, b : Buttons \cup {0}]

MouseTypeOK ==
    /\ emulate \in BOOLEAN
    /\ machine \in [mouseState : States, eventHeld : BOOLEAN,
                    heldEvent : Events \cup {NoEvent}, timeoutPending : BOOLEAN,
                    emulationTimeout : Nat]
    /\ buttonState \subseteq Buttons /\ position \in Positions /\ now \in Nat
    /\ out \in Seq(Events) /\ logical \subseteq Buttons

\* The server's picture of the buttons that take no part in the emulation, or of
\* all buttons without it, is the device's: none is lost, swallowed or stuck,
\* whatever the machine holds back at the time (KdEnqueuePointerEvent,
\* KdRunMouseMachine).  The machine is in one of its states, and what it holds
\* back and posts are events of the device.
Emulated == IF emulate THEN {1, 2, 3} ELSE {}
ButtonsKept == MouseTypeOK /\ logical \ Emulated = buttonState \ Emulated
=============================================================================
