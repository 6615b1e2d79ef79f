------------------------------ MODULE InputFifo ------------------------------
(***************************************************************************)
(* What the input queue of mi/mieq.c promises the rest of the server: a    *)
(* bounded FIFO between the SIGIO handler and the dispatcher, in which     *)
(*   - a new event goes to the back, if there is room;                     *)
(*   - a motion may replace the newest entry, if that is a motion of the   *)
(*     same device;                                                        *)
(*   - valuators join the newest entry, up to NEVENTS events in all;       *)
(*   - the dispatcher takes the oldest entry, and what it works on from    *)
(*     then on is that entry, whatever the handler does in the meantime.   *)
(* Lost events (queue full) are steps that change nothing.                 *)
(***************************************************************************)
EXTENDS Naturals, Sequences, SequencesExt

CONSTANTS
    Capacity,       \* entries the queue holds
    NEVENTS,        \* events one entry holds
    MotionId(_)     \* device a queue entry is a motion of, 0 if it is none

VARIABLES
    queue,          \* entries posted and not yet taken, oldest first
    inHand          \* what the dispatcher works on: <<>> or one element

vars == <<queue, inHand>>

Init == queue = <<>> /\ inHand = <<>>

Put ==
    /\ Len(queue) < Capacity
    /\ Len(queue') = Len(queue) + 1
    /\ Front(queue') = queue
    /\ UNCHANGED inHand

Coalesce ==
    /\ queue # <<>>
    /\ Len(queue') = Len(queue)
    /\ Front(queue') = Front(queue)
    /\ MotionId(Last(queue)) # 0
    /\ MotionId(Last(queue')) = MotionId(Last(queue))
    /\ UNCHANGED inHand

Attach ==
    /\ queue # <<>>
    /\ Len(queue') = Len(queue)
    /\ Front(queue') = Front(queue)
    /\ LET old == Last(queue)  new == Last(queue')
       IN  /\ Len(old.event) < NEVENTS
           /\ Front(new.event) = old.event
           /\ new = [old EXCEPT !.event = new.event]
    /\ UNCHANGED inHand

\* The entry is handed to the device's processing routine ...
TakeEvent ==
    /\ queue # <<>> /\ inHand = <<>>
    /\ inHand' = <<Head(queue)>>
    /\ queue' = Tail(queue)

\* ... or consumed to move the pointer to the entry's screen.
TakeSwitch ==
    /\ queue # <<>> /\ inHand = <<>>
    /\ inHand' = <<[pScreen |-> Head(queue).pScreen,
                    x |-> Head(queue).event[1].rootX,
                    y |-> Head(queue).event[1].rootY]>>
    /\ queue' = Tail(queue)

Done ==
    /\ inHand # <<>> /\ inHand' = <<>>
    /\ UNCHANGED queue

Next == Put \/ Coalesce \/ Attach \/ TakeEvent \/ TakeSwitch \/ Done

Spec == Init /\ [][Next]_vars
=============================================================================
