------------------------------- MODULE MCMiEq -------------------------------
(***************************************************************************)
(* MiEq for TLC: the refinement of the abstract queue InputFifo.           *)
(***************************************************************************)
EXTENDS MiEq

QueueLen == IF head <= tail THEN tail - head ELSE QUEUE_SIZE - head + tail
QueueSeq == [k \in 1 .. QueueLen |-> events[(head + k - 1) % QUEUE_SIZE]]

\* Behaviours are of two kinds.  In one the pointer moves between screens, all
\* devices send core events, and a burst comes only when it leaves a slot of
\* the ring free; in the other there is but one screen, and devices do as they
\* like.  (Outside of these the dispatcher may see a torn screen switch.)  The
\* clock moves in the second kind only, and only there events never end.
VARIABLE switching

Burst == 2      \* entries that one burst adds at most

MCInit == Init /\ switching \in BOOLEAN

\* After the first MaxPosts bursts one pointer goes on and on.
Storm ==
    /\ ~ switching /\ poster' = poster
    /\ Head(pending').type = "DeviceMotionNotify" /\ Head(pending').time = lastEventTime

MCNext ==
    /\ Next
    /\ switching /\ Posted => /\ QueueLen + Burst < QUEUE_SIZE - 1
                              /\ poster' \in CoreSending \cup {CorePointer}
                              /\ Head(pending').time = lastEventTime
    /\ posts = MaxPosts /\ Posted => Storm
    /\ ~ switching => pEnqueueScreen' = FirstScreen
    /\ UNCHANGED switching

MCSpec == MCInit /\ [][MCNext]_<<vars, switching>> /\ Fairness

\* What the dispatcher holds, read from where the code reads it: the popped
\* slot itself, or the locals copied from the slot before it was popped.
InHand ==
    IF pc \in {"Dispatch", "Process"} THEN <<events[e]>>
    ELSE IF pc = "NewScreen" THEN <<[pScreen |-> pDequeueScreen, x |-> x, y |-> y]>>
    ELSE <<>>

EntryMotionId(entry) == IsMotion(entry.event[1], entry.pDev)

Fifo == INSTANCE InputFifo WITH
    Capacity <- QUEUE_SIZE - 1, MotionId <- EntryMotionId,
    queue <- QueueSeq, inHand <- InHand

\* The ring, with its slots read in place, its coalescing and its torn
\* updates, is a FIFO (mieq.c:98-103 "Must be reentrant with
\* ProcessInputEvents").
ImplementsFifo == Fifo!Spec
=============================================================================
