----------------------------- MODULE ServerLoop -----------------------------
(***************************************************************************)
(* The server's main loop and the signals that interrupt it: Dispatch,     *)
(* WaitForSomething and ReadRequestFromClient in one thread; SIGIO, which  *)
(* queues input events, SIGALRM, which counts time, and SIGTERM and        *)
(* SIGHUP, which end a generation of the server, as steps between any two  *)
(* of its steps.  A signal that arrives while the server is blocked in     *)
(* select interrupts it; one that arrives just before select does not.     *)
(*                                                                         *)
(* One client stands for those that have requests: SmartSched says who is  *)
(* chosen, ClientInput whom the server listens to.                         *)
(***************************************************************************)
EXTENDS Naturals

CONSTANTS
    Slice,              \* SmartScheduleSlice, in ticks
    QueueSize,          \* bound: input events waiting
    MaxOther,           \* bound: new connections, sockets that become writable
    HasTimers           \* some OsTimer is always set, the screen saver's say

ASSUME LoopAssumption ==
    /\ Slice \in Nat \ {0} /\ QueueSize \in Nat \ {0} /\ MaxOther \in Nat
    /\ HasTimers \in BOOLEAN

VARIABLES
    pc,                 \* where the main thread is
    someReady,          \* WaitForSomething's: clients have requests already
    result,             \* what select returned
    socket,             \* requests wait in the client's socket
    buffered,           \* ClientsWithInput: complete requests are read already
    others,             \* other reasons for select to return, still to come
    queue,              \* input events queued, not processed
    overdue,            \* history: requests executed while events are queued
    SmartScheduleIdle,
    SmartScheduleTimerStopped,
    ticks,              \* SmartScheduleTime - start_tick
    isItTimeToYield,
    dispatchException,  \* a set of "RESET", "TERMINATE", "PRIORITYCHANGE"
    update,             \* what is about to be stored in it, and what follows
    asked               \* history: SIGTERM has come, not in the middle of Store

wait == <<someReady, result>>
client == <<socket, buffered>>
input == <<queue, overdue>>
schedule == <<SmartScheduleIdle, SmartScheduleTimerStopped>>
exceptions == <<dispatchException, update>>
vars == <<pc, wait, client, others, input, schedule, ticks, isItTimeToYield,
          exceptions, asked>>

Exceptions == {"RESET", "TERMINATE", "PRIORITYCHANGE"}
\* While a client is being served.
Serving == {"Start", "Inner", "InnerInput", "Slice", "Read", "Exec"}
PCs == Serving \cup
       {"Loop", "TopCheck", "TopInput", "Wait", "Idle", "Check", "Enter", "Select",
        "Wakeup", "Unidle", "Restart", "Look", "Round", "EndRound", "Store",
        "KillAll", "Ended", "Exited"}
Results == {"error", "timeout", "clients", "devices", "other"}

NoUpdate == [value |-> {}, next |-> "Loop"]

Init ==
    /\ pc = "Loop"
    /\ someReady = FALSE /\ result = "timeout"
    /\ socket = FALSE /\ buffered = FALSE
    /\ others = MaxOther
    /\ queue = 0 /\ overdue = 0
    /\ SmartScheduleIdle = FALSE
    /\ SmartScheduleTimerStopped = TRUE         \* SmartScheduleInit
    /\ ticks = 0
    /\ isItTimeToYield = FALSE
    /\ dispatchException = {} /\ update = NoUpdate
    /\ asked = FALSE

-----------------------------------------------------------------------------
(* Dispatch, before a client is chosen.                                    *)

Goto(p) == pc' = p

Loop ==
    /\ pc = "Loop"
    /\ Goto(IF dispatchException # {} THEN "KillAll" ELSE "TopCheck")
    /\ UNCHANGED <<wait, client, others, input, schedule, ticks, isItTimeToYield,
                   exceptions, asked>>

\* (Mutant: events are left to the loop that executes requests.)
TopCheckNever ==
    /\ pc = "TopCheck"
    /\ Goto("Wait")
    /\ someReady' = FALSE
    /\ UNCHANGED <<result, client, others, input, schedule, ticks, isItTimeToYield,
                   exceptions, asked>>
TopCheck ==
    /\ pc = "TopCheck"
    /\ Goto(IF queue > 0 THEN "TopInput" ELSE "Wait")
    /\ someReady' = FALSE
    /\ UNCHANGED <<result, client, others, input, schedule, ticks, isItTimeToYield,
                   exceptions, asked>>

\* ProcessInputEvents, on the way to a request or to select.
ProcessInput(from, to) ==
    /\ pc = from /\ Goto(to)
    /\ queue' = 0 /\ overdue' = 0
    /\ UNCHANGED <<wait, client, others, schedule, ticks, isItTimeToYield,
                   exceptions, asked>>

TopInput == ProcessInput("TopInput", "Wait")

-----------------------------------------------------------------------------
(* WaitForSomething.                                                       *)

Wait ==
    /\ pc = "Wait" /\ Goto("Idle")
    /\ someReady' = (someReady \/ buffered)
    /\ UNCHANGED <<result, client, others, input, schedule, ticks, isItTimeToYield,
                   exceptions, asked>>

Idle ==
    /\ pc = "Idle" /\ Goto("Check")
    /\ SmartScheduleIdle' = TRUE
    /\ UNCHANGED <<wait, client, others, input, SmartScheduleTimerStopped, ticks,
                   isItTimeToYield, exceptions, asked>>

\* The last look at dispatchException before select.
Check ==
    /\ pc = "Check"
    /\ IF dispatchException # {}
       THEN Goto("Wakeup") /\ result' = "error"
       ELSE Goto("Enter") /\ UNCHANGED result
    /\ UNCHANGED <<someReady, client, others, input, schedule, ticks, isItTimeToYield,
                   exceptions, asked>>

Returns(r) ==
    /\ result' = r /\ Goto("Wakeup")
    /\ others' = IF r = "other" THEN others - 1 ELSE others
    /\ UNCHANGED <<someReady, client, input, schedule, ticks, isItTimeToYield,
                   exceptions, asked>>

\* What select finds when it is entered.
Enter ==
    /\ pc = "Enter"
    /\ \/ socket /\ Returns("clients")
       \/ others > 0 /\ Returns("other")
       \/ ~socket /\ someReady /\ Returns("timeout")
       \/ /\ ~socket /\ ~someReady
          /\ Goto("Select")
          /\ UNCHANGED <<wait, client, others, input, schedule, ticks, isItTimeToYield,
                         exceptions, asked>>

\* Blocked in select.
SelectReady == pc = "Select" /\ socket /\ Returns("clients")
SelectOther == pc = "Select" /\ others > 0 /\ Returns("other")
SelectTimeout == pc = "Select" /\ HasTimers /\ Returns("timeout")

\* (Mutant: "i > 0" instead of "i >= 0".)
WakeupPositive ==
    /\ pc = "Wakeup"
    /\ Goto(IF result \in {"error", "timeout"} THEN "Look" ELSE "Unidle")
    /\ UNCHANGED <<wait, client, others, input, schedule, ticks, isItTimeToYield,
                   exceptions, asked>>
Wakeup ==
    /\ pc = "Wakeup"
    /\ Goto(IF result = "error" THEN "Look" ELSE "Unidle")
    /\ UNCHANGED <<wait, client, others, input, schedule, ticks, isItTimeToYield,
                   exceptions, asked>>

Unidle ==
    /\ pc = "Unidle" /\ Goto("Restart")
    /\ SmartScheduleIdle' = FALSE
    /\ UNCHANGED <<wait, client, others, input, SmartScheduleTimerStopped, ticks,
                   isItTimeToYield, exceptions, asked>>

Restart ==
    /\ pc = "Restart" /\ Goto("Look")
    /\ SmartScheduleTimerStopped' = FALSE
    /\ UNCHANGED <<wait, client, others, input, SmartScheduleIdle, ticks,
                   isItTimeToYield, exceptions, asked>>

ReturnReady(any) == Goto(IF any THEN "Round" ELSE "EndRound")

\* After an error or a time-out.  Timers may have expired when a signal came.
LookNone ==
    IF dispatchException # {} THEN ReturnReady(FALSE)
    ELSE IF result = "timeout" /\ someReady THEN ReturnReady(buffered)
    ELSE \/ ReturnReady(FALSE) /\ (queue > 0 \/ HasTimers)
         \/ Goto("Wait") /\ queue = 0 /\ result = "error"

\* Some socket is ready.  Timers are looked at unless events wait.
LookSome ==
    \/ ReturnReady(FALSE) /\ queue = 0 /\ HasTimers
    \/ IF result \in {"clients", "devices"} \/ (someReady /\ buffered)
       THEN ReturnReady(result = "clients" \/ (someReady /\ buffered))
       ELSE Goto("Wait")

\* (Mutant: after an error, only events and timers end the wait.)
LookOn ==
    /\ pc = "Look"
    /\ CASE result = "error" -> \/ ReturnReady(FALSE) /\ queue > 0
                                \/ Goto("Wait") /\ queue = 0
         [] result = "timeout" -> LookNone
         [] OTHER -> LookSome
    /\ UNCHANGED <<wait, client, others, input, schedule, ticks, isItTimeToYield,
                   exceptions, asked>>
Look ==
    /\ pc = "Look"
    /\ IF result \in {"error", "timeout"} THEN LookNone ELSE LookSome
    /\ UNCHANGED <<wait, client, others, input, schedule, ticks, isItTimeToYield,
                   exceptions, asked>>

-----------------------------------------------------------------------------
(* Dispatch serves the client it has chosen.                               *)

Round ==
    /\ pc = "Round"
    /\ Goto(IF dispatchException # {} THEN "EndRound" ELSE "Start")
    /\ UNCHANGED <<wait, client, others, input, schedule, ticks, isItTimeToYield,
                   exceptions, asked>>

Start ==
    /\ pc = "Start" /\ Goto("Inner")
    /\ isItTimeToYield' = FALSE
    /\ ticks' = 0
    /\ UNCHANGED <<wait, client, others, input, schedule, exceptions, asked>>

\* (Mutant: events wait until the client yields.)
InnerNoInput ==
    /\ pc = "Inner"
    /\ Goto(IF isItTimeToYield THEN "EndRound" ELSE "Slice")
    /\ UNCHANGED <<wait, client, others, input, schedule, ticks, isItTimeToYield,
                   exceptions, asked>>
Inner ==
    /\ pc = "Inner"
    /\ Goto(IF isItTimeToYield THEN "EndRound"
            ELSE IF queue > 0 THEN "InnerInput" ELSE "Slice")
    /\ UNCHANGED <<wait, client, others, input, schedule, ticks, isItTimeToYield,
                   exceptions, asked>>

InnerInput == ProcessInput("InnerInput", "Slice")

\* (Mutant: the slice is not looked at.)
SliceNever ==
    /\ pc = "Slice" /\ Goto("Read")
    /\ UNCHANGED <<wait, client, others, input, schedule, ticks, isItTimeToYield,
                   exceptions, asked>>
SliceOver ==
    /\ pc = "Slice"
    /\ Goto(IF ticks >= Slice THEN "EndRound" ELSE "Read")
    /\ UNCHANGED <<wait, client, others, input, schedule, ticks, isItTimeToYield,
                   exceptions, asked>>

\* A complete request, from the buffer or with a read from the socket; more
\* may be in the buffer then, and more have come.
ReadRequest ==
    /\ pc = "Read" /\ Goto("Exec")
    /\ socket \/ buffered
    /\ buffered' \in BOOLEAN
    /\ socket' \in IF buffered THEN {socket} ELSE BOOLEAN
    /\ UNCHANGED <<wait, others, input, schedule, ticks, isItTimeToYield,
                   exceptions, asked>>

\* No complete request.
ReadNothing ==
    /\ pc = "Read" /\ Goto("EndRound")
    /\ ~buffered
    /\ socket' = FALSE
    /\ isItTimeToYield' = TRUE
    /\ UNCHANGED <<wait, buffered, others, input, schedule, ticks, exceptions, asked>>

\* "dispatchException |= ..." reads it, and Store writes it: it is volatile, and
\* a handler may run in between.
Update(value, next) == update' = [value |-> value, next |-> next] /\ Goto("Store")

\* CloseDownClient.  The last client takes the generation of the server along.
CloseDown ==
    /\ buffered' = FALSE /\ socket' \in BOOLEAN
    /\ \/ Goto("EndRound") /\ UNCHANGED update
       \/ Update(dispatchException \cup {"RESET"}, "EndRound")

ReadGone ==
    /\ pc = "Read"
    /\ ~buffered
    /\ CloseDown
    /\ UNCHANGED <<wait, others, input, schedule, ticks, isItTimeToYield,
                   dispatchException, asked>>

\* A request succeeds, and may make the client yield; or it changes the SYNC
\* priority of a client; or it fails, and may cost the client its connection.
Exec ==
    /\ pc = "Exec"
    /\ overdue' = IF queue = 0 THEN 0 ELSE IF overdue < 2 THEN overdue + 1 ELSE 2
    /\ \/ /\ Goto("Inner") /\ isItTimeToYield' \in {isItTimeToYield, TRUE}
          /\ UNCHANGED <<client, update>>
       \/ /\ Update(dispatchException \cup {"PRIORITYCHANGE"}, "Inner")
          /\ isItTimeToYield' = TRUE
          /\ UNCHANGED client
       \/ Goto("EndRound") /\ UNCHANGED <<client, isItTimeToYield, update>>
       \/ CloseDown /\ UNCHANGED isItTimeToYield
    /\ UNCHANGED <<wait, others, queue, schedule, ticks, dispatchException, asked>>

EndRound ==
    /\ pc = "EndRound"
    /\ Update(dispatchException \ {"PRIORITYCHANGE"}, "Loop")
    /\ UNCHANGED <<wait, client, others, input, schedule, ticks, isItTimeToYield,
                   dispatchException, asked>>

Store ==
    /\ pc = "Store"
    /\ dispatchException' = update.value
    /\ Goto(update.next)
    /\ update' = NoUpdate
    /\ UNCHANGED <<wait, client, others, input, schedule, ticks, isItTimeToYield, asked>>

\* The end of Dispatch.
KillAll ==
    /\ pc = "KillAll"
    /\ socket' = FALSE /\ buffered' = FALSE
    /\ Update(dispatchException \ {"RESET"}, "Ended")
    /\ UNCHANGED <<wait, others, input, schedule, ticks, isItTimeToYield,
                   dispatchException, asked>>

\* main: the server exits, or sets everything up anew.
Ended ==
    /\ pc = "Ended"
    /\ IF "TERMINATE" \in dispatchException
       THEN Goto("Exited") /\ UNCHANGED <<input, SmartScheduleTimerStopped>>
       ELSE /\ Goto("Loop")
            /\ queue' = 0 /\ overdue' = 0
            /\ SmartScheduleTimerStopped' = TRUE
    /\ UNCHANGED <<wait, client, others, SmartScheduleIdle, ticks, isItTimeToYield,
                   exceptions, asked>>

-----------------------------------------------------------------------------
(* Signals and the world.                                                  *)

\* A handler runs between two steps, or interrupts select.
Handler == pc # "Exited"

Interrupt(returned) ==
    IF pc = "Select" THEN Goto("Wakeup") /\ result' \in returned
    ELSE UNCHANGED <<pc, result>>

\* The device's file may be seen to be readable before the handler reads it.
Sigio ==
    /\ Handler
    /\ queue < QueueSize /\ queue' = queue + 1
    /\ Interrupt({"error", "devices"})
    /\ UNCHANGED <<someReady, client, others, overdue, schedule, ticks,
                   isItTimeToYield, exceptions, asked>>

SmartScheduleTimer ==
    /\ Handler
    /\ ~SmartScheduleTimerStopped
    /\ ticks' = IF ticks < Slice THEN ticks + 1 ELSE Slice
    /\ SmartScheduleTimerStopped' = SmartScheduleIdle
    /\ Interrupt({"error"})
    /\ UNCHANGED <<someReady, client, others, input, SmartScheduleIdle, isItTimeToYield,
                   exceptions, asked>>

GiveUp ==
    /\ Handler
    /\ asked' = (asked \/ pc # "Store")
    /\ dispatchException' = dispatchException \cup {"TERMINATE"}
    /\ isItTimeToYield' = TRUE
    /\ Interrupt({"error"})
    /\ UNCHANGED <<someReady, client, others, input, schedule, ticks, update>>

AutoResetServer ==
    /\ Handler
    /\ dispatchException' = dispatchException \cup {"RESET"}
    /\ isItTimeToYield' = TRUE
    /\ Interrupt({"error"})
    /\ UNCHANGED <<someReady, client, others, input, schedule, ticks, update, asked>>

Arrive ==
    /\ pc # "Exited" /\ ~socket
    /\ socket' = TRUE
    /\ UNCHANGED <<pc, wait, buffered, others, input, schedule, ticks, isItTimeToYield,
                   exceptions, asked>>

-----------------------------------------------------------------------------
\* The steps the main thread takes by itself.
Main ==
    \/ Loop \/ TopCheck \/ TopInput
    \/ Wait \/ Idle \/ Check \/ Enter \/ Wakeup \/ Unidle \/ Restart \/ Look
    \/ Round \/ Start \/ Inner \/ InnerInput \/ SliceOver
    \/ ReadRequest \/ ReadNothing \/ ReadGone \/ Exec
    \/ EndRound \/ Store \/ KillAll \/ Ended

Next ==
    \/ Main
    \/ SelectReady \/ SelectOther \/ SelectTimeout
    \/ Sigio \/ SmartScheduleTimer \/ GiveUp \/ AutoResetServer
    \/ Arrive

\* The thread runs, select returns for what it waits for, the interval timer
\* ticks unless it is stopped.
Fairness ==
    /\ WF_vars(Main)
    /\ WF_vars(SelectReady)
    /\ WF_vars(SelectTimeout)
    /\ WF_vars(SmartScheduleTimer)

Spec == Init /\ [][Next]_vars
FairSpec == Spec /\ Fairness

-----------------------------------------------------------------------------
\* The ranges of the variables.
TypeOK ==
    /\ pc \in PCs
    /\ someReady \in BOOLEAN /\ result \in Results
    /\ socket \in BOOLEAN /\ buffered \in BOOLEAN
    /\ others \in 0 .. MaxOther
    /\ queue \in 0 .. QueueSize /\ overdue \in 0 .. 2
    /\ SmartScheduleIdle \in BOOLEAN /\ SmartScheduleTimerStopped \in BOOLEAN
    /\ ticks \in 0 .. Slice
    /\ isItTimeToYield \in BOOLEAN
    /\ dispatchException \subseteq Exceptions
    /\ update \in [value : SUBSET Exceptions, next : {"Loop", "EndRound", "Inner", "Ended"}]
    /\ asked \in BOOLEAN

\* While a client is served the interval timer runs, whenever SIGALRM found
\* the server idle: else a client could keep the server to itself.
TickRuns ==
    pc \in Serving => ~SmartScheduleIdle /\ ~SmartScheduleTimerStopped

\* No more than one request is executed between the queuing of an event and
\* its processing.
InputFirst == overdue <= 1

\* No client, however many requests it has, keeps the server from looking at
\* the others.
SliceEnds == []<>(pc \notin Serving)

\* Events are processed, though SIGIO may come after the last look at the
\* queue and before select: SIGALRM or a timer is there to end select.
InputHandled == queue > 0 ~> (queue = 0 \/ pc = "Exited")

\* doc/Xserver.man.pre:501 of SIGTERM: "This signal causes the server to exit
\* cleanly".  It does, whatever other signals come and wherever it falls but
\* between the load and the store of one of the main thread's updates of
\* dispatchException (dispatch.c:533, 540, 3613): there it may be lost, and one
\* that comes later is not.
Terminates == asked ~> (pc = "Exited")
=============================================================================
