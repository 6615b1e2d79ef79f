------------------------------ MODULE OsTimer ------------------------------
(***************************************************************************)
(* The timers of os/WaitFor.c: a list ordered by the time of expiry, on a  *)
(* clock of CARD32 milliseconds that wraps around and, where it is not     *)
(* CLOCK_MONOTONIC, may be set back.  WaitForSomething sleeps until the    *)
(* first timer expires, and runs what has expired when it wakes up; a      *)
(* callback may set and cancel timers and returns when to be called again. *)
(* While clients have requests in their buffers it only polls, and on some *)
(* ways out of select the timers are not looked at.                        *)
(*                                                                         *)
(* Nothing in the server passes TimerAbsolute or TimerForceOld, and delays *)
(* are far below 2^31 ms, so TimerSet never runs a callback itself.  Smart *)
(* scheduling is on, and the server does not end or reset.                 *)
(***************************************************************************)
EXTENDS Integers, Sequences

CONSTANTS
    Timers,
    Delays,             \* what a timer is set to, in clock units
    W,                  \* the clock counts 0 .. W - 1; 2^32 in the code
    SLACK,              \* 250 in CheckAllTimers
    MaxLag,             \* bound: how late the server may get to a timer
    MaxCheck,           \* bound: how long CheckAllTimers may take
    MaxBack             \* bound: how far back the clock is ever set

Half == W \div 2

ASSUME TimerAssumption ==
    /\ W \in Nat /\ W % 2 = 0 /\ Delays \subseteq Nat \ {0} /\ Delays # {}
    /\ MaxLag \in Nat /\ MaxCheck \in Nat /\ MaxBack \in Nat /\ SLACK \in Nat
    /\ \A d \in Delays : /\ d + MaxLag + MaxBack + SLACK < Half
                        /\ d + MaxCheck + MaxBack < Half

VARIABLES
    timers,             \* the list: [t, expires, delta], first one first
    clock,              \* what GetTimeInMillis returns
    pc,                 \* in Dispatch ("main") and WaitForSomething
    now, someReady,     \* its local variables; now is 0 when not read again
    ret,                \* what select returned (i in the code)
    timeout,            \* what is left of select's timeout; Forever: it is not
                        \* asked, or without one
    events,             \* checkForInput: events of devices wait
    back                \* how far the clock may still be set back

local == <<now, someReady, ret>>
vars == <<timers, clock, pc, local, timeout, events, back>>

Forever == -1

\* (int) of a CARD32 difference.
Signed(d) == IF d % W < Half THEN d % W ELSE (d % W) - W

\* (Mutant: the difference is taken as it is.)
BeforePlain(a, b) == a <= b
\* a is not later than b, for times less than half the range apart.
NotLater(a, b) == Signed(a - b) <= 0

Listed(l) == {l[j].t : j \in DOMAIN l}
Entry(l, t) == {l[k] : k \in {j \in DOMAIN l : l[j].t = t}}

-----------------------------------------------------------------------------
Unlink(l, t) ==
    IF t \in Listed(l)
    THEN LET n == CHOOSE j \in DOMAIN l : l[j].t = t
         IN  SubSeq(l, 1, n - 1) \o SubSeq(l, n + 1, Len(l))
    ELSE l

\* Before the first that expires later.
Insert(l, e) ==
    LET later == {j \in DOMAIN l : ~NotLater(l[j].expires, e.expires)}
        n == CHOOSE j \in later : \A k \in later : j <= k
    IN  IF later = {} THEN Append(l, e)
        ELSE SubSeq(l, 1, n - 1) \o <<e>> \o SubSeq(l, n, Len(l))

\* (Mutant: a timer that is set again is not taken out first.)
SetAgain(l, t, millis) ==
    IF millis = 0 THEN Unlink(l, t)
    ELSE Insert(l, [t |-> t, expires |-> (clock + millis) % W, delta |-> millis])
TimerSet(l, t, millis) ==
    IF millis = 0 THEN Unlink(l, t)
    ELSE Insert(Unlink(l, t),
                [t |-> t, expires |-> (clock + millis) % W, delta |-> millis])

\* What a callback may do to the list before it returns.
Callback(l) ==
    {l} \cup {TimerSet(l, u, d) : u \in Timers, d \in Delays \cup {0}}

\* The lists that may be left when t has been run.
DoTimer(l, t) ==
    UNION {{m} \cup {TimerSet(m, t, newTime) : newTime \in Delays}
           : m \in Callback(Unlink(l, t))}

-----------------------------------------------------------------------------
Init ==
    /\ timers = <<>> /\ clock \in 0 .. W - 1 /\ pc = "main" /\ now = 0
    /\ someReady = FALSE /\ ret = 0
    /\ timeout = Forever /\ events = FALSE /\ back = MaxBack

\* A handler of a request or an event, or a job of the work queue, sets or
\* cancels a timer.
Handler ==
    /\ pc \in {"main", "wait"}
    /\ \E t \in Timers, d \in Delays \cup {0} : timers' = TimerSet(timers, t, d)
    /\ UNCHANGED <<clock, pc, local, timeout, events, back>>

\* Dispatch processes the events that wait and calls WaitForSomething.
Dispatch ==
    /\ pc = "main" /\ pc' = "wait"
    /\ events' = FALSE /\ ret' = 0
    /\ UNCHANGED <<timers, clock, now, someReady, timeout, back>>

Rewound(e, n) == (e.expires - n) % W > e.delta + SLACK

Sleep(l, n) ==
    timeout' = IF l = <<>> THEN Forever
               ELSE IF NotLater(l[1].expires, n) THEN 0 ELSE Signed(l[1].expires - n)

\* Clients have requests in their buffers, now or at an earlier turn of the
\* loop: select is only asked what else there is.
BeginPoll ==
    /\ pc = "wait" /\ pc' = "sleep"
    /\ someReady' = TRUE /\ timeout' = 0 /\ ret' = 0
    /\ UNCHANGED <<timers, clock, now, events, back>>

\* (Mutant: the time to wait is that of the timer set last.)
BeginWaitLast ==
    /\ pc = "wait" /\ ~ someReady
    /\ pc' = "sleep" /\ ret' = 0
    /\ timeout' = IF timers = <<>> THEN Forever ELSE timers[Len(timers)].delta
    /\ UNCHANGED <<timers, clock, now, someReady, events, back>>
BeginWait ==
    /\ pc = "wait" /\ ~ someReady
    /\ IF timers # <<>> /\ Signed(timers[1].expires - clock) > 0 /\ Rewound(timers[1], clock)
       THEN pc' = "check" /\ now' = clock /\ UNCHANGED timeout
       ELSE pc' = "sleep" /\ UNCHANGED now /\ Sleep(timers, clock)
    /\ ret' = 0
    /\ UNCHANGED <<timers, clock, someReady, events, back>>

\* One turn of CheckAllTimers: the first affected timer is run, whatever its
\* time; when there is none, the server goes to sleep.
CheckAllTimers ==
    /\ pc = "check"
    /\ LET affected == {j \in DOMAIN timers : Rewound(timers[j], now)}
           first == CHOOSE j \in affected : \A k \in affected : j <= k
       IN  IF affected # {}
           THEN /\ timers' \in DoTimer(timers, timers[first].t)
                /\ UNCHANGED <<pc, now, timeout>>
           ELSE pc' = "sleep" /\ now' = 0 /\ Sleep(timers, now) /\ UNCHANGED timers
    /\ UNCHANGED <<clock, someReady, ret, events, back>>

\* Where the thread is when select has returned n: it bails out of a poll that
\* found nothing; when events wait it returns or, unless a client or a device
\* is readable, goes on waiting; or it looks at the timers.
\* (Mutant: the timers are looked at when nothing else was found only.)
OnlyIdle(n) ==
    IF n = 0 /\ someReady THEN {"main"}
    ELSE IF events /\ n <= 0 THEN {"main"}
    ELSE IF n > 0 THEN {"main", "wait"} ELSE {"look"}
Selected(n) ==
    IF n = 0 /\ someReady THEN {"main"}
    ELSE IF events THEN (IF n > 0 THEN {"main", "wait"} ELSE {"main"})
    ELSE {"look"}

\* select returns: 0 on time, -1 for a signal or a bad descriptor, or how many
\* descriptors are ready.
SelectReturns(n) ==
    /\ pc = "sleep" /\ (n = 0 => timeout = 0)
    /\ ret' = n /\ pc' \in Selected(n)
    /\ someReady' = (someReady /\ pc' # "main")
    /\ timeout' = Forever
    /\ UNCHANGED <<timers, clock, now, events, back>>

\* The time is read once, and what has expired by then is run.  If nothing
\* has, the loop goes on, or ends for a client or a device that is readable.
LookAtTimers ==
    /\ pc = "look"
    /\ IF timers # <<>> /\ NotLater(timers[1].expires, clock)
       THEN pc' = "run" /\ now' = clock
       ELSE pc' \in (IF ret > 0 THEN {"main", "wait"} ELSE {"wait"}) /\ UNCHANGED now
    /\ someReady' = (someReady /\ pc' # "main")
    /\ UNCHANGED <<timers, clock, ret, timeout, events, back>>

RunTimers ==
    /\ pc = "run"
    /\ IF timers # <<>> /\ NotLater(timers[1].expires, now)
       THEN timers' \in DoTimer(timers, timers[1].t) /\ UNCHANGED <<pc, now, someReady>>
       ELSE pc' = "main" /\ now' = 0 /\ someReady' = FALSE /\ UNCHANGED timers
    /\ UNCHANGED <<clock, ret, timeout, events, back>>

\* SIGIO: a device has reported something.  (Whenever it does, it is looked at
\* when select returns.)
Event ==
    /\ pc = "sleep" /\ events' = TRUE
    /\ UNCHANGED <<timers, clock, pc, local, timeout, back>>

\* Time passes; while it is not asleep on purpose, the server gets to each
\* timer before it is MaxLag late.
Tick ==
    /\ \/ pc = "sleep" /\ timeout > 0
       \/ \A j \in DOMAIN timers : Signed(clock + 1 - timers[j].expires) <= MaxLag
    /\ pc = "check" => Signed(clock + 1 - now) <= MaxCheck
    /\ clock' = (clock + 1) % W
    /\ timeout' = IF pc = "sleep" /\ timeout > 0 THEN timeout - 1 ELSE timeout
    /\ UNCHANGED <<timers, pc, local, events, back>>

\* The clock is set back.
SetBack ==
    /\ \E n \in 1 .. back : clock' = (clock - n) % W /\ back' = back - n
    /\ UNCHANGED <<timers, pc, local, timeout, events>>

Next ==
    \/ Handler \/ Dispatch \/ BeginPoll \/ BeginWait \/ CheckAllTimers
    \/ \E n \in {-1, 0, 1} : SelectReturns(n)
    \/ LookAtTimers \/ RunTimers \/ Event \/ Tick \/ SetBack

\* The server runs on, select returns when its time is up, time passes.
Fairness ==
    /\ WF_vars(Dispatch) /\ WF_vars(BeginPoll \/ BeginWait) /\ WF_vars(CheckAllTimers)
    /\ WF_vars(SelectReturns(0)) /\ WF_vars(LookAtTimers) /\ WF_vars(RunTimers)
    /\ WF_vars(Tick)

Spec == Init /\ [][Next]_vars /\ Fairness

-----------------------------------------------------------------------------
Entries == [t : Timers, expires : 0 .. W - 1, delta : Delays]

TypeOK ==
    /\ timers \in Seq(Entries) /\ clock \in 0 .. W - 1 /\ now \in 0 .. W - 1
    /\ pc \in {"main", "wait", "check", "sleep", "look", "run"}
    /\ someReady \in BOOLEAN /\ ret \in {-1, 0, 1} /\ events \in BOOLEAN
    /\ timeout \in Nat \cup {Forever} /\ back \in 0 .. MaxBack

\* The list is in order of expiry across the wrap of the clock, each timer in
\* it once.
Ordered ==
    \A j, k \in DOMAIN timers : j < k =>
        /\ timers[j].t # timers[k].t
        /\ NotLater(timers[j].expires, timers[k].expires)

\* The list is sound: in order, of timers that are set to expire on the clock.
ListSound == TypeOK /\ Ordered

\* While the clock runs forward, the server never sleeps past the expiry of
\* any timer, and so wakes up for each.
SleepsNoLonger ==
    pc = "sleep" /\ back = MaxBack =>
        \A j \in DOMAIN timers :
            timeout \in 0 .. (IF NotLater(timers[j].expires, clock) THEN 0
                              ELSE Signed(timers[j].expires - clock))

\* While the clock runs forward, no callback is run before its time; a timer
\* leaves the list or is set anew only then, or by its owner.
NeverEarly ==
    [][pc = "run" /\ back = MaxBack /\ timers' # timers
         => NotLater(timers[1].expires, clock)]_vars

\* From some time on, each time that select returns, it was a poll for clients
\* with buffered requests that found nothing else, or events of devices wait.
PassedOver == <>[][pc = "sleep" /\ pc' # "sleep" => (someReady /\ ret' = 0) \/ events]_vars

\* No timer stays as it is for ever, it is run, or set or cancelled by its
\* owner, in the end; unless the timers are passed over for ever, by a client
\* that always has another request in its buffer or a device that always has
\* another event.  Clients that keep select busy do not hold a timer up.
EachExpires ==
    \/ PassedOver
    \/ \A t \in Timers :
          []<><<t \notin Listed(timers) \/ Entry(timers', t) # Entry(timers, t)>>_vars
=============================================================================
