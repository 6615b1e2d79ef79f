----------------------------- MODULE SmartSched -----------------------------
(***************************************************************************)
(* Which client is served next, and for how long: SmartScheduleClient, the *)
(* time slices of Dispatch and the praise of TryClientEvents.  Times that  *)
(* the code keeps as ticks of SmartScheduleTime are kept as ages, counted  *)
(* in SmartScheduleIntervals and no further than the code can tell.        *)
(*                                                                         *)
(* All clients have the same SYNC priority, so that WaitForSomething hands *)
(* every ready client to SmartScheduleClient.                              *)
(***************************************************************************)
EXTENDS Integers, FiniteSets

CONSTANTS
    Clients,            \* indices of clients
    MinPriority,        \* SMART_MIN_PRIORITY
    MaxPriority,        \* SMART_MAX_PRIORITY
    MaxSlice,           \* SmartScheduleMaxSlice, in intervals
    LongTime,           \* the 1000 ms of SmartScheduleClient, in intervals
    MaxOutside          \* bound: user events and new clients

ASSUME SchedAssumption ==
    /\ Clients \subseteq 1 .. 255           \* MAXCLIENTS is 256, 0 is the server
    /\ MinPriority \in Int /\ MinPriority < 0
    /\ MaxPriority \in Nat
    /\ MaxSlice \in Nat \ {0} /\ LongTime \in Nat /\ MaxOutside \in Nat

None == 0

VARIABLES
    priority,           \* client -> smart_priority
    age,                \* client -> now - smart_check_tick
    startAge,           \* now - smart_start_tick of SmartLastClient
    slice,              \* SmartScheduleSlice
    SmartLastClient,
    SmartLastIndex,     \* priority -> index of the client last chosen at it
    ready,              \* clients with requests
    current,            \* client in Dispatch's inner loop, or None
    used,               \* now - start_tick, while there is a current client
    passed,             \* history: client -> those preferred to it since it
                        \* is ready at its priority
    outside             \* user events and new clients still to come

dues == <<priority, age>>
choice == <<SmartLastClient, SmartLastIndex, startAge, slice>>
schedVars == <<priority, age, startAge, slice, SmartLastClient, SmartLastIndex,
              ready, current, used, passed, outside>>

Priorities == MinPriority .. MaxPriority
IdleLimit == 2 * slice
Cap(n, limit) == IF n > limit THEN limit ELSE n

SchedInit ==
    /\ priority = [c \in Clients |-> 0]
    /\ age = [c \in Clients |-> 0]
    /\ startAge = 0
    /\ slice = 1
    /\ SmartLastClient = None
    /\ SmartLastIndex = [p \in Priorities |-> 0]
    /\ ready = {}
    /\ current = None
    /\ used = 0
    /\ passed = [c \in Clients |-> {}]
    /\ outside = MaxOutside

-----------------------------------------------------------------------------
(* SmartScheduleClient.                                                    *)

\* The priority of c once it has been praised for being idle.
Praised(c) ==
    IF c \in ready /\ age[c] >= IdleLimit /\ priority[c] < 0
    THEN priority[c] + 1 ELSE priority[c]

\* (Mutant: clients are not told apart by whose turn it is.)
RobinByIndex(c, last) == c
\* How far back from the last one chosen, among the 256 indices.
Robin(c, last) == (c - last) % 256

Best(c) ==
    /\ c \in ready
    /\ \A d \in ready \ {c} :
        \/ Praised(d) < Praised(c)
        \/ /\ Praised(d) = Praised(c)
           /\ Robin(d, SmartLastIndex[Praised(d)]) < Robin(c, SmartLastIndex[Praised(c)])

\* A client that has had the server to itself for long gets longer slices.
NewSlice(started) ==
    IF Cardinality(ready) # 1 THEN 1
    ELSE IF started > LongTime /\ slice < MaxSlice THEN slice + 1 ELSE slice

\* c is chosen: who has been passed over at the priority of c.
PassOver(c) ==
    [d \in Clients |->
        LET before == IF Praised(d) = priority[d] THEN passed[d] ELSE {}
        IN  IF d = c THEN {}
            ELSE IF d \in ready /\ Praised(d) = Praised(c) THEN before \cup {c}
            ELSE before]

\* (Mutant: the turn is not noted.)
ChooseForget(c) ==
    /\ current = None
    /\ Best(c)
    /\ priority' = [d \in Clients |-> Praised(d)]
    /\ age' = [d \in Clients |-> IF d \in ready THEN 0 ELSE age[d]]
    /\ SmartLastClient' = c
    /\ startAge' = IF SmartLastClient = c THEN startAge ELSE 0
    /\ slice' = NewSlice(startAge')
    /\ current' = c
    /\ used' = 0
    /\ passed' = PassOver(c)
    /\ UNCHANGED <<SmartLastIndex, ready, outside>>
\* All ready clients have been seen, and praised if that is due; c is chosen.
Choose(c) ==
    /\ current = None
    /\ Best(c)
    /\ priority' = [d \in Clients |-> Praised(d)]
    /\ age' = [d \in Clients |-> IF d \in ready THEN 0 ELSE age[d]]
    /\ SmartLastIndex' = [SmartLastIndex EXCEPT ![Praised(c)] = c]
    /\ SmartLastClient' = c
    /\ startAge' = IF SmartLastClient = c THEN startAge ELSE 0
    /\ slice' = NewSlice(startAge')
    /\ current' = c
    /\ used' = 0
    /\ passed' = PassOver(c)
    /\ UNCHANGED <<ready, outside>>

-----------------------------------------------------------------------------
(* Dispatch serves the current client.                                     *)

\* The slice is over before the next request is read.
Expire ==
    /\ current # None
    /\ used >= slice
    /\ priority' = [priority EXCEPT ![current] =
                        IF @ > MinPriority THEN @ - 1 ELSE @]
    /\ current' = None
    /\ used' = 0
    /\ UNCHANGED <<age, choice, ready, passed, outside>>

\* The client has no complete request any more, or is made to yield, or gets
\* an error; it may then still have requests.
Stop ==
    /\ current # None
    /\ ready' \in {ready, ready \ {current}}
    /\ current' = None
    /\ used' = 0
    /\ UNCHANGED <<dues, choice, passed, outside>>

-----------------------------------------------------------------------------
(* Meanwhile.                                                              *)

Tick ==
    /\ age' = [c \in Clients |-> Cap(age[c] + 1, 2 * MaxSlice)]
    /\ startAge' = Cap(startAge + 1, LongTime + 1)
    /\ used' = IF current = None THEN 0 ELSE Cap(used + 1, MaxSlice)
    /\ UNCHANGED <<priority, slice, SmartLastClient, SmartLastIndex, ready,
                   current, passed, outside>>

\* SmartScheduleTimer while a client is served.
TickInSlice == current # None /\ Tick

\* Requests of c arrive.
NewRequests(c) ==
    /\ c \notin ready
    /\ ready' = ready \cup {c}
    /\ UNCHANGED <<dues, choice, current, used, passed, outside>>

\* A device or SYNC or keyboard event that user input makes is sent to c.
UserEvent(c) ==
    /\ outside > 0 /\ outside' = outside - 1
    /\ priority[c] < MaxPriority
    /\ priority' = [priority EXCEPT ![c] = @ + 1]
    /\ passed' = [passed EXCEPT ![c] = {}]
    /\ UNCHANGED <<age, choice, ready, current, used>>

\* The connection of c is closed and a new client gets its index.
Replace(c) ==
    /\ outside > 0 /\ outside' = outside - 1
    /\ priority' = [priority EXCEPT ![c] = 0]
    /\ age' = [age EXCEPT ![c] = 0]
    /\ ready' = ready \ {c}
    /\ passed' = [passed EXCEPT ![c] = {}]
    /\ current' = IF current = c THEN None ELSE current
    /\ used' = IF current = c THEN 0 ELSE used
    /\ SmartLastClient' = None
    /\ UNCHANGED <<SmartLastIndex, startAge, slice>>

-----------------------------------------------------------------------------
SchedNext ==
    \/ \E c \in Clients : Choose(c)
    \/ Expire
    \/ Stop
    \/ Tick
    \/ \E c \in Clients : NewRequests(c)
    \/ \E c \in Clients : UserEvent(c)
    \/ \E c \in Clients : Replace(c)

\* Dispatch goes on to the next client, the interval timer ticks while it
\* serves one, and no request takes forever.
SchedFairness ==
    /\ WF_schedVars(\E c \in Clients : Choose(c))
    /\ WF_schedVars(TickInSlice)
    /\ WF_schedVars(Expire)

SchedSpec == SchedInit /\ [][SchedNext]_schedVars
SchedFairSpec == SchedSpec /\ SchedFairness

-----------------------------------------------------------------------------
\* The ranges of the variables.
SchedTypeOK ==
    /\ priority \in [Clients -> Priorities]
    /\ age \in [Clients -> 0 .. 2 * MaxSlice]
    /\ startAge \in 0 .. LongTime + 1
    /\ slice \in 1 .. MaxSlice
    /\ SmartLastClient \in Clients \cup {None}
    /\ SmartLastIndex \in [Priorities -> Clients \cup {0}]
    /\ ready \subseteq Clients
    /\ current \in Clients \cup {None}
    /\ used \in 0 .. MaxSlice
    /\ passed \in [Clients -> SUBSET Clients]
    /\ outside \in 0 .. MaxOutside

\* The turns that SmartLastIndex stands for: whoever has been preferred to a
\* ready client at its priority comes after it in the next round.
TurnKept ==
    \A c \in Clients : \A d \in passed[c] :
        LET last == SmartLastIndex[priority[c]]
        IN  Robin(d, last) < Robin(c, last)

\* While a client waits at one priority, SmartScheduleClient chooses no other
\* client at this priority twice.
RoundRobin ==
    [][\A c, d \in Clients :
        (/\ Choose(d)
         /\ c \in ready \ {d}
         /\ Praised(c) = priority[c]
         /\ Praised(d) = priority[c]) => d \notin passed[c]]_schedVars

\* Something other than the slices decides: a client gives up its turn before
\* its slice is over, gets user events or is new.
Early == Stop \/ \E c \in Clients : UserEvent(c) \/ Replace(c)

\* If, from some time on, clients stop for nothing but the end of their slices
\* and nobody gets user events, every ready client is served again and again:
\* penalties bring all busy clients down to where a waiting client is.
Served ==
    \A c \in Clients :
        \/ []<><<Early>>_schedVars
        \/ []<>(c \notin ready \/ current = c)
=============================================================================
