---------------------------- MODULE ClientInput ----------------------------
(***************************************************************************)
(* Whom the server listens to.  os/connection.c keeps sets of sockets:     *)
(* those select looks at, those of clients, those of clients with complete *)
(* requests already read into their buffers; copies of these that a server *)
(* grab sets aside (OnlyListenToOneClient); and the mark of clients that   *)
(* are ignored for a while (IgnoreClient).  WaitForSomething picks ready   *)
(* clients from them, Dispatch serves one of these for a time slice, and   *)
(* ReadRequestFromClient and the requests move clients between the sets.   *)
(*                                                                         *)
(* A client stands for its index and its socket.  Requests are counted;    *)
(* what a request is, is decided when it is executed, unless it is being   *)
(* executed again.                                                         *)
(***************************************************************************)
EXTENDS Naturals, FiniteSets

CONSTANTS
    Clients,            \* positive numbers
    Devices,            \* sockets of input devices
    WellKnown,          \* sockets listened on for new clients
    Kinds,              \* kinds of requests that clients make
    Roles               \* bounds on what the clients do, see role

ASSUME SocketAssumption ==
    /\ Clients \subseteq Nat \ {0} /\ Devices \subseteq Nat /\ WellKnown \subseteq Nat
    /\ Clients \cap Devices = {} /\ Clients \cap WellKnown = {}
    /\ Devices \cap WellKnown = {}

\* A client that used a delay is made to execute its request again.
ASSUME KindAssumption == "delay" \in Kinds => "plain" \in Kinds

\* Which clients there are, which of them use SYNC Await or XTEST delays and
\* which XTEST GrabControl, and how many requests wait in a socket at most.
ASSUME RoleAssumption ==
    Roles \subseteq [clients : SUBSET Clients, sleepers : SUBSET Clients,
                    testers : SUBSET Clients, limit : Nat]

None == 0

VARIABLES
    connected,          \* clients[]: not NullClient
    masks,              \* the fd_sets of os/connection.c, see Masks
    grabWaiters,        \* clients whose GrabServer waits for a grab to end
    grabState,          \* GrabNone, GrabKickout, GrabActive
    asleep,             \* clients ignored until a time or a counter comes
    socket,             \* client -> complete requests not read yet
    buffer,             \* client -> complete requests read, not executed
    redo,               \* client -> kind of the request to execute again
    hungup,             \* clients that closed their end
    EnabledDevices,
    current,            \* client in Dispatch's inner loop, or None
    role                \* one of Roles

vars == <<connected, masks, grabWaiters, grabState, asleep, socket, buffer,
          redo, hungup, EnabledDevices, current, role>>

\* AllClients, AllSockets, ClientsWithInput, their Saved copies,
\* IgnoredClientsWithInput, GrabImperviousClients, GrabInProgress.
Masks == [all : SUBSET Clients, sockets : SUBSET (Clients \cup Devices \cup WellKnown),
          input : SUBSET Clients, savedAll : SUBSET Clients,
          savedSockets : SUBSET (Clients \cup Devices \cup WellKnown),
          savedInput : SUBSET Clients, ignoredInput : SUBSET Clients,
          impervious : SUBSET Clients, grab : Clients \cup {None}]

-----------------------------------------------------------------------------
(* os/connection.c *)

\* (Mutant: clients with input keep their mark during a grab.)
OnlyListenKeepsInput(m, c) ==
    IF m.grab # None THEN m ELSE
    [m EXCEPT !.savedAll = m.all, !.savedSockets = m.sockets,
              !.all = (m.all \cap m.impervious) \cup {c},
              !.sockets = (m.sockets \ m.all) \cup (m.all \cap m.impervious) \cup {c},
              !.grab = c]
OnlyListenToOneClient(m, c) ==
    IF m.grab # None THEN m ELSE
    LET kept == m.impervious \cup {c}
    IN  [m EXCEPT !.input = @ \cap kept,
                  !.savedInput = m.input \ kept,
                  !.savedSockets = m.sockets,
                  !.savedAll = m.all,
                  !.all = (m.all \cap m.impervious) \cup {c},
                  !.sockets = (m.sockets \ m.all) \cup (m.all \cap m.impervious) \cup {c},
                  !.grab = c]

ListenToAllClients(m) ==
    IF m.grab = None THEN m ELSE
    [m EXCEPT !.sockets = @ \cup m.savedSockets,
              !.all = @ \cup m.savedAll,
              !.input = @ \cup m.savedInput,
              !.grab = None]

\* Puts c into or takes it out of the set S of marks.
Mark(S, c, on) == IF on THEN S \cup {c} ELSE S \ {c}

IgnoreClient(m, c) ==
    IF m.grab = None \/ c \in m.all
    THEN [m EXCEPT !.ignoredInput = Mark(@, c, c \in m.input),
                   !.input = @ \ {c}, !.sockets = @ \ {c}, !.all = @ \ {c}]
    ELSE [m EXCEPT !.ignoredInput = Mark(@, c, c \in m.savedInput),
                   !.savedInput = @ \ {c}, !.savedSockets = @ \ {c},
                   !.savedAll = @ \ {c}]

\* (Mutant: whether there is a grab is not looked at.)
AttendDuringGrab(m, c) ==
    [m EXCEPT !.all = @ \cup {c}, !.sockets = @ \cup {c},
              !.input = IF c \in m.ignoredInput THEN @ \cup {c} ELSE @]
AttendClient(m, c) ==
    IF m.grab \in {None, c} \/ c \in m.impervious
    THEN [m EXCEPT !.all = @ \cup {c}, !.sockets = @ \cup {c},
                   !.input = IF c \in m.ignoredInput THEN @ \cup {c} ELSE @]
    ELSE [m EXCEPT !.savedAll = @ \cup {c}, !.savedSockets = @ \cup {c},
                   !.savedInput = IF c \in m.ignoredInput THEN @ \cup {c} ELSE @]

MakeClientGrabImpervious(m, c) == [m EXCEPT !.impervious = @ \cup {c}]

MakeClientGrabPervious(m, c) ==
    IF m.grab \in {None, c}
    THEN [m EXCEPT !.impervious = @ \ {c}]
    ELSE [m EXCEPT !.impervious = @ \ {c},
                   !.savedInput = IF c \in m.input THEN @ \cup {c} ELSE @,
                   !.input = @ \ {c}, !.sockets = @ \ {c}, !.all = @ \ {c}]

CloseDownFileDescriptor(m, c) ==
    LET live == [m EXCEPT !.sockets = @ \ {c}, !.all = @ \ {c}, !.input = @ \ {c},
                          !.impervious = @ \ {c}]
    IN  IF m.grab = None THEN live
        ELSE [live EXCEPT !.savedSockets = @ \ {c}, !.savedAll = @ \ {c},
                          !.savedInput = @ \ {c}]

AllocNewConnection(m, c) ==
    IF m.grab # None
    THEN [m EXCEPT !.savedAll = @ \cup {c}, !.savedSockets = @ \cup {c}]
    ELSE [m EXCEPT !.all = @ \cup {c}, !.sockets = @ \cup {c}]

AddGeneralSocket(m, fd) ==
    [m EXCEPT !.sockets = @ \cup {fd},
              !.savedSockets = IF m.grab # None THEN @ \cup {fd} ELSE @]
RemoveGeneralSocket(m, fd) ==
    [m EXCEPT !.sockets = @ \ {fd},
              !.savedSockets = IF m.grab # None THEN @ \ {fd} ELSE @]

-----------------------------------------------------------------------------
(* dix/dispatch.c *)

Least(S) == CHOOSE c \in S : \A d \in S : c <= d

\* s: [masks, waiters, state].  One waiter is let go, the one of least index.
UngrabServer(s) ==
    LET m == ListenToAllClients(s.masks)
    IN  IF s.waiters = {}
        THEN [s EXCEPT !.masks = m, !.state = "GrabNone"]
        ELSE [s EXCEPT !.masks = AttendClient(m, Least(s.waiters)),
                       !.waiters = @ \ {Least(@)}, !.state = "GrabNone"]

Grabs == [masks |-> masks, waiters |-> grabWaiters, state |-> grabState]

\* The part of CloseDownClient that these variables see.
Closed(s, c) ==
    LET u == IF s.masks.grab = c THEN UngrabServer(s) ELSE s
    IN  [u EXCEPT !.masks = CloseDownFileDescriptor(@, c), !.waiters = @ \ {c}]

SetGrabs(s) == masks' = s.masks /\ grabWaiters' = s.waiters /\ grabState' = s.state

\* Every variable that knows client c, once c is closed down; `sock' and
\* `buf' are what sockets and buffers hold then.
CloseDownClient(s, sock, buf, c) ==
    /\ SetGrabs(Closed(s, c))
    /\ connected' = connected \ {c} /\ asleep' = asleep \ {c}
    /\ hungup' = hungup \ {c}
    /\ socket' = [sock EXCEPT ![c] = 0]
    /\ buffer' = [buf EXCEPT ![c] = 0]
    /\ redo' = [redo EXCEPT ![c] = "none"]

-----------------------------------------------------------------------------
Init ==
    /\ connected = {} /\ asleep = {} /\ hungup = {} /\ current = None
    /\ EnabledDevices = {}
    /\ masks = [all |-> {}, sockets |-> WellKnown, input |-> {}, savedAll |-> {},
                savedSockets |-> {}, savedInput |-> {}, ignoredInput |-> {},
                impervious |-> {}, grab |-> None]
    /\ grabWaiters = {} /\ grabState = "GrabNone"
    /\ socket = [c \in Clients |-> 0] /\ buffer = [c \in Clients |-> 0]
    /\ redo = [c \in Clients |-> "none"]
    /\ role \in Roles

(* Clients *)

ClientSends(c) ==
    /\ c \in connected \ hungup /\ socket[c] < role.limit
    /\ socket' = [socket EXCEPT ![c] = @ + 1]
    /\ UNCHANGED <<connected, masks, grabWaiters, grabState, asleep, buffer, redo,
                   hungup, EnabledDevices, current, role>>

ClientHangsUp(c) ==
    /\ c \in connected \ hungup
    /\ hungup' = hungup \cup {c}
    /\ UNCHANGED <<connected, masks, grabWaiters, grabState, asleep, socket, buffer,
                   redo, EnabledDevices, current, role>>

(* Between requests: work queue, block and wakeup handlers *)

EstablishNewConnections(c) ==
    /\ current = None /\ c \in role.clients \ connected
    /\ connected' = connected \cup {c}
    /\ masks' = AllocNewConnection(masks, c)
    /\ UNCHANGED <<grabWaiters, grabState, asleep, socket, buffer, redo, hungup,
                   EnabledDevices, current, role>>

\* A counter of the server or a timer reaches what c waits for.
Awaken(c) ==
    /\ current = None /\ c \in asleep
    /\ asleep' = asleep \ {c}
    /\ masks' = AttendClient(masks, c)
    /\ UNCHANGED <<connected, grabWaiters, grabState, socket, buffer, redo, hungup,
                   EnabledDevices, current, role>>

AddEnabledDevice(fd) ==
    /\ current = None /\ fd \notin EnabledDevices
    /\ EnabledDevices' = EnabledDevices \cup {fd}
    /\ masks' = AddGeneralSocket(masks, fd)
    /\ UNCHANGED <<connected, grabWaiters, grabState, asleep, socket, buffer, redo,
                   hungup, current, role>>

RemoveEnabledDevice(fd) ==
    /\ current = None /\ fd \in EnabledDevices
    /\ EnabledDevices' = EnabledDevices \ {fd}
    /\ masks' = RemoveGeneralSocket(masks, fd)
    /\ UNCHANGED <<connected, grabWaiters, grabState, asleep, socket, buffer, redo,
                   hungup, current, role>>

-----------------------------------------------------------------------------
(* WaitForSomething and the head of the loop in Dispatch: one of the clients *)
(* found ready is served, or none if a grab has just begun.                  *)

Readable == {c \in connected : socket[c] > 0 \/ c \in hungup}

\* Without an answer of select, whoever has input is taken as it is; else
\* it is added to what select found, of which the clients count.
ClientsReadable ==
    LET found == (masks.sockets \ masks.input) \cap Readable
        both  == (found \cup masks.input) \cap masks.all
    IN  IF found = {} THEN {masks.input, both} ELSE {both}

WaitForSomething ==
    /\ current = None
    /\ \E ready \in ClientsReadable : \E c \in ready :
          IF grabState = "GrabKickout"
          THEN current' = None /\ grabState' = "GrabActive"
          ELSE current' = c /\ UNCHANGED grabState
    /\ UNCHANGED <<connected, masks, grabWaiters, asleep, socket, buffer, redo,
                   hungup, EnabledDevices, role>>

\* The time slice is over.
SliceEnds ==
    /\ current # None /\ current' = None
    /\ UNCHANGED <<connected, masks, grabWaiters, grabState, asleep, socket, buffer,
                   redo, hungup, EnabledDevices, role>>

-----------------------------------------------------------------------------
(* ReadRequestFromClient and the execution of what it returns *)

NoRequest == current # None /\ buffer[current] = 0 /\ socket[current] = 0

ReadNothing ==
    /\ NoRequest /\ current \notin hungup
    /\ masks' = [masks EXCEPT !.input = @ \ {current}]
    /\ current' = None
    /\ UNCHANGED <<connected, grabWaiters, grabState, asleep, socket, buffer, redo,
                   hungup, EnabledDevices, role>>

ReadFails ==
    /\ NoRequest /\ current \in hungup
    /\ CloseDownClient(Grabs, socket, buffer, current)
    /\ current' = None
    /\ UNCHANGED <<EnabledDevices, role>>

\* Only an empty buffer is read into; a read returns some of what there is.
Reads == IF buffer[current] = 0 THEN 1 .. socket[current] ELSE {0}

\* (Mutant: what is left in the buffer is not noted.)
InputUnmarked(m, c, left) == IF left = 0 THEN [m EXCEPT !.input = @ \ {c}] ELSE m
\* A further complete request in the buffer: select need not be asked.
InputMarked(m, c, left) == [m EXCEPT !.input = Mark(@, c, left > 0)]

\* The request is put back into the buffer.
ResetCurrentRequest(m, c) ==
    IF c \in m.all THEN [m EXCEPT !.input = @ \cup {c}]
                   ELSE [m EXCEPT !.ignoredInput = @ \cup {c}]

KindsOf(c) ==
    IF redo[c] # "none" THEN {redo[c]}
    ELSE {k \in Kinds : /\ k \in {"await", "delay"} => c \in role.sleepers
                        /\ k \in {"impervious", "pervious"} => c \in role.testers}

\* r: the grab state, sleepers, whether the request is to be made again, and
\* as what ("none": it is not), and whether the client yields.
Did(s, a, again, yield) == [s |-> s, asleep |-> a, again |-> again, yield |-> yield]

ProcGrabServer(s, c) ==
    IF s.masks.grab \notin {None, c}
    THEN Did([s EXCEPT !.masks = IgnoreClient(ResetCurrentRequest(@, c), c),
                       !.waiters = @ \cup {c}], asleep, "grab", TRUE)
    ELSE Did([s EXCEPT !.masks = OnlyListenToOneClient(@, c), !.state = "GrabKickout"],
             asleep, "none", FALSE)

SyncAwait(s, c) ==
    Did([s EXCEPT !.masks = IgnoreClient(@, c)], asleep \cup {c}, "none", TRUE)

\* ProcXTestFakeInput with a delay: executed again, without it.
FakeInputDelay(s, c) ==
    Did([s EXCEPT !.masks = ResetCurrentRequest(IgnoreClient(@, c), c)],
        asleep \cup {c}, "plain", TRUE)

GrabControl(s, c, impervious) ==
    IF impervious
    THEN Did([s EXCEPT !.masks = MakeClientGrabImpervious(@, c)], asleep, "none", FALSE)
    ELSE Did([s EXCEPT !.masks = MakeClientGrabPervious(@, c)], asleep, "none",
             s.masks.grab \notin {None, c})

\* What one request of client c may do.
Outcomes(s, c, kind) ==
    CASE kind = "plain"      -> {Did(s, asleep, "none", FALSE)}
      [] kind = "grab"       -> {ProcGrabServer(s, c)}
      [] kind = "ungrab"     -> {Did(UngrabServer(s), asleep, "none", FALSE)}
      [] kind = "await"      -> {SyncAwait(s, c)}
      [] kind = "delay"      -> {FakeInputDelay(s, c)}
      [] kind = "trigger"    -> {Did([s EXCEPT !.masks = AttendClient(@, d)],
                                     asleep \ {d}, "none", FALSE) : d \in asleep}
      [] kind = "impervious" -> {GrabControl(s, c, TRUE)}
      [] kind = "pervious"   -> {GrabControl(s, c, FALSE)}
      [] OTHER -> {}

\* One request: read, then executed.  `left' is what stays in the buffer.
Request(kind) ==
    LET c == current IN
    /\ current # None /\ ~ NoRequest /\ kind \in KindsOf(c)
    /\ \E taken \in Reads : \E r \in Outcomes(
            [Grabs EXCEPT !.masks = InputMarked(@, c, buffer[c] + taken - 1)], c, kind) :
          /\ SetGrabs(r.s)
          /\ asleep' = r.asleep
          /\ redo' = [redo EXCEPT ![c] = r.again]
          /\ buffer' = [buffer EXCEPT
                ![c] = @ + taken - (IF r.again = "none" THEN 1 ELSE 0)]
          /\ socket' = [socket EXCEPT ![c] = @ - taken]
          /\ current' = IF r.yield THEN None ELSE c
    /\ UNCHANGED <<connected, hungup, EnabledDevices, role>>

ProcKillClient ==
    LET c == current IN
    /\ current # None /\ ~ NoRequest /\ "kill" \in KindsOf(c)
    /\ \E taken \in Reads, d \in connected :
          /\ CloseDownClient(
                [Grabs EXCEPT !.masks = InputMarked(@, c, buffer[c] + taken - 1)],
                [socket EXCEPT ![c] = @ - taken],
                [buffer EXCEPT ![c] = @ + taken - 1], d)
          /\ current' = IF c = d THEN None ELSE c
    /\ UNCHANGED <<EnabledDevices, role>>

Next ==
    \/ \E c \in Clients : ClientSends(c) \/ ClientHangsUp(c)
    \/ \E c \in Clients : EstablishNewConnections(c) \/ Awaken(c)
    \/ \E fd \in Devices : AddEnabledDevice(fd) \/ RemoveEnabledDevice(fd)
    \/ WaitForSomething \/ SliceEnds \/ ReadNothing \/ ReadFails
    \/ \E kind \in Kinds : Request(kind)
    \/ ProcKillClient

Spec == Init /\ [][Next]_vars

-----------------------------------------------------------------------------
TypeOK ==
    /\ connected \subseteq Clients /\ asleep \subseteq Clients /\ hungup \subseteq Clients
    /\ masks \in Masks /\ grabWaiters \subseteq Clients
    /\ grabState \in {"GrabNone", "GrabKickout", "GrabActive"}
    /\ socket \in [Clients -> Nat] /\ buffer \in [Clients -> Nat]
    /\ redo \in [Clients -> Kinds \cup {"none"}]
    /\ EnabledDevices \subseteq Devices
    /\ current \in Clients \cup {None} /\ role \in Roles

Ignored == asleep \cup grabWaiters
HeldBack == IF masks.grab = None THEN {} ELSE connected \ (masks.impervious \cup {masks.grab})

\* Whatever happened since, the sockets listened to are those of the clients
\* that are neither ignored nor held back by a grab, and what is not a client.
Listened ==
    /\ masks.all = connected \ (Ignored \cup HeldBack)
    /\ masks.sockets = masks.all \cup EnabledDevices \cup WellKnown

\* While a client has the server to itself, no other client that is not
\* impervious is served.
GrabExclusive ==
    [][\A c \in Clients : buffer'[c] + socket'[c] < buffer[c] + socket[c] /\ c \in connected'
         => c \notin HeldBack]_vars

\* A complete request in a buffer is found again: its client is marked, in
\* the set that applies to it.
NothingForgotten ==
    current = None =>
        \A c \in connected : buffer[c] > 0 =>
            c \in (IF c \in Ignored THEN masks.ignoredInput
                   ELSE IF c \in HeldBack THEN masks.savedInput ELSE masks.input)

\* "ListenToAllClients: undoes OnlyListenToOneClient" (connection.c:1145).
NoneDeaf == masks.grab = None => connected \ Ignored \subseteq masks.all
=============================================================================
