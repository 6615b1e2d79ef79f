-------------------------------- MODULE Xdmcp --------------------------------
(***************************************************************************)
(* os/xdmcp.c: how the server finds a display manager, asks it for a       *)
(* session and watches over it.  Messages are lost, duplicated, and        *)
(* overtake one another; managers decline, crash, and start again.         *)
(*                                                                         *)
(* The ways to ask (-query, -broadcast, -indirect) differ in whom they     *)
(* ask, which is `Queried'.  How long the timer takes is left open, but    *)
(* not what sets it anew, nor when it is looked at: after a select that    *)
(* found nothing, so that clients who talk put it off.  What is answered   *)
(* is authentic and well-formed, every client that connects is let in, and *)
(* its record ends with its connection.  Signals are in ServerLoop.        *)
(***************************************************************************)
EXTENDS Naturals, FiniteSets, FiniteSetsExt

CONSTANTS
    Managers,           \* the display managers
    Queried,            \* those a query reaches
    XDM_RTX_LIMIT, XDM_KA_RTX_LIMIT,
    MaxSessions,        \* numbers for sessions: enough that one is unused
    MaxNet,             \* messages the network holds: more are lost
    MaxOpen,            \* descriptors for clients
    Options,            \* -once or not, and what the end of the last client
                        \* raises: by default, with -noreset, with -terminate
    MaxFaults           \* bound on other messages that are lost, on those that
                        \* come twice, on refusals and crashes of managers,
                        \* and on visits of clients that no manager starts

ASSUME BoundsAssumption ==
    /\ {MaxSessions, MaxNet, MaxOpen, MaxFaults} \subseteq Nat
    /\ {XDM_RTX_LIMIT, XDM_KA_RTX_LIMIT} \subseteq Nat \ {0}
    /\ Queried \subseteq Managers
    /\ Options \subseteq BOOLEAN \X {{"DE_RESET"}, {}, {"DE_TERMINATE"}}

VARIABLES
    OneSession,         \* the option -once
    dispatchExceptionAtReset,
    state,              \* the state of the protocol
    timeOutRtx,         \* retransmissions since a packet came
    SessionID,
    req_sockaddr,       \* the manager that was selected
    sessionSocket,      \* the connection whose end is the session's
    dispatchException,  \* why the server is about to leave its main loop
    due,                \* timeOutTime has come, and select finds nothing else
    open,               \* descriptors the records of clients are known by
    hungUp,             \* those whose other end is closed
    net,                \* messages under way
    mgr,                \* each manager's session and its connection
    faults

protocolVars == <<state, timeOutRtx, SessionID, req_sockaddr>>
clientVars == <<open, hungUp>>
optionVars == <<OneSession, dispatchExceptionAtReset>>
loopVars == <<sessionSocket, dispatchException, due>>
serverVars == <<optionVars, protocolVars, loopVars, clientVars>>
xdmcpVars == <<serverVars, net, mgr, faults>>

Msg(type, m, id) == [type |-> type, mgr |-> m, id |-> id, copy |-> 1]
\* The network takes messages as long as there is room.
Sent(msgs, rest) ==
    IF Cardinality(rest \cup msgs) <= MaxNet THEN rest \cup msgs ELSE rest

Fault == faults < MaxFaults /\ faults' = faults + 1

\* What a manager knows of the display.
NoSession == [status |-> "none", id |-> 0, sock |-> 0]

InSession == state \in {"XDM_RUN_SESSION", "XDM_AWAIT_ALIVE_RESPONSE"}

-----------------------------------------------------------------------------
(* Sending. *)

\* What is sent in a state.
Packets(s, m, id) ==
    CASE s = "XDM_QUERY"            -> {Msg("QUERY", q, 0) : q \in Queried}
      [] s = "XDM_START_CONNECTION" -> {Msg("REQUEST", m, 0)}
      [] s = "XDM_MANAGE"           -> {Msg("MANAGE", m, id)}
      [] s = "XDM_KEEPALIVE"        -> {Msg("KEEPALIVE", m, id)}
      [] OTHER                      -> {}

\* The state in which its answer is awaited.
\* (Mutant: the answer to a query is not.)
AwaitingNotQueries(s) ==
    CASE s = "XDM_START_CONNECTION" -> "XDM_AWAIT_REQUEST_RESPONSE"
      [] s = "XDM_MANAGE"           -> "XDM_AWAIT_MANAGE_RESPONSE"
      [] s = "XDM_KEEPALIVE"        -> "XDM_AWAIT_ALIVE_RESPONSE"
      [] OTHER                      -> s
Awaiting(s) ==
    CASE s = "XDM_QUERY"            -> "XDM_COLLECT_QUERY"
      [] s = "XDM_START_CONNECTION" -> "XDM_AWAIT_REQUEST_RESPONSE"
      [] s = "XDM_MANAGE"           -> "XDM_AWAIT_MANAGE_RESPONSE"
      [] s = "XDM_KEEPALIVE"        -> "XDM_AWAIT_ALIVE_RESPONSE"
      [] OTHER                      -> s

\* The state in which it is sent again.
Again(s) ==
    CASE s = "XDM_COLLECT_QUERY"          -> "XDM_QUERY"
      [] s = "XDM_AWAIT_REQUEST_RESPONSE" -> "XDM_START_CONNECTION"
      [] s = "XDM_AWAIT_MANAGE_RESPONSE"  -> "XDM_MANAGE"
      [] s = "XDM_AWAIT_ALIVE_RESPONSE"   -> "XDM_KEEPALIVE"
      [] OTHER                            -> s

\* send_packet, which sets the timer.  A request that cannot be sent leaves
\* the state as it is, to be sent at the next timeout; other packets are
\* counted as sent.
send_packet(s, m, id, rest) ==
    /\ due' = FALSE
    /\ \/ /\ net' = Sent(Packets(s, m, id), rest) /\ state' = Awaiting(s)
          /\ UNCHANGED faults
       \/ /\ s = "XDM_START_CONNECTION" /\ Fault
          /\ net' = rest /\ state' = s

\* What ends a session also ends the server's generation.
XdmcpDeadSession(rest) ==
    /\ send_packet("XDM_QUERY", req_sockaddr, 0, rest)
    /\ timeOutRtx' = 0
    /\ dispatchException' = dispatchException \cup {"DE_RESET"}

-----------------------------------------------------------------------------
(* The server. *)

\* Whenever select finds something while a session runs and there are clients,
\* the session's timer is set anew.
Dormant == state = "XDM_RUN_SESSION" /\ open # {}

\* The timer's time comes when there is nothing else for select to find.
Elapse ==
    /\ ~ due /\ dispatchException = {}
    /\ due' = TRUE
    /\ UNCHANGED <<optionVars, protocolVars, sessionSocket, dispatchException,
                   clientVars, net, mgr, faults>>

\* A client's request or a device's event is found as well.  If a session runs
\* the timer is set anew; else it is not looked at before all is read.
Talk ==
    /\ due /\ dispatchException = {}
    /\ due' = FALSE
    /\ UNCHANGED <<optionVars, protocolVars, sessionSocket, dispatchException,
                   clientVars, net, mgr, faults>>

\* XdmcpInit: the first query is sent.
XdmcpInit ==
    /\ state = "XDM_COLLECT_QUERY" /\ timeOutRtx = 0 /\ SessionID = 0
    /\ net = Sent({Msg("QUERY", q, 0) : q \in Queried}, {})
    /\ req_sockaddr \in Managers /\ sessionSocket = 0
    /\ dispatchException = {} /\ due = FALSE
    /\ open = {} /\ hungUp = {}
    /\ \E o \in Options : OneSession = o[1] /\ dispatchExceptionAtReset = o[2]
    /\ mgr = [m \in Managers |-> NoSession]
    /\ faults = 0

\* The packets of managers.
Willing(msg, rest) ==
    /\ msg.type = "WILLING" /\ state = "XDM_COLLECT_QUERY"
    /\ req_sockaddr' = msg.mgr
    /\ send_packet("XDM_START_CONNECTION", msg.mgr, SessionID, rest)
    /\ timeOutRtx' = 0
    /\ UNCHANGED <<SessionID, dispatchException>>

Accept(msg, rest) ==
    /\ msg.type = "ACCEPT" /\ state = "XDM_AWAIT_REQUEST_RESPONSE"
    /\ SessionID' = msg.id
    /\ send_packet("XDM_MANAGE", req_sockaddr, msg.id, rest)
    /\ timeOutRtx' = 0
    /\ UNCHANGED <<req_sockaddr, dispatchException>>

Refuse(msg, rest) ==
    /\ msg.type = "REFUSE" /\ state = "XDM_AWAIT_MANAGE_RESPONSE"
    /\ msg.id = SessionID
    /\ send_packet("XDM_START_CONNECTION", req_sockaddr, SessionID, rest)
    /\ timeOutRtx' = 0
    /\ UNCHANGED <<SessionID, req_sockaddr, dispatchException>>

\* An ALIVE whose SessionRunning is 0 has 0 for its session here.
\* (Mutant: what the answer says is not looked at.)
AliveAnyway(msg, rest) ==
    /\ msg.type = "ALIVE" /\ state = "XDM_AWAIT_ALIVE_RESPONSE"
    /\ state' = "XDM_RUN_SESSION" /\ timeOutRtx' = 0 /\ due' = FALSE /\ net' = rest
    /\ UNCHANGED <<faults, dispatchException, SessionID, req_sockaddr>>
Alive(msg, rest) ==
    /\ msg.type = "ALIVE" /\ state = "XDM_AWAIT_ALIVE_RESPONSE"
    /\ IF msg.id = SessionID
       THEN /\ state' = "XDM_RUN_SESSION" /\ timeOutRtx' = 0 /\ due' = FALSE
            /\ net' = rest /\ UNCHANGED <<faults, dispatchException>>
       ELSE XdmcpDeadSession(rest)
    /\ UNCHANGED <<SessionID, req_sockaddr>>

\* XdmcpFatal ends the server.
Fatal(msg, rest) ==
    /\ \/ msg.type \in {"UNWILLING", "DECLINE"}
       \/ /\ msg.type = "FAILED" /\ state = "XDM_AWAIT_MANAGE_RESPONSE"
          /\ msg.id = SessionID
    /\ dispatchException' = {"FatalError"} /\ timeOutRtx' = 0 /\ net' = rest
    /\ UNCHANGED <<state, SessionID, req_sockaddr, due, faults>>

\* An answer that is not awaited resets the retransmissions all the same.
NotAwaited(msg, rest) ==
    /\ \/ msg.type = "WILLING" /\ state # "XDM_COLLECT_QUERY"
       \/ msg.type = "ACCEPT" /\ state # "XDM_AWAIT_REQUEST_RESPONSE"
       \/ /\ msg.type \in {"REFUSE", "FAILED"}
          /\ state # "XDM_AWAIT_MANAGE_RESPONSE" \/ msg.id # SessionID
       \/ msg.type = "ALIVE" /\ state # "XDM_AWAIT_ALIVE_RESPONSE"
    /\ timeOutRtx' = 0 /\ net' = rest
    /\ due' = (due /\ ~ Dormant)
    /\ UNCHANGED <<state, SessionID, req_sockaddr, faults, dispatchException>>

\* receive_packet.
Receive ==
    /\ dispatchException = {}
    /\ \E msg \in net : LET rest == net \ {msg} IN
          \/ Willing(msg, rest) \/ Accept(msg, rest) \/ Refuse(msg, rest)
          \/ Alive(msg, rest) \/ Fatal(msg, rest) \/ NotAwaited(msg, rest)
    /\ UNCHANGED <<optionVars, sessionSocket, clientVars, mgr>>

\* The timer is looked at when select found nothing, was interrupted, or is
\* not asked because the server is about to leave its main loop.
TimerSeen == due /\ "FatalError" \notin dispatchException

\* The timer of a session: ask whether it is alive.
KeepAlive ==
    /\ TimerSeen /\ state = "XDM_RUN_SESSION"
    /\ send_packet("XDM_KEEPALIVE", req_sockaddr, SessionID, net)
    /\ UNCHANGED <<optionVars, timeOutRtx, SessionID, req_sockaddr, sessionSocket,
                   dispatchException, clientVars, mgr>>

\* timeout.  Without -once, too many retransmissions are a dead session.
TooMany(n) ==
    \/ state = "XDM_AWAIT_ALIVE_RESPONSE" /\ n >= XDM_KA_RTX_LIMIT
    \/ n >= XDM_RTX_LIMIT /\ ~ OneSession

\* (At a limit that ends the server the timer is seen for the last time.)
Timeout ==
    /\ TimerSeen /\ state # "XDM_RUN_SESSION"
    /\ LET n == timeOutRtx + 1
       IN  \/ /\ TooMany(n) /\ XdmcpDeadSession(net)
           \/ /\ ~ TooMany(n) /\ n >= XDM_RTX_LIMIT
              /\ dispatchException' = dispatchException \cup {"DE_TERMINATE"}
              /\ timeOutRtx' = n /\ due' = FALSE
              /\ UNCHANGED <<state, net, faults>>
           \/ /\ ~ TooMany(n) /\ n < XDM_RTX_LIMIT
              /\ send_packet(Again(state), req_sockaddr, SessionID, net)
              /\ timeOutRtx' = n
              /\ UNCHANGED dispatchException
    /\ UNCHANGED <<optionVars, SessionID, req_sockaddr, sessionSocket,
                   clientVars, mgr>>

\* XdmcpOpenDisplay, for every client that is authorized.
XdmcpOpenDisplay(sock) ==
    IF state = "XDM_AWAIT_MANAGE_RESPONSE"
    THEN state' = "XDM_RUN_SESSION" /\ sessionSocket' = sock
    ELSE UNCHANGED <<state, sessionSocket>>

\* A client connects: its descriptor is the lowest that is free.
Sock == Min((1 .. Cardinality(open) + 1) \ open)
Connect ==
    /\ dispatchException = {} /\ Sock <= MaxOpen
    /\ open' = open \cup {Sock}
    /\ due' = (due /\ ~ Dormant)
    /\ XdmcpOpenDisplay(Sock)
    /\ UNCHANGED <<timeOutRtx, SessionID, req_sockaddr, dispatchException,
                   optionVars, hungUp, net>>

\* XdmcpCloseDisplay, and what else the end of the last client raises.
\* (Mutant: a session that waits for an answer is overlooked.)
AtLast(sock) == IF open = {sock} THEN dispatchExceptionAtReset ELSE {}
XdmcpCloseDisplayRunning(sock) ==
    IF state = "XDM_RUN_SESSION" /\ sessionSocket = sock
    THEN /\ state' = "XDM_QUERY"
         /\ dispatchException' = dispatchException \cup AtLast(sock)
                 \cup {IF OneSession THEN "DE_TERMINATE" ELSE "DE_RESET"}
    ELSE /\ UNCHANGED state
         /\ dispatchException' = dispatchException \cup AtLast(sock)
XdmcpCloseDisplay(sock) ==
    IF InSession /\ sessionSocket = sock
    THEN /\ state' = "XDM_QUERY"
         /\ dispatchException' = dispatchException \cup AtLast(sock)
                 \cup {IF OneSession THEN "DE_TERMINATE" ELSE "DE_RESET"}
    ELSE /\ UNCHANGED state
         /\ dispatchException' = dispatchException \cup AtLast(sock)

\* The end of a connection is found by reading from it, or by writing to it or
\* by CheckConnections, when select need not have set the timer anew.
Close(sock) ==
    /\ dispatchException = {}
    /\ sock \in hungUp
    /\ open' = open \ {sock} /\ hungUp' = hungUp \ {sock}
    /\ due' \in {due, due /\ ~ Dormant}
    /\ XdmcpCloseDisplay(sock)
    /\ UNCHANGED <<timeOutRtx, SessionID, req_sockaddr, sessionSocket,
                   optionVars, net, mgr, faults>>

\* The end of Dispatch, with KillAllClients, and XdmcpReset.
Reset ==
    /\ dispatchException = {"DE_RESET"}
    /\ dispatchException' = {}
    /\ open' = {} /\ hungUp' = {}
    /\ mgr' = [m \in Managers |-> [mgr[m] EXCEPT !.sock = 0]]
    /\ send_packet("XDM_QUERY", req_sockaddr, 0, net)
    /\ timeOutRtx' = 0
    /\ UNCHANGED <<optionVars, SessionID, req_sockaddr, sessionSocket>>

-----------------------------------------------------------------------------
(* The network and the managers. *)

Lose(msg) ==
    /\ net' = net \ {msg} /\ Fault
    /\ UNCHANGED <<serverVars, mgr>>

Repeat(msg) ==
    /\ msg.copy = 1 /\ Fault
    /\ net' = Sent({[msg EXCEPT !.copy = 2]}, net)
    /\ UNCHANGED <<serverVars, mgr>>

\* A number for a new session: one that is in use nowhere.
Fresh == Min(1 .. MaxSessions \ ({SessionID} \cup {mgr[m].id : m \in Managers}
                                 \cup {msg.id : msg \in net}))
Answer(msg, rest, type, id) == net' = Sent({Msg(type, msg.mgr, id)}, rest)

AnswerQuery(msg, rest) ==
    /\ msg.type = "QUERY"
    /\ \/ Answer(msg, rest, "WILLING", 0) /\ UNCHANGED faults
       \/ Answer(msg, rest, "UNWILLING", 0) /\ Fault
    /\ UNCHANGED <<mgr, hungUp>>

\* A session that is about to begin is offered again; a request from a display
\* that has a session ends it.
AnswerRequest(msg, rest) ==
    LET s == mgr[msg.mgr]
        new == Fresh
    IN  /\ msg.type = "REQUEST"
        /\ \/ /\ s.status = "pending" /\ Answer(msg, rest, "ACCEPT", s.id)
              /\ UNCHANGED <<mgr, hungUp, faults>>
           \/ /\ s.status # "pending" /\ Answer(msg, rest, "ACCEPT", new)
              /\ mgr' = [mgr EXCEPT ![msg.mgr] = [status |-> "pending", id |-> new, sock |-> 0]]
              /\ hungUp' = hungUp \cup ({s.sock} \ {0})
              /\ UNCHANGED faults
           \/ /\ Answer(msg, rest, "DECLINE", 0) /\ Fault
              /\ UNCHANGED <<mgr, hungUp>>

AnswerManage(msg, rest) ==
    LET s == mgr[msg.mgr]
    IN  /\ msg.type = "MANAGE"
        /\ \/ /\ s.status = "pending" /\ s.id = msg.id
              /\ mgr' = [mgr EXCEPT ![msg.mgr].status = "starting"]
              /\ net' = rest /\ UNCHANGED faults
           \/ /\ s.status \in {"starting", "running"} /\ s.id = msg.id
              /\ net' = rest /\ UNCHANGED <<mgr, faults>>
           \/ /\ s.id # msg.id \/ s.status = "none"
              /\ Answer(msg, rest, "REFUSE", msg.id) /\ UNCHANGED <<mgr, faults>>
           \/ /\ s.status = "pending" /\ s.id = msg.id
              /\ Answer(msg, rest, "FAILED", msg.id) /\ Fault
              /\ mgr' = [mgr EXCEPT ![msg.mgr] = NoSession]
        /\ UNCHANGED hungUp

AnswerKeepAlive(msg, rest) ==
    LET s == mgr[msg.mgr]
    IN  /\ msg.type = "KEEPALIVE"
        /\ Answer(msg, rest, "ALIVE", IF s.status = "running" /\ s.id = msg.id THEN s.id ELSE 0)
        /\ UNCHANGED <<mgr, faults, hungUp>>

Manager ==
    /\ \E msg \in net : LET rest == net \ {msg} IN
          \/ AnswerQuery(msg, rest) \/ AnswerRequest(msg, rest)
          \/ AnswerManage(msg, rest) \/ AnswerKeepAlive(msg, rest)
    /\ UNCHANGED <<optionVars, protocolVars, loopVars, open>>

\* The manager's first client connects.
Login(m) ==
    /\ mgr[m].status = "starting"
    /\ Connect
    /\ mgr' = [mgr EXCEPT ![m].status = "running", ![m].sock = Sock]
    /\ UNCHANGED faults

\* The user logs out, or the connection is found to be closed.
Logout(m) ==
    /\ mgr[m].status = "running"
    /\ mgr' = [mgr EXCEPT ![m] = NoSession]
    /\ hungUp' = hungUp \cup ({mgr[m].sock} \ {0})
    /\ UNCHANGED <<optionVars, protocolVars, loopVars, open, net, faults>>

\* The manager's host goes down and comes back: it knows of no session, and
\* nobody tells the server.
Crash(m) ==
    /\ mgr[m] # NoSession /\ Fault
    /\ mgr' = [mgr EXCEPT ![m] = NoSession]
    /\ UNCHANGED <<serverVars, net>>

(* Other clients: of this host, and those of a session after its first.    *)

\* Those whose connection is no manager's.
Strangers == open \ {mgr[m].sock : m \in Managers}

Guest ==
    /\ Connect /\ Fault
    /\ UNCHANGED mgr

HangUp(sock) ==
    /\ sock \in Strangers \ hungUp
    /\ hungUp' = hungUp \cup {sock}
    /\ UNCHANGED <<optionVars, protocolVars, loopVars, open, net, mgr, faults>>

-----------------------------------------------------------------------------
Manages == Manager \/ \E m \in Managers : Login(m)
Visits == Guest \/ \E sock \in open : HangUp(sock)

XdmcpNext ==
    \/ Elapse \/ Talk \/ Receive \/ KeepAlive \/ Timeout \/ Reset
    \/ \E sock \in open : Close(sock)
    \/ Manages \/ \E m \in Managers : Logout(m) \/ Crash(m)
    \/ \E msg \in net : Lose(msg) \/ Repeat(msg)
    \/ Visits

\* The server reads what arrives, the timer's time comes and is seen unless
\* others are heard again and again, a manager answers and begins the session
\* it has accepted, a connection's end is noticed.
XdmcpFairness ==
    /\ WF_xdmcpVars(Elapse) /\ WF_xdmcpVars(Timeout) /\ WF_xdmcpVars(KeepAlive)
    /\ WF_xdmcpVars(Receive) /\ WF_xdmcpVars(Reset)
    /\ WF_xdmcpVars(Manages) /\ WF_xdmcpVars(\E sock \in open : Close(sock))

XdmcpSpec == XdmcpInit /\ [][XdmcpNext]_xdmcpVars /\ XdmcpFairness
=============================================================================
