------------------------------- MODULE MCXdmcp -------------------------------
(* Xdmcp's properties for TLC. *)
EXTENDS Xdmcp

\* The defaults, and -once with -noreset.
MCOptions == {<<FALSE, {"DE_RESET"}>>, <<TRUE, {}>>}

\* While a session is said to run, there is a client's record with the
\* descriptor whose end is to end it (XdmcpOpenDisplay, XdmcpCloseDisplay): the
\* server never watches over one that the next client would get.  (FlushClient
\* may have closed the descriptor itself; the next to get it then closes the
\* record first, EstablishNewConnections.)
SessionOpen == InSession => sessionSocket \in open

Ended == dispatchException \cap {"FatalError", "DE_TERMINATE"} # {}

\* The server runs a session that its manager runs too, if perhaps with
\* another's connection for the manager's own.
Running ==
    /\ InSession
    /\ \E m \in Managers : mgr[m].status = "running" /\ mgr[m].id = SessionID

\* In the end nothing is heard of clients but those that managers start, and
\* of no device, when the timer's time has come: it is seen.
Silent == <>[][~ (Talk \/ Visits)]_xdmcpVars

\* In the end no answer takes longer than the server waits for it, and none
\* overtakes the end of a connection.
Quiet == net = {} /\ \A m \in Managers : mgr[m].status # "starting"
Timely == <>[][(Timeout => Quiet) /\ (Receive => hungUp = {})]_xdmcpVars

\* However sessions end, whatever was lost, repeated or late before, and from
\* every state: once answers come in time (Timely) and the clients of a session
\* that is out of step no longer put off the keepalives (Silent), the server
\* again and again has a session that its manager runs too, unless a manager
\* refuses it.
Established == Timely /\ Silent => []<>(Running \/ Ended)

\* A session of which no manager knows any more is found out and given up,
\* unless its clients or the devices go on talking within each dormancy (the
\* keepalives: XdmcpWakeupHandler, recv_alive_msg, timeout).
Managed == \E m \in Managers : mgr[m].id = SessionID /\ mgr[m].status # "none"
Noticed == Silent => ((InSession /\ ~ Managed) ~> (~ InSession \/ Managed \/ Ended))

\* "-once causes the server to terminate (rather than reset) when the XDMCP
\* session ends" (doc/Xserver.man.pre): XdmcpDeadSession resets.
OnlyOnce ==
    [][InSession /\ ~ InSession' /\ OneSession => "DE_TERMINATE" \in dispatchException']_xdmcpVars

\* A session dies of "too many keepalive retransmissions" (timeout): they are
\* counted from the first keepalive.  XdmcpOpenDisplay leaves those of the
\* MANAGE packet in the count.
CountedAnew == [][KeepAlive => timeOutRtx = 0]_xdmcpVars
=============================================================================
