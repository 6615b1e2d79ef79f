------------------------------ MODULE WorkQueue ------------------------------
(***************************************************************************)
(* The work queue and the sleeping clients of dix/dixutils.c, with the     *)
(* font requests that use them (dix/dixfonts.c), WaitForSomething, new     *)
(* connections (os/connection.c) and CloseDownClient (dix/dispatch.c).     *)
(*                                                                         *)
(* The queue is a linked list with a pointer to its last link.  One thread *)
(* walks it and calls what it finds; what is called may close a client,    *)
(* which puts another job on the list and walks it a second time, inside   *)
(* the first walk.  `p' and `zp' are the links the two walks stand at.     *)
(*                                                                         *)
(* Allocations succeed, and which free node xalloc takes is of no account. *)
(* No function that this server queues returns FALSE, and clients have the *)
(* close-down mode DestroyAll.                                             *)
(***************************************************************************)
EXTENDS Naturals, FiniteSets, Sequences, SequencesExt

CONSTANTS
    MaxClient,      \* clients are 1 .. MaxClient
    MaxNodes,       \* list nodes are 1 .. MaxNodes: one for each client that
                    \* stays, two for one that goes, one for connections, and
                    \* one that is free
    MaxSleeps,      \* bound on the requests that sleep
    MaxAnswers,     \* bound on the answers of font servers
    MaxComing       \* bound on the connections that come

Clients == 1 .. MaxClient
Nodes == 1 .. MaxNodes
NULL == 0
workQueue == MaxNodes + 1           \* the link in front of the list
Links == Nodes \cup {workQueue}

ASSUME BoundsAssumption ==
    /\ {MaxClient, MaxNodes, MaxSleeps, MaxAnswers, MaxComing} \subseteq Nat
    /\ MaxNodes >= MaxClient + 3

\* A job: doOpenFont and the like for a client, with the closure of the
\* request; or EstablishNewConnections, for none.
Connecting == [client |-> NULL, closure |-> 0]
FontJob(c, k) == [client |-> c, closure |-> k]

VARIABLES
    work,           \* the jobs in the nodes, in use or not
    next,           \* the node each link leads to
    inUse,          \* nodes that are allocated
    workQueueLast,  \* the link behind the last node
    sleepQueue,     \* the sleeping clients and their closures, latest first
    state,          \* of each client: "none", "up", "gone"
    marked,         \* clients with noClientException set
    ignored,        \* clients IgnoreClient was called for
    suspended,      \* clients whose font server has yet to answer
    live,           \* closures that are allocated
    pc, p,          \* the thread, and ProcessWorkQueue's p
    zp, closing,    \* ProcessWorkQueueZombies' p, and who is closed down
    ret,            \* where CloseDownClient returns to
    sleeps, answers, coming

listVars == <<work, next, inUse, workQueueLast>>
sleepVars == <<sleepQueue, ignored, suspended, live>>
clientVars == <<state, marked>>
threadVars == <<pc, p, zp, closing, ret>>
countVars == <<sleeps, answers, coming>>
vars == <<listVars, sleepVars, clientVars, threadVars, countVars>>

Init ==
    /\ work = [n \in Nodes |-> Connecting]
    /\ next = [l \in Links |-> NULL]
    /\ inUse = {} /\ workQueueLast = workQueue
    /\ sleepQueue = <<>> /\ ignored = {} /\ suspended = {} /\ live = {}
    /\ state = [c \in Clients |-> "up"] /\ marked = {}
    /\ pc = "Dispatch" /\ p = workQueue /\ zp = workQueue
    /\ closing = NULL /\ ret = "Dispatch"
    /\ sleeps = 0 /\ answers = 0 /\ coming = 0

-----------------------------------------------------------------------------
(* The list. *)

\* QueueWorkProc.
QueueWorkProc(job) ==
    LET q == Min(Nodes \ inUse)
    IN  /\ inUse' = inUse \cup {q}
        /\ work' = [work EXCEPT ![q] = job]
        /\ next' = [next EXCEPT ![q] = NULL, ![workQueueLast] = q]
        /\ workQueueLast' = q

\* Taking the node behind a link out, after its function has been called: its
\* `next' is fetched only now.
Unlink(link) ==
    /\ next' = [next EXCEPT ![link] = next[next[link]], ![next[link]] = NULL]
    /\ inUse' = inUse \ {next[link]}
    /\ work' = [work EXCEPT ![next[link]] = Connecting]
    /\ UNCHANGED workQueueLast

-----------------------------------------------------------------------------
(* Sleeping clients. *)

Asleep(c) == \E i \in DOMAIN sleepQueue : sleepQueue[i].client = c
\* The entry of the client that is found first.
SleepEntry(c) == CHOOSE i \in DOMAIN sleepQueue :
    /\ sleepQueue[i].client = c
    /\ \A j \in 1 .. i - 1 : sleepQueue[j].client # c

\* A request for a font (OpenFont, ListFonts, ...) whose font server does not
\* answer at once: ClientSleep.
Request(c) ==
    /\ pc = "Dispatch" /\ state[c] = "up"
    /\ c \notin ignored /\ c \notin marked /\ sleeps < MaxSleeps
    /\ sleeps' = sleeps + 1
    /\ live' = live \cup {sleeps + 1}
    /\ sleepQueue' = <<[client |-> c, closure |-> sleeps + 1]>> \o sleepQueue
    /\ ignored' = ignored \cup {c}
    /\ suspended' = suspended \cup {c}
    /\ UNCHANGED <<listVars, clientVars, threadVars, answers, coming>>

\* ClientSignal, for a client that is asleep.
ClientSignal(c) == QueueWorkProc(FontJob(c, sleepQueue[SleepEntry(c)].closure))

\* ClientWakeup.  A client that has gone is not attended again.
\* (Mutant: it stays on the list.)
ClientWakeupGoneKept(c) ==
    IF Asleep(c) /\ state[c] = "up"
    THEN /\ sleepQueue' = RemoveAt(sleepQueue, SleepEntry(c))
         /\ ignored' = ignored \ {c}
    ELSE UNCHANGED <<sleepQueue, ignored>>
\* (Mutant: a client that is still there is not attended again.)
ClientWakeupUnattended(c) ==
    IF Asleep(c)
    THEN /\ sleepQueue' = RemoveAt(sleepQueue, SleepEntry(c))
         /\ ignored' = IF state[c] = "gone" THEN ignored \ {c} ELSE ignored
    ELSE UNCHANGED <<sleepQueue, ignored>>
ClientWakeup(c) ==
    IF Asleep(c)
    THEN /\ sleepQueue' = RemoveAt(sleepQueue, SleepEntry(c))
         /\ ignored' = IF state[c] = "gone" THEN ignored ELSE ignored \ {c}
    ELSE UNCHANGED <<sleepQueue, ignored>>

\* The function of a font job (doOpenFont, doListFontsAndAliases, ...): it
\* gives up for a client that has gone, waits for another answer, or is done
\* with the request.  Called with a closure that is freed already it changes
\* nothing here; that it gets there is what DoneIsRemoved is about.
RunFont(job) ==
    \/ /\ state[job.client] = "up"
       /\ suspended' = suspended \cup {job.client}
       /\ UNCHANGED <<sleepQueue, ignored, live>>
    \/ /\ ClientWakeup(job.client)
       /\ live' = live \ {job.closure}
       /\ UNCHANGED suspended

-----------------------------------------------------------------------------
(* Clients come and go. *)

\* A write to a client fails: it is marked, and dealt with later.
MarkClientException(c) ==
    /\ pc \in {"Dispatch", "Process"} /\ state[c] = "up" /\ c \notin marked
    /\ marked' = marked \cup {c}
    /\ UNCHANGED <<listVars, sleepVars, state, threadVars, countVars>>

\* CloseDownClient, as far as the walk of the list: its font servers hear of
\* it, the client is gone, and a sleeping one is signalled.
CloseDownClient(c) ==
    /\ state' = [state EXCEPT ![c] = "gone"]
    /\ suspended' = suspended \ {c}
    /\ IF Asleep(c) THEN ClientSignal(c) ELSE UNCHANGED listVars
    /\ closing' = c /\ ret' = pc /\ pc' = "Zombies" /\ zp' = workQueue
    /\ UNCHANGED <<sleepQueue, ignored, live, marked, p, countVars>>

\* KillClient from another client, or the end of this one's connection.
Kill(c) ==
    /\ pc = "Dispatch" /\ state[c] = "up"
    /\ CloseDownClient(c)

\* ProcessWorkQueueZombies, a node at a time.
ZombieJob(q) ==
    /\ work[q].client # NULL /\ state[work[q].client] = "gone"

Zombies ==
    /\ pc = "Zombies"
    /\ \/ /\ next[zp] # NULL /\ ZombieJob(next[zp])
          /\ RunFont(work[next[zp]])
          /\ Unlink(zp) /\ UNCHANGED zp
       \/ /\ next[zp] # NULL /\ ~ ZombieJob(next[zp])
          /\ zp' = next[zp] /\ UNCHANGED <<listVars, sleepVars>>
    /\ UNCHANGED <<clientVars, pc, p, closing, ret, countVars>>

\* Its end, and the rest of CloseDownClient: the client is freed.
\* (Mutant: the last link is not set.)
ZombiesEndLastKept ==
    /\ pc = "Zombies" /\ next[zp] = NULL
    /\ UNCHANGED listVars
    /\ state' = [state EXCEPT ![closing] = "none"]
    /\ marked' = marked \ {closing} /\ ignored' = ignored \ {closing}
    /\ pc' = ret /\ closing' = NULL /\ zp' = workQueue
    /\ UNCHANGED <<sleepQueue, suspended, live, p, ret, countVars>>
ZombiesEnd ==
    /\ pc = "Zombies" /\ next[zp] = NULL
    /\ workQueueLast' = zp
    /\ state' = [state EXCEPT ![closing] = "none"]
    /\ marked' = marked \ {closing} /\ ignored' = ignored \ {closing}
    /\ pc' = ret /\ closing' = NULL /\ zp' = workQueue
    /\ UNCHANGED <<work, next, inUse, sleepQueue, suspended, live,
                   p, ret, countVars>>

-----------------------------------------------------------------------------
(* The main loop: Dispatch, WaitForSomething. *)

WaitForSomething ==
    /\ pc = "Dispatch" /\ pc' = "Process" /\ p' = workQueue
    /\ UNCHANGED <<listVars, sleepVars, clientVars, zp, closing, ret, countVars>>

\* ProcessWorkQueue, a job at a time.
ProcessFont ==
    /\ pc = "Process" /\ next[p] # NULL /\ work[next[p]] # Connecting
    /\ RunFont(work[next[p]])
    /\ Unlink(p)
    /\ UNCHANGED <<clientVars, threadVars, countVars>>

ProcessConnecting ==
    /\ pc = "Process" /\ next[p] # NULL /\ work[next[p]] = Connecting
    /\ pc' = "Establish"
    /\ UNCHANGED <<listVars, sleepVars, clientVars, p, zp, closing, ret, countVars>>

ProcessEnd ==
    /\ pc = "Process" /\ next[p] = NULL
    /\ workQueueLast' = p /\ pc' = "Select"
    /\ UNCHANGED <<work, next, inUse, sleepVars, clientVars,
                   p, zp, closing, ret, countVars>>

\* EstablishNewConnections kills off the clients that are marked, and then
\* accepts the connection that came, if there is room.
Straggler(c) ==
    /\ pc = "Establish" /\ state[c] = "up" /\ c \in marked
    /\ \A d \in 1 .. c - 1 : ~ (state[d] = "up" /\ d \in marked)
    /\ CloseDownClient(c)

Accept ==
    /\ pc = "Establish" /\ pc' = "Process"
    /\ \A c \in Clients : ~ (state[c] = "up" /\ c \in marked)
    /\ IF \E c \in Clients : state[c] = "none"
       THEN LET new == CHOOSE c \in Clients :
                          /\ state[c] = "none"
                          /\ \A d \in 1 .. c - 1 : state[d] # "none"
            IN  state' = [state EXCEPT ![new] = "up"]
       ELSE UNCHANGED state
    /\ Unlink(p)
    /\ UNCHANGED <<sleepVars, marked, p, zp, closing, ret, countVars>>

\* The wakeup handlers: FontWakeup passes a font server's answer on.
Answer(c) ==
    /\ pc = "Select" /\ c \in suspended /\ answers < MaxAnswers
    /\ ClientSignal(c)
    /\ suspended' = suspended \ {c} /\ answers' = answers + 1
    /\ UNCHANGED <<sleepQueue, ignored, live, clientVars, threadVars, sleeps, coming>>

\* select returns: a connection may have come.  WaitForSomething goes round
\* again, or returns with something to do.
Select ==
    /\ pc = "Select"
    /\ \/ UNCHANGED <<listVars, coming>>
       \/ /\ coming < MaxComing /\ coming' = coming + 1
          /\ QueueWorkProc(Connecting)
    /\ \/ pc' = "Dispatch" /\ UNCHANGED p
       \/ pc' = "Process" /\ p' = workQueue
    /\ UNCHANGED <<sleepVars, clientVars, zp, closing, ret, sleeps, answers>>

Thread ==
    \/ Zombies \/ ZombiesEnd
    \/ WaitForSomething \/ ProcessFont \/ ProcessConnecting \/ ProcessEnd
    \/ (\E c \in Clients : Straggler(c)) \/ Accept \/ Select

Next ==
    \/ Thread
    \/ \E c \in Clients : Request(c) \/ MarkClientException(c) \/ Kill(c) \/ Answer(c)

Spec == Init /\ [][Next]_vars /\ WF_vars(Thread)
=============================================================================
