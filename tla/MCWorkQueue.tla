----------------------------- MODULE MCWorkQueue -----------------------------
(***************************************************************************)
(* WorkQueue for TLC, and what is checked of it.                           *)
(***************************************************************************)
EXTENDS WorkQueue

\* The variables have their types, and xalloc has a node to give.
TypeOK ==
    /\ work \in [Nodes -> [client : Clients \cup {NULL}, closure : 0 .. MaxSleeps]]
    /\ next \in [Links -> Nodes \cup {NULL}]
    /\ inUse \subseteq Nodes /\ inUse # Nodes /\ workQueueLast \in Links
    /\ p \in Links /\ zp \in Links
    /\ live \subseteq 1 .. MaxSleeps
    /\ {ignored, suspended, marked} \subseteq SUBSET Clients
    /\ state \in [Clients -> {"none", "up", "gone"}]
    /\ pc \in {"Dispatch", "Process", "Establish", "Zombies", "Select"}
    /\ closing \in Clients \cup {NULL}

-----------------------------------------------------------------------------
(* The linked list as a queue. *)

\* The nodes that are reached from the head by the links nxt, in order.
ReachedBy(nxt) ==
    LET at[k \in 0 .. MaxNodes + 1] ==
            IF k = 0 THEN workQueue
            ELSE IF at[k - 1] = NULL THEN NULL ELSE nxt[at[k - 1]]
    IN  [k \in {k \in 1 .. MaxNodes + 1 : at[k] # NULL} |-> at[k]]

\* The jobs that ProcessWorkQueue will find.
Queue == [k \in DOMAIN ReachedBy(next) |-> work[ReachedBy(next)[k]]]

Jobs == INSTANCE JobQueue WITH
    jobs <- Queue,
    waiting <- Cardinality(inUse),
    going <- {c \in Clients : state[c] = "gone"}

\* The list is a queue: what QueueWorkProc puts on it is called once, and in
\* order, whatever ProcessWorkQueueZombies takes out from inside a function
\* that ProcessWorkQueue has called (dixutils.c:569-618).
ImplementsJobs == Jobs!Spec

-----------------------------------------------------------------------------
(* Clients that sleep. *)

\* Neither queue holds a client that has been freed (dispatch.c:3593-3640).
NoZombies ==
    /\ \A n \in inUse : work[n].client # NULL => state[work[n].client] # "none"
    /\ \A i \in DOMAIN sleepQueue : state[sleepQueue[i].client] # "none"

\* A request's closure lives as long as its client is on the list of those
\* asleep: it is neither lost with the client nor freed under it
\* (dixfonts.c:358-366, dixutils.c:687-711).
ClosuresFreed == live = {sleepQueue[i].closure : i \in DOMAIN sleepQueue}

\* A client that stays has at most one job waiting, and it is the one of the
\* request that put it to sleep (dixutils.c:674-685).
SignalledOnce == \A n \in inUse : work[n].client # NULL /\ state[work[n].client] = "up" =>
    /\ \E i \in DOMAIN sleepQueue : sleepQueue[i] = work[n]
    /\ \A m \in inUse : work[m].client = work[n].client => m = n

\* All of this, whenever clients are closed and answers come.  (A client that is
\* being closed may have two jobs, see DoneIsRemoved.)
SleepersSound == TypeOK /\ NoZombies /\ ClosuresFreed /\ SignalledOnce

Answered(c) == state[c] = "up" /\ Asleep(c) /\ c \notin suspended
\* A client whose font server has answered is attended again, unless it must
\* wait for another answer or is closed down (dixutils.c:687-711).
Awakened == \A c \in Clients :
    Answered(c) ~> (c \notin ignored \/ c \in suspended \/ state[c] # "up")

\* A function that has returned TRUE is not called again: "Those which return
\* TRUE are removed from the queue, otherwise they will be called again"
\* (dixutils.c:576-577).  What is on the queue has not finished.
DoneIsRemoved == \A n \in inUse : work[n].client # NULL => work[n].closure \in live
=============================================================================
