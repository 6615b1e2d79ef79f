---------------------------- MODULE ClientOutput ----------------------------
(***************************************************************************)
(* Output to clients: os/io.c buffers what is written to a client          *)
(* (WriteToClient) and hands it to the socket when the buffer is full or   *)
(* the server has come round (FlushClient, FlushAllOutput); what the       *)
(* socket does not take is kept, and select, in WaitForSomething, is asked *)
(* when it takes more.  A connection that a write finds broken is closed   *)
(* at once, its client only when CheckConnections or Dispatch come by.     *)
(*                                                                         *)
(* A client stands for its index and its descriptor.  The server is one    *)
(* thread; its peers read, ask, connect and hang up between any two steps. *)
(***************************************************************************)
EXTENDS Naturals, Sequences, FiniteSets

CONSTANTS
    Clients,        \* positive numbers
    Lengths,        \* of messages, in bytes, without padding
    Critical,       \* lengths of the messages that are critical events
    Word,           \* what messages are padded to (4)
    BUFSIZE,        \* of a new buffer (4096)
    Sizes,          \* of buffers from FreeOutputs, BUFSIZE or more
    Room,           \* bytes a socket holds until its peer reads them
    Grabbers,       \* clients that grab the server
    Sleepers,       \* clients that wait for a time, a counter or a font
    MemoryFails,    \* whether allocations may fail
    MaxMessages,    \* bound on the messages written
    MaxRequests,    \* client -> bound on its requests that wait
    MaxClients,     \* bound on the connections made
    MaxGone         \* bound on the clients that have gone, at any time

ASSUME ByteAssumption ==
    /\ Word \in Nat \ {0} /\ BUFSIZE \in Nat \ {0} /\ Room \in Nat \ {0}
    /\ Lengths \subseteq Nat \ {0} /\ Critical \subseteq Lengths
    /\ Sizes \subseteq {n \in Nat : n >= BUFSIZE} /\ BUFSIZE \in Sizes
ASSUME ClientAssumption ==
    /\ Clients \subseteq Nat \ {0} /\ IsFiniteSet(Clients)
    /\ Grabbers \subseteq Clients /\ Sleepers \subseteq Clients /\ MemoryFails \in BOOLEAN
ASSUME BoundAssumption ==
    MaxMessages \in Nat /\ MaxRequests \in [Clients -> Nat] /\ MaxClients \in Nat
    /\ MaxGone \in Nat

None == 0

VARIABLES
    \* The descriptor sets, and the marks that some are not empty.
    OutputPending, NewOutputPending, CriticalOutputPending,
    ClientsWriteBlocked, AnyClientsWriteBlocked,
    AllClients,         \* with AllSockets, which holds the same clients
    ClientsWithInput,
    SavedAllClients, SavedClientsWithInput, GrabInProgress,
    ignored,            \* clients between IgnoreClient and AttendClient
    IgnoredClientsWithInput,    \* which of these; of others it is not read
    \* Of each client.
    connected,          \* clients[]: not NullClient
    out,                \* see Output
    marked,             \* noClientException
    messages,           \* client -> messages written to it
    wrote,              \* messages written so far
    \* The sockets and the peers.
    wire,               \* client -> bytes its socket has taken
    unread,             \* client -> how many of these its peer has not read
    asked,              \* client -> requests it has sent, not executed
    dead,               \* clients whose peer has gone
    joined,             \* connections made so far
    \* The main thread.
    pc, after,          \* its place; where it goes on after FlushAllOutput
    todo,               \* descriptors a loop over a set has still to look at
    readable, writable, \* what select found; Unset: it was not asked for it
    knock,              \* whether EstablishNewConnections is queued
    current             \* the client being served

sets == <<OutputPending, NewOutputPending, CriticalOutputPending,
          ClientsWriteBlocked, AnyClientsWriteBlocked>>
masks == <<AllClients, ClientsWithInput, SavedAllClients,
           SavedClientsWithInput, GrabInProgress, ignored, IgnoredClientsWithInput>>
conns == <<connected, out, marked, messages, wrote>>
peers == <<asked, dead, joined>>
sockets == <<wire, unread>>
selected == <<readable, writable, knock, current>>
place == <<pc, after, todo>>
vars == <<sets, masks, conns, sockets, peers, place, selected>>

Places == {"Wait", "Establish", "Flush", "Select", "Check", "Wakeup",
           "Read", "Exec", "Next", "Leave"}
Unset == {None}

\* oc->trans_conn # NULL; oc->output: its size (0: NULL) and what it holds.
Byte == Nat
Output == [open : BOOLEAN, size : Nat, buf : Seq(Byte)]
Fresh == [open |-> TRUE, size |-> 0, buf |-> <<>>]
Gone == [open |-> FALSE, size |-> 0, buf |-> <<>>]
Open == {c \in connected : out[c].open}

Init ==
    /\ connected \in SUBSET Clients /\ joined = Cardinality(connected)
    /\ joined <= MaxClients
    /\ AllClients = connected /\ SavedAllClients = {}
    /\ ClientsWithInput = {} /\ SavedClientsWithInput = {} /\ GrabInProgress = None
    /\ ignored = {} /\ IgnoredClientsWithInput = {}
    /\ OutputPending = {} /\ NewOutputPending = FALSE /\ CriticalOutputPending = FALSE
    /\ ClientsWriteBlocked = {} /\ AnyClientsWriteBlocked = FALSE
    /\ out = [c \in Clients |-> IF c \in connected THEN Fresh ELSE Gone]
    /\ marked = {}
    /\ messages = [c \in Clients |-> 0] /\ wrote = 0
    /\ wire = [c \in Clients |-> <<>>] /\ unread = [c \in Clients |-> 0]
    /\ asked = [c \in Clients |-> 0] /\ dead = {}
    /\ pc = "Wait" /\ after = "Wait" /\ todo = {}
    /\ readable = {} /\ writable = Unset /\ knock = FALSE /\ current = None

-----------------------------------------------------------------------------
(* Messages. *)

padlength(n) == (Word - (n % Word)) % Word
Smaller(m, n) == IF m <= n THEN m ELSE n

\* Byte j of the k-th message; 0 is a byte of padding, whatever its value.
Garbage == 0
Message(k, n) == [j \in 1 .. n |-> 16 * k + j]
Padding(n) == [j \in 1 .. padlength(n) |-> Garbage]
Padded(k, n) == Message(k, n) \o Padding(n)

-----------------------------------------------------------------------------
(* os/io.c *)

\* FlushClient for client c with a buffer o and a message `extra' that has not
\* been copied into it.
Total(o, extra) == Len(o.buf) + Len(extra) + padlength(Len(extra))
Taken(c, o, extra) ==
    IF ~ o.open \/ c \in dead THEN 0
    ELSE Smaller(Room - unread[c], Total(o, extra))

\* The bytes from buffer, message and padding that one writev after the other
\* is given.
Gathered(o, extra) == o.buf \o extra \o Padding(Len(extra))

\* What is kept when the socket has taken n bytes: the rest of the buffer is
\* moved to its beginning, and the rest of the message behind it.
\* (Mutant: `written' is not set to 0 when a part of the buffer is left.)
KeptAfter(o, extra, n) ==
    LET rest    == SubSeq(o.buf, n + 1, Len(o.buf))
        left    == Total(o, extra) - n
    IN  [i \in 1 .. left |->
            IF i <= Len(rest) THEN rest[i]
            ELSE IF n + i - Len(rest) <= Len(extra) THEN extra[n + i - Len(rest)]
            ELSE Garbage]
Kept(o, extra, n) ==
    LET rest    == SubSeq(o.buf, n + 1, Len(o.buf))
        written == IF n < Len(o.buf) THEN 0 ELSE n - Len(o.buf)
        left    == Total(o, extra) - n
    IN  [i \in 1 .. left |->
            IF i <= Len(rest) THEN rest[i]
            ELSE IF written + i - Len(rest) <= Len(extra)
                 THEN extra[written + i - Len(rest)]
            ELSE Garbage]

\* How FlushClient ends: "None" for a client without a buffer.
Fate(c, o, extra) ==
    CASE o.size = 0 -> "None"
      [] o.size # 0 /\ Total(o, extra) = 0 -> "All"
      [] o.size # 0 /\ Total(o, extra) > 0 /\ (~ o.open \/ c \in dead) -> "Failed"
      [] o.size # 0 /\ Total(o, extra) > 0 /\ o.open /\ c \notin dead ->
            IF Taken(c, o, extra) = Total(o, extra) THEN "All" ELSE "Stuffed"

Broken(o) == [open |-> FALSE, size |-> o.size, buf |-> <<>>]

\* The buffer and the marks after a flush with that fate; a buffer that has
\* grown needs memory.
NoMemory(c, o, extra) ==
    /\ MemoryFails /\ Fate(c, o, extra) = "Stuffed"
    /\ Total(o, extra) - Taken(c, o, extra) > o.size
Flushed(c, o, extra, failed) ==
    LET left == Total(o, extra) - Taken(c, o, extra)
    IN  CASE Fate(c, o, extra) = "None" -> o
          [] Fate(c, o, extra) = "All" -> [o EXCEPT !.size = 0, !.buf = <<>>]
          [] Fate(c, o, extra) = "Failed" -> Broken(o)
          [] Fate(c, o, extra) = "Stuffed" /\ failed -> Broken(o)
          [] OTHER ->
               [o EXCEPT !.size = IF left > o.size THEN left + BUFSIZE ELSE o.size,
                         !.buf = Kept(o, extra, Taken(c, o, extra))]

\* ClientsWriteBlocked and its mark after a flush.
BlockedAfter(c, fate) ==
    CASE fate = "Stuffed" -> ClientsWriteBlocked \cup {c}
      [] fate = "All" /\ AnyClientsWriteBlocked -> ClientsWriteBlocked \ {c}
      [] OTHER -> ClientsWriteBlocked
AnyBlockedAfter(c, fate) ==
    CASE fate = "Stuffed" -> TRUE
      [] fate = "All" /\ ClientsWriteBlocked \ {c} = {} -> FALSE
      [] OTHER -> AnyClientsWriteBlocked

\* The socket's side of a flush.
Sent(c, o, extra) ==
    LET n == IF o.size = 0 THEN 0 ELSE Taken(c, o, extra)
    IN  /\ wire' = [wire EXCEPT ![c] = @ \o SubSeq(Gathered(o, extra), 1, n)]
        /\ unread' = [unread EXCEPT ![c] = @ + n]

FlushClient(c, o, extra) ==
    \E failed \in {FALSE, NoMemory(c, o, extra)} :
        /\ out' = [out EXCEPT ![c] = Flushed(c, o, extra, failed)]
        /\ marked' = IF failed \/ Fate(c, o, extra) = "Failed"
                     THEN marked \cup {c} ELSE marked
        /\ ClientsWriteBlocked' = BlockedAfter(c, Fate(c, o, extra))
        /\ AnyClientsWriteBlocked' = AnyBlockedAfter(c, Fate(c, o, extra))
        /\ Sent(c, o, extra)

\* WriteToClient.  A buffer comes from FreeOutputs or is a new one.
Buffers(c) ==
    IF out[c].size # 0 THEN {out[c]} ELSE {[out[c] EXCEPT !.size = s] : s \in Sizes}

Fits(o, extra) == Total(o, extra) <= o.size

Copy(c, o, extra) ==
    /\ Fits(o, extra)
    /\ NewOutputPending' = TRUE
    /\ OutputPending' = OutputPending \cup {c}
    /\ out' = [out EXCEPT ![c] = [o EXCEPT !.buf = Gathered(o, extra)]]
    /\ UNCHANGED <<ClientsWriteBlocked, AnyClientsWriteBlocked, marked, sockets>>

Overflow(c, o, extra) ==
    /\ ~ Fits(o, extra)
    /\ OutputPending' = OutputPending \ {c}
    /\ NewOutputPending' = (NewOutputPending /\ OutputPending' # {})
    /\ FlushClient(c, o, extra)

\* There is no memory for a buffer: the connection is closed.
NoBuffer(c) ==
    /\ MemoryFails /\ out[c].size = 0
    /\ out' = [out EXCEPT ![c] = Broken(@)] /\ marked' = marked \cup {c}
    /\ UNCHANGED <<OutputPending, NewOutputPending, ClientsWriteBlocked,
                   AnyClientsWriteBlocked, sockets>>

\* Of critical events SetCriticalOutputPending is called before.
WriteToClient(c, extra) ==
    LET critical == CriticalOutputPending \/ Len(extra) \in Critical
    IN  /\ \/ \E o \in Buffers(c) :
                /\ Copy(c, o, extra) \/ Overflow(c, o, extra)
                /\ CriticalOutputPending' =
                      (critical /\ (Fits(o, extra) \/ OutputPending' # {}))
           \/ NoBuffer(c) /\ CriticalOutputPending' = critical
        /\ messages' = [messages EXCEPT ![c] = IF out[c].open THEN @ + 1 ELSE @]
        /\ wrote' = wrote + 1

-----------------------------------------------------------------------------
(* Connections that end and begin: os/connection.c, dix/dispatch.c. *)

\* ListenToAllClients, if the client holds the grab, and then its descriptor
\* is taken out of every set.  (The saved sets are of no use after the grab and
\* emptied here.)
MasksWithout(c) ==
    LET ends == GrabInProgress = c
    IN  /\ AllClients' = (IF ends THEN AllClients \cup SavedAllClients
                                  ELSE AllClients) \ {c}
        /\ ClientsWithInput' = (IF ends THEN ClientsWithInput \cup SavedClientsWithInput
                                        ELSE ClientsWithInput) \ {c}
        /\ SavedAllClients' = IF ends THEN {} ELSE SavedAllClients \ {c}
        /\ SavedClientsWithInput' = IF ends THEN {} ELSE SavedClientsWithInput \ {c}
        /\ GrabInProgress' = IF ends THEN None ELSE GrabInProgress
        /\ ignored' = ignored \ {c}
        /\ IgnoredClientsWithInput' = IgnoredClientsWithInput \ {c}

\* CloseDownConnection tries once more to send what there is.
\* (Mutant: a descriptor is closed and stays in ClientsWriteBlocked.)
LastFate(c) == IF out[c].buf = <<>> THEN "None" ELSE Fate(c, out[c], <<>>)
UnblockNot(c) ==
    /\ ClientsWriteBlocked' = BlockedAfter(c, LastFate(c))
    /\ AnyClientsWriteBlocked' = AnyBlockedAfter(c, LastFate(c))
Unblock(c) ==
    /\ ClientsWriteBlocked' = BlockedAfter(c, LastFate(c)) \ {c}
    /\ AnyClientsWriteBlocked' =
          (AnyBlockedAfter(c, LastFate(c)) /\ ClientsWriteBlocked' # {})

CloseDownClient(c) ==
    /\ connected' = connected \ {c} /\ marked' = marked \ {c}
    /\ out' = [out EXCEPT ![c] = Gone]
    /\ wire' = [wire EXCEPT ![c] =
                  @ \o SubSeq(out[c].buf, 1, Taken(c, out[c], <<>>))]
    /\ unread' = [unread EXCEPT ![c] = 0]
    /\ asked' = [asked EXCEPT ![c] = 0] /\ dead' = dead \ {c}
    /\ OutputPending' = OutputPending \ {c}
    /\ Unblock(c) /\ MasksWithout(c)
    /\ UNCHANGED <<NewOutputPending, CriticalOutputPending, messages, wrote, joined>>

\* AllocNewConnection: the place and the descriptor are free.
AllocNewConnection(c) ==
    /\ c \notin connected /\ connected' = connected \cup {c}
    /\ out' = [out EXCEPT ![c] = Fresh]
    /\ messages' = [messages EXCEPT ![c] = 0] /\ wire' = [wire EXCEPT ![c] = <<>>]
    /\ joined' = joined + 1
    /\ IF GrabInProgress = None
       THEN AllClients' = AllClients \cup {c} /\ UNCHANGED SavedAllClients
       ELSE SavedAllClients' = SavedAllClients \cup {c} /\ UNCHANGED AllClients
    /\ UNCHANGED <<sets, ClientsWithInput, SavedClientsWithInput, GrabInProgress,
                   ignored, IgnoredClientsWithInput, marked, wrote, unread, asked, dead>>

-----------------------------------------------------------------------------
(* The main thread: Dispatch and WaitForSomething. *)

MayGo(c) == Cardinality((Clients \ connected) \cup dead \cup {c}) <= MaxGone

\* Loops over sets go by descriptor.
Comes(c, S) == c \in S /\ \A d \in S : c <= d

\* Events may be written wherever requests are executed, events and timers
\* processed, block and wakeup handlers called, and clients closed down.
Writing == {"Wait", "Establish", "Check", "Wakeup", "Exec", "Leave"}
Write(c) ==
    /\ pc \in Writing /\ c \in connected /\ wrote < MaxMessages
    /\ \E n \in Lengths : WriteToClient(c, Message(messages[c] + 1, n))
    /\ UNCHANGED <<masks, connected, peers, place, selected>>

\* FlushAllOutput: the sets are emptied first, then looked through.
FlushAllOutput(next) ==
    IF NewOutputPending
    THEN /\ CriticalOutputPending' = FALSE /\ NewOutputPending' = FALSE
         /\ todo' = OutputPending /\ OutputPending' = {}
         /\ IF OutputPending = {} THEN pc' = next /\ UNCHANGED after
            ELSE pc' = "Flush" /\ after' = next
    ELSE /\ pc' = next
         /\ UNCHANGED <<OutputPending, NewOutputPending, CriticalOutputPending,
                        todo, after>>

FlushOnly ==
    UNCHANGED <<ClientsWriteBlocked, AnyClientsWriteBlocked, masks, conns, sockets, peers>>

FlushIfCriticalOutputPending(next) ==
    IF CriticalOutputPending THEN FlushAllOutput(next)
    ELSE /\ pc' = next
         /\ UNCHANGED <<OutputPending, NewOutputPending, CriticalOutputPending,
                        todo, after>>

\* A client with more requests to come is left for later.
\* (Mutant: and forgotten.)
PutOffForgotten(c) ==
    /\ c \in ClientsWithInput
    /\ UNCHANGED <<sets, out, marked, sockets>>
PutOff(c) ==
    /\ c \in ClientsWithInput
    /\ OutputPending' = OutputPending \cup {c} /\ NewOutputPending' = TRUE
    /\ UNCHANGED <<CriticalOutputPending, ClientsWriteBlocked, AnyClientsWriteBlocked,
                   out, marked, sockets>>

FlushNext(c) ==
    /\ pc = "Flush" /\ Comes(c, todo) /\ todo' = todo \ {c}
    /\ IF todo' = {} THEN pc' = after /\ after' = "Wait" ELSE UNCHANGED <<pc, after>>
    /\ \/ c \in connected /\ PutOff(c)
       \/ /\ c \in connected \ ClientsWithInput
          /\ FlushClient(c, out[c], <<>>)
          /\ UNCHANGED <<OutputPending, NewOutputPending, CriticalOutputPending>>
       \/ c \notin connected /\ UNCHANGED <<sets, out, marked, sockets>>
    /\ UNCHANGED <<masks, connected, messages, wrote, peers, selected>>

\* EstablishNewConnections, from the work queue: clients of broken connections
\* are closed down first, and so is one whose descriptor comes again.
Establish ==
    /\ pc = "Wait" /\ knock /\ knock' = FALSE
    /\ pc' = "Establish" /\ todo' = connected
    /\ UNCHANGED <<sets, masks, conns, sockets, peers, after, readable, writable, current>>

Straggler(c) ==
    /\ pc = "Establish" /\ Comes(c, todo) /\ todo' = todo \ {c}
    /\ \/ c \in marked \cap connected /\ CloseDownClient(c)
       \/ c \notin marked /\ UNCHANGED <<sets, masks, conns, sockets, peers>>
    /\ UNCHANGED <<pc, after, selected>>

Reused(c) ==
    /\ pc = "Establish" /\ todo = {} /\ c \in connected \ Open
    /\ CloseDownClient(c)
    /\ UNCHANGED <<place, selected>>

Accept(c) ==
    /\ pc = "Establish" /\ todo = {} /\ pc' = "Wait"
    /\ AllocNewConnection(c)
    /\ UNCHANGED <<after, todo, selected>>

\* No client or descriptor is left, or accept fails.
Refuse ==
    /\ pc = "Establish" /\ todo = {} /\ pc' = "Wait"
    /\ UNCHANGED <<sets, masks, conns, sockets, peers, after, todo, selected>>

\* Events of devices are processed at the top of Dispatch ...
InputDone ==
    /\ pc = "Wait" /\ CriticalOutputPending
    /\ FlushIfCriticalOutputPending("Wait")
    /\ FlushOnly /\ UNCHANGED selected

\* ... and when the block handlers have run, output is flushed.
Blocked ==
    /\ pc = "Wait" /\ ~ knock
    /\ FlushAllOutput("Select")
    /\ FlushOnly /\ UNCHANGED selected

\* What select is asked about: LastSelectMask, without the clients whose
\* requests are in buffers, and clientsWritable; and what it finds.
Listened == AllClients \ ClientsWithInput
Asked == IF AnyClientsWriteBlocked THEN ClientsWriteBlocked ELSE {}
Bad == {c \in Listened \cup Asked : c \notin Open}
Readable == {c \in Listened : asked[c] > 0 \/ c \in dead}
Writable == {c \in Asked : unread[c] < Room \/ c \in dead}
WritableFound == IF AnyClientsWriteBlocked THEN Writable ELSE Unset

\* EBADF: CheckConnections looks for the descriptors that are closed.
SelectBad ==
    /\ pc = "Select" /\ Bad # {}
    /\ pc' = "Check" /\ todo' = AllClients
    /\ UNCHANGED <<sets, masks, conns, sockets, peers, after, selected>>

Check(c) ==
    /\ pc = "Check" /\ Comes(c, todo) /\ todo' = todo \ {c}
    /\ \/ c \in connected \ Open /\ CloseDownClient(c)
       \/ c \notin connected \ Open /\ UNCHANGED <<sets, masks, conns, sockets, peers>>
    /\ UNCHANGED <<pc, after, selected>>

Checked ==
    /\ pc = "Check" /\ todo = {} /\ pc' = "Wait"
    /\ UNCHANGED <<sets, masks, conns, sockets, peers, after, todo, selected>>

\* A client or a device has something, or somebody wants to connect.
SelectReady ==
    /\ pc = "Select" /\ Bad = {} /\ pc' = "Wakeup"
    /\ readable' = Readable \cup ClientsWithInput /\ writable' = WritableFound
    /\ knock' \in {FALSE, joined < MaxClients}
    /\ UNCHANGED <<sets, masks, conns, sockets, peers, after, todo, current>>

\* A signal or a timeout, which is 0 when clients have input.
SelectNone ==
    /\ pc = "Select" /\ Bad = {} /\ Readable = {} /\ Writable = {}
    /\ IF ClientsWithInput = {} THEN pc' = "Wait" /\ UNCHANGED current
       ELSE pc' = "Read" /\ current' \in ClientsWithInput
    /\ UNCHANGED <<sets, masks, conns, sockets, peers, after, todo,
                   readable, writable, knock>>

\* clientsWritable is not initialized when select was not asked for it, and
\* AnyClientsWriteBlocked may have been set since.
\* (Mutant: a socket that takes more is taken off the list only.)
LookOnly(found) ==
    IF AnyClientsWriteBlocked /\ found # {}
    THEN /\ ClientsWriteBlocked' = ClientsWriteBlocked \ found
         /\ AnyClientsWriteBlocked' = (ClientsWriteBlocked' # {})
         /\ UNCHANGED <<NewOutputPending, OutputPending, CriticalOutputPending>>
    ELSE UNCHANGED sets
LookWritable(found) ==
    IF AnyClientsWriteBlocked /\ found # {}
    THEN /\ NewOutputPending' = TRUE /\ OutputPending' = OutputPending \cup found
         /\ ClientsWriteBlocked' = ClientsWriteBlocked \ found
         /\ AnyClientsWriteBlocked' = (ClientsWriteBlocked' # {})
         /\ UNCHANGED CriticalOutputPending
    ELSE UNCHANGED sets

Look ==
    /\ pc = "Wakeup"
    /\ \E found \in IF writable = Unset THEN SUBSET Clients ELSE {writable} :
          LookWritable(found)
    /\ IF readable = {} THEN pc' = "Wait" /\ UNCHANGED current
       ELSE pc' = "Read" /\ current' \in readable
    /\ readable' = {} /\ writable' = Unset
    /\ UNCHANGED <<masks, conns, sockets, peers, after, todo, knock>>

\* A timer has expired: the wait ends before the sets are looked at.
Expired ==
    /\ pc = "Wakeup" /\ pc' = "Wait"
    /\ readable' = {} /\ writable' = Unset /\ knock' = FALSE
    /\ UNCHANGED <<sets, masks, conns, sockets, peers, after, todo, current>>

\* ReadRequestFromClient.  A request of the buffer, or of the socket; more of
\* them may have been read with it.
ReadRequest ==
    /\ pc \in {"Read", "Next"} /\ asked[current] > 0
    /\ current \in ClientsWithInput \cup Open
    /\ pc' = "Exec"
    /\ asked' = [asked EXCEPT ![current] = @ - 1]
    /\ \/ ClientsWithInput' = ClientsWithInput \ {current}
       \/ /\ asked[current] > 1
          /\ ClientsWithInput' = ClientsWithInput \cup {current}
    /\ UNCHANGED <<sets, AllClients, SavedAllClients, SavedClientsWithInput,
                   GrabInProgress, ignored, IgnoredClientsWithInput, conns, sockets,
                   dead, joined, after, todo, selected>>

\* The connection is closed, or its peer is and has sent nothing more.
ReadGone ==
    /\ pc \in {"Read", "Next"} /\ current \notin ClientsWithInput
    /\ current \notin Open \/ (asked[current] = 0 /\ current \in dead)
    /\ pc' = "Leave" /\ CloseDownClient(current)
    /\ UNCHANGED <<after, todo, selected>>

ReadNothing ==
    /\ pc \in {"Read", "Next"} /\ asked[current] = 0 /\ current \in Open \ dead
    /\ pc' = "Leave"
    /\ UNCHANGED <<sets, masks, conns, sockets, peers, after, todo, selected>>

\* Requests: any writes, and those that concern other clients.
GrabServer ==
    /\ pc = "Exec" /\ current \in Grabbers /\ GrabInProgress = None
    /\ GrabInProgress' = current
    /\ AllClients' = {current} /\ SavedAllClients' = AllClients
    /\ ClientsWithInput' = ClientsWithInput \cap {current}
    /\ SavedClientsWithInput' = ClientsWithInput \ {current}
    /\ UNCHANGED <<ignored, IgnoredClientsWithInput, sets, conns, sockets, peers, place, selected>>

UngrabServer ==
    /\ pc = "Exec" /\ GrabInProgress = current /\ GrabInProgress' = None
    /\ AllClients' = AllClients \cup SavedAllClients
    /\ ClientsWithInput' = ClientsWithInput \cup SavedClientsWithInput
    /\ SavedAllClients' = {} /\ SavedClientsWithInput' = {}
    /\ UNCHANGED <<ignored, IgnoredClientsWithInput, sets, conns, sockets, peers, place, selected>>

\* A request that waits for something: the client is taken out of the sets,
\* and its turn ends.
IgnoreClient ==
    /\ pc = "Exec" /\ current \in Sleepers /\ pc' = "Leave"
    /\ ignored' = ignored \cup {current}
    /\ IF GrabInProgress = None \/ current \in AllClients
       THEN /\ IgnoredClientsWithInput' =
                  IgnoredClientsWithInput \cup ({current} \cap ClientsWithInput)
            /\ ClientsWithInput' = ClientsWithInput \ {current}
            /\ AllClients' = AllClients \ {current}
            /\ UNCHANGED <<SavedAllClients, SavedClientsWithInput>>
       ELSE /\ IgnoredClientsWithInput' =
                  IgnoredClientsWithInput \cup ({current} \cap SavedClientsWithInput)
            /\ SavedClientsWithInput' = SavedClientsWithInput \ {current}
            /\ SavedAllClients' = SavedAllClients \ {current}
            /\ UNCHANGED <<AllClients, ClientsWithInput>>
    /\ UNCHANGED <<sets, GrabInProgress, conns, sockets, peers, after, todo, selected>>

\* What it waits for has come, by a timer, a handler or a request.  (A client
\* attended to by a wakeup handler is in LastSelectMask too.)
AttendClient(c) ==
    /\ pc \in Writing /\ c \in ignored
    /\ ignored' = ignored \ {c}
    /\ IgnoredClientsWithInput' = IgnoredClientsWithInput \ {c}
    /\ LET input == {c} \cap IgnoredClientsWithInput
       IN  IF GrabInProgress \in {None, c}
           THEN /\ AllClients' = AllClients \cup {c}
                /\ ClientsWithInput' = ClientsWithInput \cup input
                /\ readable' = IF pc = "Wakeup" THEN readable \cup {c} ELSE readable
                /\ UNCHANGED <<SavedAllClients, SavedClientsWithInput>>
           ELSE /\ SavedAllClients' = SavedAllClients \cup {c}
                /\ SavedClientsWithInput' = SavedClientsWithInput \cup input
                /\ UNCHANGED <<AllClients, ClientsWithInput, readable>>
    /\ UNCHANGED <<sets, GrabInProgress, conns, sockets, peers, place,
                   writable, knock, current>>

KillClient(c) ==
    /\ pc = "Exec" /\ c \in connected \ {current} /\ MayGo(c)
    /\ CloseDownClient(c)
    /\ UNCHANGED <<place, selected>>

\* The request is done; one that failed ends the client's turn, or the client.
ExecDone ==
    /\ pc = "Exec"
    /\ FlushIfCriticalOutputPending("Next")
    /\ FlushOnly /\ UNCHANGED selected

ExecFailed ==
    /\ pc = "Exec" /\ pc' = "Leave"
    /\ IF current \in marked THEN CloseDownClient(current)
       ELSE UNCHANGED <<sets, masks, conns, sockets, peers>>
    /\ UNCHANGED <<after, todo, selected>>

Leave ==
    /\ pc \in {"Next", "Leave"} /\ current' = None
    /\ FlushAllOutput("Wait")
    /\ FlushOnly /\ UNCHANGED <<readable, writable, knock>>

\* What the thread goes on with, whatever is written on the way.
Steps ==
    \/ Establish \/ Refuse \/ InputDone \/ Blocked
    \/ SelectBad \/ Checked \/ SelectReady \/ SelectNone \/ Look \/ Expired
    \/ ReadRequest \/ ReadGone \/ ReadNothing \/ ExecDone \/ ExecFailed
    \/ Leave
    \/ \E c \in Clients :
          FlushNext(c) \/ Straggler(c) \/ Reused(c) \/ Accept(c) \/ Check(c)

Requests ==
    \/ GrabServer \/ UngrabServer \/ IgnoreClient
    \/ \E c \in Clients : Write(c) \/ KillClient(c) \/ AttendClient(c)

-----------------------------------------------------------------------------
(* The peers. *)

PeerReads(c) ==
    /\ c \in connected \ dead /\ unread[c] > 0
    /\ unread' = [unread EXCEPT ![c] = @ - 1]
    /\ UNCHANGED <<sets, masks, conns, wire, peers, place, selected>>

\* Seen by select, or when the server reads on.
PeerAsks(c) ==
    /\ pc \in {"Select", "Next"}
    /\ c \in Open \ dead /\ asked[c] < MaxRequests[c]
    /\ asked' = [asked EXCEPT ![c] = @ + 1]
    /\ UNCHANGED <<sets, masks, conns, sockets, dead, joined, place, selected>>

PeerHangsUp(c) ==
    /\ c \in connected \ dead /\ MayGo(c) /\ dead' = dead \cup {c}
    /\ UNCHANGED <<sets, masks, conns, sockets, asked, joined, place, selected>>

Peers == \E c \in Clients : PeerReads(c) \/ PeerAsks(c) \/ PeerHangsUp(c)

Next == Steps \/ Requests \/ Peers

Spec == Init /\ [][Next]_vars

\* The thread runs, timers do not expire every time that select returns, turns
\* end (isItTimeToYield), and peers that are there read what they are sent.
Fairness ==
    /\ WF_vars(Steps) /\ SF_vars(Look) /\ SF_vars(Leave)
    /\ \A c \in Clients : WF_vars(PeerReads(c))
FairSpec == Spec /\ Fairness
-----------------------------------------------------------------------------
TypeOK ==
    /\ OutputPending \subseteq Clients /\ NewOutputPending \in BOOLEAN
    /\ CriticalOutputPending \in BOOLEAN
    /\ ClientsWriteBlocked \subseteq Clients /\ AnyClientsWriteBlocked \in BOOLEAN
    /\ AllClients \subseteq connected /\ ClientsWithInput \subseteq Clients
    /\ ignored \subseteq connected /\ IgnoredClientsWithInput \subseteq ignored
    /\ SavedAllClients \subseteq Clients /\ SavedClientsWithInput \subseteq Clients
    /\ GrabInProgress \in connected \cup {None}
    /\ connected \subseteq Clients /\ marked \subseteq connected
    /\ out \in [Clients -> Output]
    /\ messages \in [Clients -> Nat]
    /\ wire \in [Clients -> Seq(Byte)] /\ unread \in [Clients -> 0 .. Room]
    /\ asked \in [Clients -> Nat] /\ dead \subseteq connected
    /\ joined \in Nat /\ wrote \in Nat
    /\ pc \in Places /\ after \in Places /\ todo \subseteq Clients
    /\ readable \subseteq connected /\ writable \in (SUBSET Clients) \cup {Unset}
    /\ knock \in BOOLEAN /\ current \in Clients \cup {None}

\* Output that is buffered is always on one of the two lists from which it is
\* sent, and the mark that the list is not empty is set: across writes that
\* fit, overflow or fail, partial writes, loops over the lists, and a look at
\* a set of descriptors that select was not asked for (io.c:763, WaitFor.c:325).
NotForgotten ==
    \A c \in connected : out[c].buf # <<>> =>
        \/ c \in OutputPending /\ NewOutputPending
        \/ c \in ClientsWriteBlocked /\ AnyClientsWriteBlocked
        \/ pc = "Flush" /\ c \in todo

\* "Some connection has died, go find which one and shut it down"
\* (connection.c:997): when select complains, CheckConnections looks at a
\* descriptor that is closed.
Hung == Bad # {} /\ Bad \cap AllClients = {}
BrokenFound == pc = "Select" => ~ Hung

\* It does, but for the descriptors of clients that it does not look at: every
\* closed descriptor that select is asked about is one of a client that is
\* there, and is listened to, or sleeps (IgnoreClient), or is shut out by
\* another's server grab.  None is left of a client that has gone, in any set.
BrokenListened ==
    pc = "Select" => \A c \in Bad :
        \/ c \in AllClients
        \/ c \in ignored
        \/ GrabInProgress \notin {None, c} /\ c \in SavedAllClients

\* The loop of FlushAllOutput has come to the client; each time from now on it
\* has another request in its buffer, and is put off ("if some client still has
\* input in the queue (more requests), then don't flush", io.c:755).
Looked(c) == pc = "Flush" /\ Comes(c, todo)
PutOffForEver(c) ==
    /\ []<>(Looked(c) /\ c \in ClientsWithInput)
    /\ <>[](Looked(c) => c \in ClientsWithInput)

\* What is written to a client that stays and reads is sent in the end, unless
\* its output is put off for ever or the server comes to hang (see
\* BrokenFound): it is not forgotten on the way between the two lists.
Arrives == \A c \in Clients :
    \/ PutOffForEver(c)
    \/ (c \in connected /\ out[c].buf # <<>>)
          ~> (c \notin connected \/ out[c].buf = <<>> \/ Hung)
=============================================================================
