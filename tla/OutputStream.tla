---------------------------- MODULE OutputStream ----------------------------
(***************************************************************************)
(* What os/io.c promises of the output to clients: each connection is a    *)
(* stream of bytes, to which messages are added whole and padded, and of   *)
(* which the socket gets longer and longer beginnings.  A connection that  *)
(* breaks gets nothing more; what was not sent by then is lost.            *)
(***************************************************************************)
EXTENDS Naturals, Sequences, SequencesExt

CONSTANTS
    Clients,
    Lengths,        \* of messages, in bytes, without padding
    Padded(_, _)    \* the bytes of a message, by its number and its length

VARIABLES
    live,           \* clients whose connection is whole
    messages,       \* client -> messages written to it
    given,          \* client -> the bytes the server has written
    got             \* client -> the bytes its socket has taken

vars == <<live, messages, given, got>>

Init ==
    /\ live \subseteq Clients
    /\ messages = [c \in Clients |-> 0]
    /\ given = [c \in Clients |-> <<>>]
    /\ got = [c \in Clients |-> <<>>]

OthersKept(c) == \A d \in Clients \ {c} :
    got'[d] = got[d] /\ given'[d] = given[d] /\ messages'[d] = messages[d]

\* The socket takes some more of what there is to send.
Takes(c, bytes) == IsPrefix(got[c], got'[c]) /\ IsPrefix(got'[c], bytes)

Write(c, n) ==
    /\ c \in live /\ live' = live
    /\ messages'[c] = messages[c] + 1
    /\ given'[c] = given[c] \o Padded(messages[c] + 1, n)
    /\ Takes(c, given'[c])
    /\ OthersKept(c)

Send(c) ==
    /\ c \in live /\ live' = live
    /\ UNCHANGED <<messages, given>>
    /\ Takes(c, given[c])
    /\ OthersKept(c)

\* The connection breaks, or is closed, perhaps after a last message.
Break(c) ==
    /\ c \in live /\ live' = live \ {c}
    /\ messages'[c] \in {messages[c], messages[c] + 1}
    /\ \/ Takes(c, given[c])
       \/ \E n \in Lengths : Takes(c, given[c] \o Padded(messages[c] + 1, n))
    /\ given'[c] = got'[c]
    /\ OthersKept(c)

\* A new client in the place of one that has gone.
Connect(c) ==
    /\ c \notin live /\ live' = live \cup {c}
    /\ messages'[c] = 0 /\ given'[c] = <<>> /\ got'[c] = <<>>
    /\ OthersKept(c)

Next == \E c \in Clients :
    \/ \E n \in Lengths : Write(c, n)
    \/ Send(c) \/ Break(c) \/ Connect(c)

Spec == Init /\ [][Next]_vars
=============================================================================
