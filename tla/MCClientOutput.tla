--------------------------- MODULE MCClientOutput ---------------------------
(***************************************************************************)
(* ClientOutput for TLC: the refinement of the abstract OutputStream.      *)
(***************************************************************************)
EXTENDS ClientOutput

\* The first client sends requests ahead, the other is only sent events.
Requesting == [c \in Clients |-> IF c = 1 THEN 2 ELSE 0]

\* What has been written is what the socket has taken and what is buffered; of
\* a broken connection, what it had taken.
Given == [c \in Clients |-> IF c \in Open THEN wire[c] \o out[c].buf ELSE wire[c]]

Stream == INSTANCE OutputStream WITH live <- Open, given <- Given, got <- wire

\* What a client reads is a beginning of what was written to it: nothing is
\* lost, repeated or out of order, whatever part of the buffer, the message
\* behind it and its padding the socket takes (FlushClient, io.c:1001).
ImplementsStream == Stream!Spec
=============================================================================
