------------------------- MODULE ClientOutputProof -------------------------
(***************************************************************************)
(* Proofs about ClientOutput, for any clients, buffers, sockets and        *)
(* messages: types, that output is never forgotten, that a broken          *)
(* connection that select is asked about is one of a client that is there, *)
(* and that the output to each client is the stream that OutputStream      *)
(* promises.                                                               *)
(***************************************************************************)
EXTENDS MCClientOutput, FiniteSetTheorems, SequenceTheorems, TLAPS

-----------------------------------------------------------------------------
(* The inductive invariant, by groups of variables.  It adds to the types: *)
(* only a client with a buffer has output; every client is listened to,    *)
(* saved by the grab or asleep, and the one that grabs is not shut out by  *)
(* it; and the place of the thread says whether it has a client to serve   *)
(* or a set to look through.                                               *)

SetsInv ==
    /\ OutputPending \subseteq Clients /\ NewOutputPending \in BOOLEAN
    /\ CriticalOutputPending \in BOOLEAN
    /\ AnyClientsWriteBlocked \in BOOLEAN
    /\ ClientsWriteBlocked \subseteq connected

MasksInv ==
    /\ AllClients \cup SavedAllClients \cup ignored = connected
    /\ IgnoredClientsWithInput \subseteq ignored
    /\ ClientsWithInput \subseteq connected
    /\ SavedClientsWithInput \subseteq connected
    /\ GrabInProgress = None => SavedAllClients = {}
    /\ GrabInProgress \in connected \cup {None}
    /\ GrabInProgress # None => GrabInProgress \in AllClients \cup ignored

Buffered(o) == o.size = 0 => o.buf = <<>>
ConnsInv ==
    /\ connected \subseteq Clients /\ marked \subseteq connected
    /\ out \in [Clients -> Output]
    /\ \A c \in Clients : Buffered(out[c])
    /\ messages \in [Clients -> Nat] /\ wrote \in Nat

SocketsInv == wire \in [Clients -> Seq(Byte)] /\ unread \in [Clients -> 0 .. Room]

PeersInv ==
    /\ asked \in [Clients -> Nat] /\ dead \subseteq connected
    /\ joined \in Nat

PlaceInv ==
    /\ pc \in Places /\ todo \subseteq Clients
    /\ after \in {"Wait", "Select", "Next"}
    /\ pc = "Flush" => todo # {}
    /\ pc # "Flush" => after = "Wait"
    /\ pc \in {"Read", "Exec", "Next"} => current \in connected
    /\ pc = "Flush" /\ after = "Next" => current \in connected

SelectedInv ==
    /\ readable \subseteq connected
    /\ pc # "Wakeup" => readable = {}
    /\ writable \in (SUBSET Clients) \cup {Unset}
    /\ knock \in BOOLEAN /\ current \in Clients \cup {None}

IInv == /\ SetsInv /\ MasksInv /\ ConnsInv /\ SocketsInv /\ PeersInv
        /\ PlaceInv /\ SelectedInv /\ NotForgotten

LEMMA TypesHeld == IInv => TypeOK
  BY DEF IInv, SetsInv, MasksInv, ConnsInv, SocketsInv, PeersInv, PlaceInv,
         SelectedInv, TypeOK, Places

-----------------------------------------------------------------------------
(* Messages and buffers.                                                   *)

LEMMA PadNat == ASSUME NEW n \in Nat PROVE padlength(n) \in Nat
  <1>1. Word \in Nat /\ Word > 0
    BY ByteAssumption
  <1>2. n % Word \in 0 .. Word - 1
    BY <1>1
  <1>3. Word - (n % Word) \in Nat
    BY <1>1, <1>2
  <1> DEFINE k == Word - (n % Word)
  <1>4. k % Word \in 0 .. Word - 1
    <2> HIDE DEF k
    <2> QED BY <1>1, <1>3 DEF k
  <1> QED BY <1>1, <1>4 DEF padlength

LEMMA PadZero == padlength(0) = 0
  <1>1. Word \in Nat /\ Word > 0
    BY ByteAssumption
  <1>2. 0 % Word = 0
    BY <1>1
  <1>3. Word % Word = 0
    BY <1>1
  <1> QED BY <1>1, <1>2, <1>3 DEF padlength

LEMMA PaddingSeq ==
    ASSUME NEW n \in Nat
    PROVE  Padding(n) \in Seq(Byte) /\ Len(Padding(n)) = padlength(n)
  <1> DEFINE p == padlength(n)
  <1>1. p \in Nat
    BY PadNat
  <1> HIDE DEF p
  <1>2. Padding(n) = [j \in 1 .. p |-> 0]
    BY DEF Padding, Garbage, p
  <1>3. [j \in 1 .. p |-> 0] \in Seq(Byte) /\ Len([j \in 1 .. p |-> 0]) = p
    BY <1>1 DEF Byte
  <1> QED BY <1>2, <1>3 DEF p

\* What one writev after the other is given has the length FlushClient counts.
LEMMA GatheredSeq ==
    ASSUME NEW o \in Output, NEW extra \in Seq(Byte)
    PROVE  /\ Gathered(o, extra) \in Seq(Byte)
           /\ Len(Gathered(o, extra)) = Total(o, extra)
           /\ Total(o, extra) \in Nat
  <1> DEFINE b == o.buf
             e == Len(extra)
             p == Padding(e)
  <1>1. b \in Seq(Byte) /\ e \in Nat /\ Len(b) \in Nat
    BY DEF Output
  <1>2. p \in Seq(Byte) /\ Len(p) = padlength(e) /\ padlength(e) \in Nat
    BY <1>1, PaddingSeq, PadNat
  <1>3. Gathered(o, extra) = b \o extra \o p
    BY DEF Gathered
  <1>4. Total(o, extra) = Len(b) + e + Len(p)
    BY <1>2 DEF Total
  <1> HIDE DEF b, p
  <1>5. /\ b \o extra \o p \in Seq(Byte)
        /\ Len(b \o extra \o p) = Len(b) + e + Len(p)
    BY <1>1, <1>2
  <1> QED BY <1>1, <1>2, <1>3, <1>4, <1>5

\* The socket takes no more than it has room for and than there is.
LEMMA TakenBounds ==
    ASSUME NEW c \in Clients, NEW o \in Output, NEW extra \in Seq(Byte),
           unread \in [Clients -> 0 .. Room]
    PROVE  /\ Taken(c, o, extra) \in Nat
           /\ Taken(c, o, extra) <= Total(o, extra)
           /\ unread[c] + Taken(c, o, extra) \in 0 .. Room
  <1>1. Room \in Nat /\ unread[c] \in 0 .. Room
    BY ByteAssumption
  <1>2. Total(o, extra) \in Nat
    BY GatheredSeq
  <1> QED BY <1>1, <1>2 DEF Taken, Smaller

LEMMA KeptSeq ==
    ASSUME NEW o \in Output, NEW extra \in Seq(Byte), NEW n \in Nat,
           n <= Total(o, extra)
    PROVE  Kept(o, extra, n) \in Seq(Byte)
  <1> DEFINE b == o.buf
             rest == SubSeq(b, n + 1, Len(b))
             written == IF n < Len(b) THEN 0 ELSE n - Len(b)
             left == Total(o, extra) - n
             byte(i) == IF i <= Len(rest) THEN rest[i]
                        ELSE IF written + i - Len(rest) <= Len(extra)
                             THEN extra[written + i - Len(rest)] ELSE 0
  <1>1. b \in Seq(Nat) /\ left \in Nat /\ Total(o, extra) \in Nat
    BY GatheredSeq DEF Output, Byte
  <1>2. Kept(o, extra, n) = [i \in 1 .. left |-> byte(i)]
    BY DEF Kept, Garbage
  <1>3. ASSUME NEW i \in 1 .. left PROVE byte(i) \in Nat
    <2> HIDE DEF b, left
    <2>1. rest \in Seq(Nat) /\ Len(rest) \in Nat
      BY <1>1
    <2>2. written \in Nat
      BY <1>1
    <2> HIDE DEF rest, written
    <2>3. CASE i <= Len(rest)
      <3>1. rest[i] \in Nat
        BY <2>1, <2>3, <1>1
      <3> QED BY <3>1, <2>3
    <2>4. CASE ~(i <= Len(rest))
      <3> DEFINE k == written + i - Len(rest)
      <3>1. k \in Nat /\ k >= 1
        BY <2>1, <2>2, <2>4, <1>1
      <3> HIDE DEF k
      <3>2. k <= Len(extra) => extra[k] \in Nat
        BY <3>1 DEF Byte
      <3> QED BY <3>1, <3>2, <2>4 DEF k
    <2> QED BY <2>3, <2>4
  <1> HIDE DEF byte, left
  <1>4. [i \in 1 .. left |-> byte(i)] \in Seq(Nat)
    BY <1>1, <1>3
  <1> QED BY <1>2, <1>4 DEF Byte

LEMMA MessageSeq ==
    ASSUME NEW k \in Nat, NEW n \in Nat
    PROVE  Message(k, n) \in Seq(Byte)
  <1>1. \A j \in 1 .. n : 16 * k + j \in Nat
    OBVIOUS
  <1> QED BY <1>1 DEF Message, Byte

-----------------------------------------------------------------------------
(* What a flush does to one client's buffer and to the lists.              *)

FlushedSound(c, o, extra, f) ==
    /\ f \in Output /\ Buffered(f)
    /\ f.buf # <<>> => Fate(c, o, extra) = "Stuffed"

LEMMA FlushedOutput ==
    ASSUME NEW c \in Clients, NEW o \in Output, Buffered(o),
           NEW extra \in Seq(Byte), unread \in [Clients -> 0 .. Room],
           NEW failed \in BOOLEAN
    PROVE  FlushedSound(c, o, extra, Flushed(c, o, extra, failed))
  <1> DEFINE f == Flushed(c, o, extra, failed)
             left == Total(o, extra) - Taken(c, o, extra)
             size == IF left > o.size THEN left + BUFSIZE ELSE o.size
             kept == Kept(o, extra, Taken(c, o, extra))
             fate == Fate(c, o, extra)
  <1> SUFFICES FlushedSound(c, o, extra, f)
    OBVIOUS
  <1>1. left \in Nat /\ BUFSIZE \in Nat \ {0} /\ o.size \in Nat
    <2>1. /\ Total(o, extra) \in Nat /\ Taken(c, o, extra) \in Nat
          /\ Taken(c, o, extra) <= Total(o, extra)
      BY GatheredSeq, TakenBounds
    <2> QED BY <2>1, ByteAssumption DEF Output
  <1>2. size \in Nat /\ (o.size # 0 => size # 0)
    BY <1>1
  <1>3. kept \in Seq(Byte)
    BY TakenBounds, KeptSeq
  <1>4. <<>> \in Seq(Byte)
    OBVIOUS
  <1>5. fate \in {"None", "All", "Failed", "Stuffed"} /\ (fate = "None" <=> o.size = 0)
    <2>1. Total(o, extra) \in Nat
      BY GatheredSeq
    <2> QED BY <1>1, <2>1 DEF Fate
  <1>6. /\ fate = "None" => f = o
        /\ fate = "All" => f = [o EXCEPT !.size = 0, !.buf = <<>>]
        /\ fate = "Failed" => f = Broken(o)
        /\ fate = "Stuffed" /\ failed => f = Broken(o)
        /\ fate = "Stuffed" /\ ~ failed => f = [o EXCEPT !.size = size, !.buf = kept]
    <2> DEFINE all == [o EXCEPT !.size = 0, !.buf = <<>>]
               rest == [o EXCEPT !.size = size, !.buf = kept]
    <2>1. f = CASE fate = "None" -> o
                [] fate = "All" -> all
                [] fate = "Failed" -> Broken(o)
                [] fate = "Stuffed" /\ failed -> Broken(o)
                [] OTHER -> rest
      BY DEF Flushed
    <2> HIDE DEF f, fate, all, rest
    <2>2. /\ fate = "None" => f = o
          /\ fate = "All" => f = all
          /\ fate = "Failed" => f = Broken(o)
          /\ fate = "Stuffed" /\ failed => f = Broken(o)
          /\ fate = "Stuffed" /\ ~ failed => f = rest
      BY <2>1
    <2> QED BY <2>2 DEF all, rest
  <1> HIDE DEF f, size, kept
  <1>7. CASE fate = "None"
    <2>1. f = o /\ o.size = 0
      BY <1>5, <1>6, <1>7
    <2> QED BY <2>1 DEF FlushedSound, Buffered
  <1>8. CASE fate = "All"
    <2>1. f = [o EXCEPT !.size = 0, !.buf = <<>>]
      BY <1>6, <1>8
    <2> QED BY <2>1, <1>4 DEF FlushedSound, Buffered, Output
  <1>9. CASE fate = "Failed" \/ (fate = "Stuffed" /\ failed)
    <2>1. f = Broken(o)
      BY <1>6, <1>9
    <2> QED BY <2>1, <1>4 DEF FlushedSound, Buffered, Broken, Output
  <1>10. CASE fate = "Stuffed" /\ ~ failed
    <2>1. f = [o EXCEPT !.size = size, !.buf = kept]
      BY <1>6, <1>10
    <2>2. f \in Output /\ f.size = size
      BY <2>1, <1>2, <1>3 DEF Output
    <2>3. size # 0
      BY <1>2, <1>5, <1>10
    <2> QED BY <2>2, <2>3, <1>10 DEF FlushedSound, Buffered
  <1> QED BY <1>5, <1>7, <1>8, <1>9, <1>10

\* The list of clients whose socket is full: only c comes to it or leaves it,
\* and its mark stays with whoever stays.
ListSound(c, fate) ==
    /\ ClientsWriteBlocked' \subseteq ClientsWriteBlocked \cup {c}
    /\ ClientsWriteBlocked \ {c} \subseteq ClientsWriteBlocked'
    /\ AnyClientsWriteBlocked' \in BOOLEAN
    /\ AnyClientsWriteBlocked /\ ClientsWriteBlocked \ {c} # {}
          => AnyClientsWriteBlocked'
    /\ fate = "Stuffed" => c \in ClientsWriteBlocked' /\ AnyClientsWriteBlocked'

LEMMA FlushEffect ==
    ASSUME NEW c \in Clients, NEW o \in Output, Buffered(o),
           NEW extra \in Seq(Byte), SetsInv, ConnsInv, SocketsInv, c \in connected,
           FlushClient(c, o, extra)
    PROVE  /\ FlushedSound(c, o, extra, out'[c])
           /\ \A d \in Clients \ {c} : out'[d] = out[d]
           /\ out' \in [Clients -> Output]
           /\ marked' \subseteq connected
           /\ ListSound(c, Fate(c, o, extra))
           /\ SocketsInv'
  <1>1. PICK failed \in {FALSE, NoMemory(c, o, extra)} :
            /\ out' = [out EXCEPT ![c] = Flushed(c, o, extra, failed)]
            /\ marked' = IF failed \/ Fate(c, o, extra) = "Failed"
                         THEN marked \cup {c} ELSE marked
    BY DEF FlushClient
  <1>2. failed \in BOOLEAN
    BY DEF NoMemory, ClientAssumption, Fate
  <1>3. FlushedSound(c, o, extra, Flushed(c, o, extra, failed))
    BY <1>2, FlushedOutput DEF SocketsInv
  <1>4. /\ out'[c] = Flushed(c, o, extra, failed)
        /\ \A d \in Clients \ {c} : out'[d] = out[d]
        /\ out' \in [Clients -> Output]
    <2> DEFINE f == Flushed(c, o, extra, failed)
    <2>1. f \in Output
      BY <1>3 DEF FlushedSound
    <2> HIDE DEF f
    <2>2. out' = [out EXCEPT ![c] = f] /\ out \in [Clients -> Output]
      BY <1>1 DEF f, ConnsInv
    <2>3. out'[c] = f /\ out' \in [Clients -> Output]
          /\ \A d \in Clients \ {c} : out'[d] = out[d]
      BY <2>1, <2>2
    <2> QED BY <2>3 DEF f
  <1>5. marked' \subseteq connected
    BY <1>1 DEF ConnsInv
  <1>6. ListSound(c, Fate(c, o, extra))
    BY DEF FlushClient, ListSound, SetsInv, BlockedAfter, AnyBlockedAfter
  <1>7. SocketsInv'
    <2> DEFINE n == IF o.size = 0 THEN 0 ELSE Taken(c, o, extra)
               g == Gathered(o, extra)
    <2>1. /\ wire' = [wire EXCEPT ![c] = @ \o SubSeq(g, 1, n)]
          /\ unread' = [unread EXCEPT ![c] = @ + n]
      BY DEF FlushClient, Sent
    <2>2. n \in Nat /\ n <= Len(g) /\ unread[c] + n \in 0 .. Room /\ g \in Seq(Byte)
      <3>1. unread \in [Clients -> 0 .. Room] /\ Room \in Nat
        BY ByteAssumption DEF SocketsInv
      <3> QED BY <3>1, TakenBounds, GatheredSeq
    <2> HIDE DEF n, g
    <2>3. SubSeq(g, 1, n) \in Seq(Byte)
      BY <2>2
    <2>4. wire[c] \o SubSeq(g, 1, n) \in Seq(Byte)
      BY <2>3 DEF SocketsInv
    <2>5. wire' \in [Clients -> Seq(Byte)]
      BY <2>1, <2>4 DEF SocketsInv
    <2>6. unread' \in [Clients -> 0 .. Room]
      BY <2>1, <2>2 DEF SocketsInv
    <2> QED BY <2>5, <2>6 DEF SocketsInv
  <1> QED BY <1>3, <1>4, <1>5, <1>6, <1>7

-----------------------------------------------------------------------------
(* WriteToClient.                                                          *)

LEMMA BuffersSound ==
    ASSUME NEW c \in Clients, ConnsInv, NEW o \in Buffers(c)
    PROVE  o \in Output /\ Buffered(o) /\ o.size # 0
  <1> DEFINE b == out[c]
  <1>1. b \in Output
    BY DEF ConnsInv
  <1>2. CASE b.size # 0
    <2>1. o = b
      BY <1>2 DEF Buffers
    <2> QED BY <2>1, <1>1, <1>2 DEF Buffered
  <1>3. CASE b.size = 0
    <2>1. PICK s \in Sizes : o = [b EXCEPT !.size = s]
      BY <1>3 DEF Buffers
    <2>2. s \in Nat /\ s # 0
      BY ByteAssumption
    <2> HIDE DEF b
    <2>3. o \in Output /\ o.size = s
      BY <1>1, <2>1, <2>2 DEF Output
    <2> QED BY <2>2, <2>3 DEF Buffered
  <1> QED BY <1>2, <1>3

\* What a write does to the buffers and the lists: the client's output is on
\* one of them, that of others where it was.
WriteSound(c) ==
    /\ out' \in [Clients -> Output] /\ \A d \in Clients : Buffered(out'[d])
    /\ \A d \in Clients \ {c} : out'[d] = out[d]
    /\ marked' \subseteq connected
    /\ OutputPending' \subseteq OutputPending \cup {c}
    /\ OutputPending \ {c} \subseteq OutputPending'
    /\ NewOutputPending' \in BOOLEAN /\ AnyClientsWriteBlocked' \in BOOLEAN
    /\ NewOutputPending /\ OutputPending \ {c} # {} => NewOutputPending'
    /\ ClientsWriteBlocked' \subseteq ClientsWriteBlocked \cup {c}
    /\ ClientsWriteBlocked \ {c} \subseteq ClientsWriteBlocked'
    /\ AnyClientsWriteBlocked /\ ClientsWriteBlocked \ {c} # {}
          => AnyClientsWriteBlocked'
    /\ out'[c].buf # <<>> =>
          \/ c \in OutputPending' /\ NewOutputPending'
          \/ c \in ClientsWriteBlocked' /\ AnyClientsWriteBlocked'
    /\ SocketsInv'

LEMMA CopySound ==
    ASSUME IInv, NEW c \in connected, NEW o \in Buffers(c), NEW extra \in Seq(Byte),
           Copy(c, o, extra)
    PROVE  WriteSound(c)
  <1> DEFINE g == Gathered(o, extra)
             f == [o EXCEPT !.buf = g]
  <1>1. c \in Clients
    BY DEF IInv, ConnsInv
  <1>2. o \in Output /\ o.size # 0 /\ g \in Seq(Byte)
    BY <1>1, BuffersSound, GatheredSeq DEF IInv
  <1>3. f \in Output /\ Buffered(f)
    <2> HIDE DEF g
    <2> QED BY <1>2 DEF Output, Buffered
  <1>4. out' = [out EXCEPT ![c] = f]
    BY DEF Copy
  <1> HIDE DEF f, g
  <1>5. /\ out' \in [Clients -> Output] /\ \A d \in Clients \ {c} : out'[d] = out[d]
        /\ \A d \in Clients : Buffered(out'[d])
    BY <1>1, <1>3, <1>4 DEF IInv, ConnsInv
  <1>6. SocketsInv'
    BY DEF Copy, sockets, IInv, SocketsInv
  <1> QED BY <1>1, <1>5, <1>6 DEF Copy, WriteSound, IInv, SetsInv, ConnsInv

LEMMA OverflowSound ==
    ASSUME IInv, NEW c \in connected, NEW o \in Buffers(c), NEW extra \in Seq(Byte),
           Overflow(c, o, extra)
    PROVE  WriteSound(c)
  <1>1. c \in Clients /\ o \in Output /\ Buffered(o)
    BY BuffersSound DEF IInv, ConnsInv
  <1>2. /\ FlushedSound(c, o, extra, out'[c])
        /\ \A d \in Clients \ {c} : out'[d] = out[d]
        /\ out' \in [Clients -> Output]
        /\ marked' \subseteq connected
        /\ ListSound(c, Fate(c, o, extra))
        /\ SocketsInv'
    BY <1>1, FlushEffect DEF Overflow, IInv
  <1>3. \A d \in Clients : Buffered(out'[d])
    BY <1>2 DEF FlushedSound, IInv, ConnsInv
  <1>4. /\ OutputPending' = OutputPending \ {c}
        /\ NewOutputPending' = (NewOutputPending /\ OutputPending' # {})
    BY DEF Overflow
  <1>5. /\ NewOutputPending' \in BOOLEAN
        /\ NewOutputPending /\ OutputPending \ {c} # {} => NewOutputPending'
    BY <1>4 DEF IInv, SetsInv
  <1>6. out'[c].buf # <<>> => c \in ClientsWriteBlocked' /\ AnyClientsWriteBlocked'
    BY <1>2 DEF FlushedSound, ListSound
  <1> QED BY <1>2, <1>3, <1>4, <1>5, <1>6 DEF WriteSound, ListSound

LEMMA BrokenSound ==
    ASSUME NEW o \in Output
    PROVE  Broken(o) \in Output /\ Buffered(Broken(o)) /\ Broken(o).buf = <<>>
  BY DEF Broken, Output, Buffered

LEMMA NoBufferSound ==
    ASSUME IInv, NEW c \in connected, NoBuffer(c)
    PROVE  WriteSound(c)
  <1> DEFINE f == Broken(out[c])
  <1>1. c \in Clients /\ out[c] \in Output
    BY DEF IInv, ConnsInv
  <1>2. f \in Output /\ Buffered(f) /\ f.buf = <<>>
    BY <1>1, BrokenSound
  <1>3. out' = [out EXCEPT ![c] = f]
    BY DEF NoBuffer
  <1> HIDE DEF f
  <1>4. /\ out' \in [Clients -> Output] /\ \A d \in Clients \ {c} : out'[d] = out[d]
        /\ \A d \in Clients : Buffered(out'[d])
        /\ out'[c].buf = <<>>
    BY <1>1, <1>2, <1>3 DEF IInv, ConnsInv
  <1>5. SocketsInv'
    BY DEF NoBuffer, sockets, IInv, SocketsInv
  <1>6. marked' \subseteq connected
    BY DEF NoBuffer, IInv, ConnsInv
  <1>7. UNCHANGED <<OutputPending, NewOutputPending, ClientsWriteBlocked,
                    AnyClientsWriteBlocked>>
    BY DEF NoBuffer
  <1> QED BY <1>4, <1>5, <1>6, <1>7 DEF WriteSound, IInv, SetsInv

LEMMA WriteStep ==
    ASSUME IInv, NEW c \in Clients, Write(c)
    PROVE  IInv'
  <1>1. c \in connected
    BY DEF Write
  <1> DEFINE k == messages[c] + 1
  <1>2. PICK n \in Lengths : WriteToClient(c, Message(k, n))
    BY DEF Write
  <1> DEFINE extra == Message(k, n)
  <1>3. extra \in Seq(Byte)
    <2>1. k \in Nat /\ n \in Nat
      BY ByteAssumption DEF IInv, ConnsInv
    <2> QED BY <2>1, MessageSeq
  <1>4. messages' \in [Clients -> Nat] /\ wrote' \in Nat
    BY <1>2 DEF WriteToClient, IInv, ConnsInv
  <1> HIDE DEF extra
  <1>5. WriteToClient(c, extra)
    BY <1>2 DEF extra
  <1>6. WriteSound(c) /\ CriticalOutputPending' \in BOOLEAN
    <2>1. CASE NoBuffer(c) /\ CriticalOutputPending'
                    = (CriticalOutputPending \/ Len(extra) \in Critical)
      BY <1>1, <2>1, NoBufferSound
    <2>2. ASSUME NEW o \in Buffers(c), Copy(c, o, extra) \/ Overflow(c, o, extra),
                 CriticalOutputPending' =
                    ((CriticalOutputPending \/ Len(extra) \in Critical)
                        /\ (Fits(o, extra) \/ OutputPending' # {}))
          PROVE  WriteSound(c) /\ CriticalOutputPending' \in BOOLEAN
      BY <1>1, <1>3, <2>2, CopySound, OverflowSound
    <2> QED BY <1>5, <2>1, <2>2 DEF WriteToClient
  <1>7. UNCHANGED <<masks, connected, peers, place, selected>>
    BY DEF Write
  <1>8. SetsInv' /\ ConnsInv' /\ SocketsInv'
    BY <1>1, <1>4, <1>6, <1>7 DEF WriteSound, IInv, SetsInv, ConnsInv
  <1>9. MasksInv' /\ PeersInv' /\ PlaceInv' /\ SelectedInv'
    BY <1>7 DEF IInv, MasksInv, PeersInv, PlaceInv, SelectedInv, masks, peers, place,
                selected
  <1>10. NotForgotten'
    <2> SUFFICES ASSUME NEW d \in connected, out'[d].buf # <<>>
                 PROVE  \/ d \in OutputPending' /\ NewOutputPending'
                        \/ d \in ClientsWriteBlocked' /\ AnyClientsWriteBlocked'
                        \/ pc' = "Flush" /\ d \in todo'
      BY <1>7 DEF NotForgotten
    <2>1. CASE d = c
      BY <1>6, <2>1 DEF WriteSound
    <2>2. CASE d # c
      <3>1. d \in Clients /\ out'[d] = out[d]
        BY <1>6, <2>2 DEF WriteSound, IInv, ConnsInv
      <3>2. pc' = pc /\ todo' = todo
        BY <1>7 DEF place
      <3> QED BY <1>6, <2>2, <3>1, <3>2 DEF WriteSound, IInv, NotForgotten
    <2> QED BY <2>1, <2>2
  <1> QED BY <1>8, <1>9, <1>10 DEF IInv

-----------------------------------------------------------------------------
(* Connections that end and begin.                                         *)

ClosedSound(c) ==
    /\ connected' = connected \ {c}
    /\ \A d \in Clients \ {c} : out'[d] = out[d]
    /\ OutputPending' = OutputPending \ {c} /\ NewOutputPending' = NewOutputPending
    /\ ClientsWriteBlocked \ {c} \subseteq ClientsWriteBlocked'
    /\ AnyClientsWriteBlocked /\ ClientsWriteBlocked \ {c} # {}
          => AnyClientsWriteBlocked'

LEMMA CloseEffect ==
    ASSUME IInv, NEW c \in connected, CloseDownClient(c)
    PROVE  /\ SetsInv' /\ MasksInv' /\ ConnsInv' /\ SocketsInv' /\ PeersInv'
           /\ ClosedSound(c)
  <1>1. c \in Clients /\ connected \subseteq Clients /\ out \in [Clients -> Output]
    BY DEF IInv, ConnsInv
  <1>2. connected' = connected \ {c} /\ marked' = marked \ {c}
    BY DEF CloseDownClient
  <1>3. /\ ClientsWriteBlocked' \subseteq ClientsWriteBlocked \ {c}
        /\ ClientsWriteBlocked \ {c} \subseteq ClientsWriteBlocked'
        /\ AnyClientsWriteBlocked' \in BOOLEAN
        /\ AnyClientsWriteBlocked /\ ClientsWriteBlocked \ {c} # {}
              => AnyClientsWriteBlocked'
    BY DEF CloseDownClient, Unblock, BlockedAfter, AnyBlockedAfter, IInv, SetsInv
  <1>4. SetsInv'
    BY <1>2, <1>3 DEF CloseDownClient, IInv, SetsInv
  <1>5. MasksInv'
    BY <1>2 DEF CloseDownClient, MasksWithout, IInv, MasksInv, None
  <1>6. /\ out' \in [Clients -> Output] /\ \A d \in Clients \ {c} : out'[d] = out[d]
        /\ \A d \in Clients : Buffered(out'[d])
    <2>1. Gone \in Output /\ Buffered(Gone)
      BY DEF Gone, Output, Buffered
    <2>2. out' = [out EXCEPT ![c] = Gone]
      BY DEF CloseDownClient
    <2> QED BY <1>1, <2>1, <2>2 DEF IInv, ConnsInv
  <1>7. ConnsInv'
    BY <1>2, <1>6 DEF CloseDownClient, IInv, ConnsInv
  <1>8. SocketsInv'
    <2> DEFINE b == out[c].buf
               n == Taken(c, out[c], <<>>)
    <2>1. b \in Seq(Byte) /\ <<>> \in Seq(Byte)
      BY <1>1 DEF Output
    <2>2. n \in Nat /\ n <= Len(b)
      <3>1. Total(out[c], <<>>) = Len(b)
        BY <2>1, PadZero DEF Total
      <3> QED BY <1>1, <2>1, <3>1, TakenBounds DEF IInv, SocketsInv
    <2>3. /\ wire' = [wire EXCEPT ![c] = @ \o SubSeq(b, 1, n)]
          /\ unread' = [unread EXCEPT ![c] = 0]
      BY DEF CloseDownClient
    <2> HIDE DEF b, n
    <2>4. SubSeq(b, 1, n) \in Seq(Byte)
      BY <2>1, <2>2
    <2>5. wire[c] \o SubSeq(b, 1, n) \in Seq(Byte) /\ 0 \in 0 .. Room
      BY <1>1, <2>4, ByteAssumption DEF IInv, SocketsInv
    <2> QED BY <2>3, <2>5 DEF IInv, SocketsInv
  <1>9. PeersInv'
    BY <1>2 DEF CloseDownClient, IInv, PeersInv
  <1> QED BY <1>2, <1>3, <1>4, <1>5, <1>6, <1>7, <1>8, <1>9 DEF ClosedSound, CloseDownClient

\* Where a client may be closed down, nothing is being flushed or looked at.
LEMMA CloseStep ==
    ASSUME IInv, NEW c \in connected, CloseDownClient(c),
           pc \notin {"Flush", "Wakeup"}, PlaceInv', pc' \notin {"Flush", "Wakeup"},
           UNCHANGED selected
    PROVE  IInv'
  <1>1. /\ SetsInv' /\ MasksInv' /\ ConnsInv' /\ SocketsInv' /\ PeersInv'
        /\ ClosedSound(c)
    BY CloseEffect
  <1>2. SelectedInv'
    BY DEF IInv, SelectedInv, selected
  <1>3. NotForgotten'
    <2> SUFFICES ASSUME NEW d \in connected', out'[d].buf # <<>>
                 PROVE  \/ d \in OutputPending' /\ NewOutputPending'
                        \/ d \in ClientsWriteBlocked' /\ AnyClientsWriteBlocked'
      BY DEF NotForgotten
    <2>1. d \in connected /\ d # c /\ d \in Clients
      BY <1>1 DEF ClosedSound, IInv, ConnsInv
    <2>2. out[d].buf # <<>>
      BY <1>1, <2>1 DEF ClosedSound
    <2>3. \/ d \in OutputPending /\ NewOutputPending
          \/ d \in ClientsWriteBlocked /\ AnyClientsWriteBlocked
      BY <2>1, <2>2 DEF IInv, NotForgotten
    <2> QED BY <1>1, <2>1, <2>3 DEF ClosedSound
  <1> QED BY <1>1, <1>2, <1>3 DEF IInv

LEMMA StayStep ==
    ASSUME IInv, UNCHANGED <<sets, masks, conns, sockets, peers>>,
           pc # "Flush", PlaceInv', SelectedInv'
    PROVE  IInv'
  BY DEF IInv, SetsInv, MasksInv, ConnsInv, SocketsInv, PeersInv, NotForgotten, sets,
         masks, conns, sockets, peers

LEMMA AcceptStep ==
    ASSUME IInv, NEW c \in Clients, Accept(c)
    PROVE  IInv'
  <1>1. /\ c \notin connected /\ connected' = connected \cup {c}
        /\ UNCHANGED <<sets, ClientsWithInput, SavedClientsWithInput, GrabInProgress,
                       ignored, IgnoredClientsWithInput, marked, wrote, unread, asked,
                       dead>>
        /\ UNCHANGED <<after, todo, selected>>
        /\ pc = "Establish" /\ pc' = "Wait"
    BY DEF Accept, AllocNewConnection
  <1>2. SetsInv'
    BY <1>1 DEF IInv, SetsInv, sets
  <1>3. MasksInv'
    BY <1>1 DEF IInv, MasksInv, Accept, AllocNewConnection, ConnsInv, None
  <1>4. /\ ConnsInv' /\ \A d \in Clients \ {c} : out'[d] = out[d]
        /\ out'[c].buf = <<>>
    <2>1. Fresh \in Output /\ Buffered(Fresh) /\ Fresh.buf = <<>>
      BY DEF Fresh, Output, Buffered
    <2>2. out' = [out EXCEPT ![c] = Fresh] /\ messages' = [messages EXCEPT ![c] = 0]
      BY DEF Accept, AllocNewConnection
    <2>3. /\ out' \in [Clients -> Output]
          /\ \A d \in Clients : Buffered(out'[d])
          /\ \A d \in Clients \ {c} : out'[d] = out[d]
          /\ out'[c].buf = <<>>
      BY <2>1, <2>2 DEF IInv, ConnsInv
    <2>4. messages' \in [Clients -> Nat]
      BY <2>2 DEF IInv, ConnsInv
    <2> QED BY <1>1, <2>3, <2>4 DEF IInv, ConnsInv
  <1>5. SocketsInv'
    BY <1>1 DEF IInv, SocketsInv, Accept, AllocNewConnection
  <1>6. PeersInv'
    BY <1>1 DEF IInv, PeersInv, Accept, AllocNewConnection
  <1>7. PlaceInv'
    BY <1>1 DEF IInv, PlaceInv, Places
  <1>8. SelectedInv'
    BY <1>1 DEF IInv, SelectedInv, selected
  <1>9. NotForgotten'
    <2> SUFFICES ASSUME NEW d \in connected', out'[d].buf # <<>>
                 PROVE  \/ d \in OutputPending' /\ NewOutputPending'
                        \/ d \in ClientsWriteBlocked' /\ AnyClientsWriteBlocked'
      BY DEF NotForgotten
    <2>1. d # c
      BY <1>4
    <2>2. d \in connected /\ d \in Clients /\ out'[d] = out[d]
      BY <1>1, <1>4, <2>1 DEF IInv, ConnsInv
    <2> QED BY <1>1, <2>2 DEF IInv, NotForgotten, sets
  <1> QED BY <1>2, <1>3, <1>4, <1>5, <1>6, <1>7, <1>8, <1>9 DEF IInv

-----------------------------------------------------------------------------
(* FlushAllOutput: its beginning, where the sets are emptied, and a step   *)
(* of its loop.                                                            *)

LEMMA FlushAllStep ==
    ASSUME IInv, NEW next \in {"Wait", "Select", "Next"},
           FlushAllOutput(next) \/ FlushIfCriticalOutputPending(next), FlushOnly,
           pc \notin {"Flush", "Wakeup"}, SelectedInv',
           next = "Next" => current' \in connected
    PROVE  IInv'
  <1>1. UNCHANGED <<ClientsWriteBlocked, AnyClientsWriteBlocked, masks, conns, sockets,
                    peers>>
    BY DEF FlushOnly
  <1>2. CASE /\ OutputPending = {} \/ ~ NewOutputPending
             /\ pc' = next /\ UNCHANGED after
             /\ OutputPending' = OutputPending
             /\ NewOutputPending' \in {NewOutputPending, FALSE}
             /\ OutputPending # {} => NewOutputPending' = NewOutputPending
             /\ CriticalOutputPending' \in BOOLEAN /\ todo' \subseteq Clients
    <2>1. after = "Wait"
      BY DEF IInv, PlaceInv
    <2>2. SetsInv'
      BY <1>1, <1>2 DEF IInv, SetsInv, conns
    <2>3. PlaceInv'
      BY <1>1, <1>2, <2>1 DEF IInv, PlaceInv, Places, conns
    <2>4. NotForgotten'
      BY <1>1, <1>2 DEF IInv, NotForgotten, conns
    <2> QED BY <1>1, <2>2, <2>3, <2>4 DEF IInv, MasksInv, ConnsInv, SocketsInv,
               PeersInv, masks, conns, sockets, peers
  <1>3. CASE /\ NewOutputPending /\ OutputPending # {}
             /\ CriticalOutputPending' = FALSE /\ NewOutputPending' = FALSE
             /\ todo' = OutputPending /\ OutputPending' = {}
             /\ pc' = "Flush" /\ after' = next
    <2>1. SetsInv'
      BY <1>1, <1>3 DEF IInv, SetsInv, conns
    <2>2. PlaceInv'
      BY <1>1, <1>3 DEF IInv, PlaceInv, Places, SetsInv, conns
    <2>3. NotForgotten'
      BY <1>1, <1>3 DEF IInv, NotForgotten, conns
    <2> QED BY <1>1, <2>1, <2>2, <2>3 DEF IInv, MasksInv, ConnsInv, SocketsInv,
               PeersInv, masks, conns, sockets, peers
  <1>4. CASE /\ UNCHANGED <<OutputPending, NewOutputPending, CriticalOutputPending,
                            todo, after>>
             /\ pc' = next
    <2>1. after = "Wait"
      BY DEF IInv, PlaceInv
    <2>2. SetsInv'
      BY <1>1, <1>4 DEF IInv, SetsInv, conns
    <2>3. PlaceInv'
      BY <1>1, <1>4, <2>1 DEF IInv, PlaceInv, Places, conns
    <2>4. NotForgotten'
      BY <1>1, <1>4 DEF IInv, NotForgotten, conns
    <2> QED BY <1>1, <2>2, <2>3, <2>4 DEF IInv, MasksInv, ConnsInv, SocketsInv,
               PeersInv, masks, conns, sockets, peers
  <1> QED BY <1>2, <1>3, <1>4
          DEF FlushAllOutput, FlushIfCriticalOutputPending, IInv, SetsInv

LEMMA FlushNextStep ==
    ASSUME IInv, NEW c \in Clients, FlushNext(c)
    PROVE  IInv'
  <1>1. /\ pc = "Flush" /\ c \in todo /\ todo' = todo \ {c}
        /\ UNCHANGED <<masks, connected, messages, wrote, peers, selected>>
    BY DEF FlushNext, Comes
  <1>2. /\ pc' = IF todo' = {} THEN after ELSE "Flush"
        /\ after' = IF todo' = {} THEN "Wait" ELSE after
    BY DEF FlushNext
  <1>3. PlaceInv'
    BY <1>1, <1>2 DEF IInv, PlaceInv, Places, selected
  <1>4. MasksInv' /\ PeersInv'
    BY <1>1 DEF IInv, MasksInv, PeersInv, masks, peers
  <1>5. SelectedInv'
    BY <1>1, <1>2 DEF IInv, PlaceInv, SelectedInv, selected
  \* What is left to show of each of the three cases.
  <1> DEFINE Listed(d) == \/ d \in OutputPending' /\ NewOutputPending'
                          \/ d \in ClientsWriteBlocked' /\ AnyClientsWriteBlocked'
             Rest == /\ SetsInv' /\ ConnsInv' /\ SocketsInv'
                     /\ \A d \in Clients \ {c} : out'[d] = out[d]
                     /\ \A d \in Clients \ {c} :
                           \/ d \in OutputPending /\ NewOutputPending
                           \/ d \in ClientsWriteBlocked /\ AnyClientsWriteBlocked
                           => Listed(d)
                     /\ c \in connected /\ out'[c].buf # <<>> => Listed(c)
  <1>6. ASSUME Rest PROVE IInv'
    <2>1. NotForgotten'
      <3> SUFFICES ASSUME NEW d \in connected, out'[d].buf # <<>>
                   PROVE  Listed(d) \/ (pc' = "Flush" /\ d \in todo')
        BY <1>1 DEF NotForgotten
      <3>1. d \in Clients
        BY DEF IInv, ConnsInv
      <3>2. CASE d = c
        BY <1>6, <3>2
      <3>3. CASE d # c /\ d \in todo
        BY <1>1, <1>2, <3>3
      <3>4. CASE d # c /\ d \notin todo
        <4>1. out[d].buf # <<>>
          BY <1>6, <3>1, <3>4
        <4>2. \/ d \in OutputPending /\ NewOutputPending
              \/ d \in ClientsWriteBlocked /\ AnyClientsWriteBlocked
          BY <3>4, <4>1 DEF IInv, NotForgotten
        <4> QED BY <1>6, <3>1, <3>4, <4>2
      <3> QED BY <3>2, <3>3, <3>4
    <2> QED BY <1>3, <1>4, <1>5, <1>6, <2>1 DEF IInv
  <1>7. CASE c \in connected /\ PutOff(c)
    BY <1>1, <1>6, <1>7 DEF PutOff, IInv, SetsInv, ConnsInv, SocketsInv, sockets
  <1>8. CASE c \notin connected /\ UNCHANGED <<sets, out, marked, sockets>>
    BY <1>1, <1>6, <1>8 DEF IInv, SetsInv, ConnsInv, SocketsInv, sets, sockets
  <1>9. CASE /\ c \in connected
             /\ FlushClient(c, out[c], <<>>)
             /\ UNCHANGED <<OutputPending, NewOutputPending, CriticalOutputPending>>
    <2>1. out[c] \in Output /\ Buffered(out[c]) /\ <<>> \in Seq(Byte)
      BY DEF IInv, ConnsInv
    <2>2. /\ FlushedSound(c, out[c], <<>>, out'[c])
          /\ \A d \in Clients \ {c} : out'[d] = out[d]
          /\ out' \in [Clients -> Output]
          /\ marked' \subseteq connected
          /\ ListSound(c, Fate(c, out[c], <<>>))
          /\ SocketsInv'
      BY <1>9, <2>1, FlushEffect DEF IInv
    <2>3. SetsInv'
      BY <1>1, <1>9, <2>2 DEF ListSound, IInv, SetsInv
    <2>4. ConnsInv'
      <3>1. \A d \in Clients : Buffered(out'[d])
        BY <2>2 DEF FlushedSound, IInv, ConnsInv
      <3> QED BY <1>1, <2>2, <3>1 DEF IInv, ConnsInv
    <2>5. out'[c].buf # <<>> => Listed(c)
      BY <2>2 DEF FlushedSound, ListSound
    <2>6. \A d \in Clients \ {c} :
              \/ d \in OutputPending /\ NewOutputPending
              \/ d \in ClientsWriteBlocked /\ AnyClientsWriteBlocked
              => Listed(d)
      BY <1>9, <2>2 DEF ListSound
    <2> QED BY <1>6, <2>2, <2>3, <2>4, <2>5, <2>6
  <1> QED BY <1>7, <1>8, <1>9 DEF FlushNext

-----------------------------------------------------------------------------
(* The other steps.                                                        *)

LEMMA InitInv == Init => IInv
  <1> SUFFICES ASSUME Init PROVE IInv
    OBVIOUS
  <1>1. Fresh \in Output /\ Gone \in Output /\ Buffered(Fresh) /\ Buffered(Gone)
        /\ Fresh.buf = <<>> /\ Gone.buf = <<>>
    BY DEF Fresh, Gone, Output, Buffered
  <1>2. out \in [Clients -> Output]
        /\ \A c \in Clients : Buffered(out[c]) /\ out[c].buf = <<>>
    BY <1>1 DEF Init
  <1>3. connected \subseteq Clients
    BY DEF Init
  <1>4. joined \in Nat
    <2>1. IsFiniteSet(connected)
      BY <1>3, FS_Subset, ClientAssumption
    <2> QED BY <2>1, FS_CardinalityType DEF Init
  <1>5. SetsInv /\ MasksInv /\ ConnsInv
    BY <1>2, <1>3 DEF Init, SetsInv, MasksInv, ConnsInv, None
  <1>6. SocketsInv
    <2>1. <<>> \in Seq(Byte) /\ 0 \in 0 .. Room
      BY ByteAssumption
    <2> QED BY <2>1 DEF Init, SocketsInv
  <1>7. PeersInv /\ PlaceInv /\ SelectedInv
    BY <1>4 DEF Init, PeersInv, PlaceInv, Places, SelectedInv
  <1>8. NotForgotten
    BY <1>2, <1>3 DEF NotForgotten
  <1> QED BY <1>5, <1>6, <1>7, <1>8 DEF IInv

\* The steps that change nothing but the thread's place and its sets.
LEMMA ThreadStep ==
    ASSUME IInv, Establish \/ Refuse \/ SelectBad \/ Checked \/ SelectReady
                    \/ SelectNone \/ Expired \/ ReadNothing
    PROVE  IInv'
  <1>1. UNCHANGED <<sets, masks, conns, sockets, peers, after>>
    BY DEF Establish, Refuse, SelectBad, Checked, SelectReady, SelectNone, Expired,
           ReadNothing, vars
  <1>2. connected \subseteq Clients /\ connected' = connected
    BY <1>1 DEF IInv, ConnsInv, conns
  <1>3. Readable \subseteq connected /\ ClientsWithInput \subseteq connected
        /\ WritableFound \in (SUBSET Clients) \cup {Unset}
        /\ AllClients \subseteq Clients
    BY <1>2 DEF Readable, Listened, WritableFound, Writable, Asked, IInv, MasksInv,
                SetsInv
  <1>4. /\ pc \in Places \ {"Flush"} /\ pc' \in Places \ {"Flush"}
        /\ todo' \subseteq Clients
        /\ pc' \notin {"Exec", "Next"} /\ (pc' = "Read" => current' \in connected)
    BY <1>2, <1>3 DEF Establish, Refuse, SelectBad, Checked, SelectReady, SelectNone,
           Expired, ReadNothing, Places, IInv, PlaceInv
  <1>5. PlaceInv'
    BY <1>1, <1>2, <1>4 DEF IInv, PlaceInv
  <1>6. SelectedInv'
    <2>1. CASE Refuse \/ SelectBad \/ Checked \/ ReadNothing
      BY <1>2, <2>1 DEF Refuse, SelectBad, Checked, ReadNothing, IInv, SelectedInv,
                        selected
    <2>2. CASE Establish
      BY <1>2, <2>2 DEF Establish, IInv, SelectedInv
    <2>3. CASE SelectReady
      <3>1. /\ pc' = "Wakeup" /\ current' = current
            /\ readable' = Readable \cup ClientsWithInput /\ writable' = WritableFound
            /\ knock' \in {FALSE, joined < MaxClients}
        BY <2>3 DEF SelectReady
      <3>2. (joined < MaxClients) \in BOOLEAN
        BY DEF IInv, PeersInv, BoundAssumption
      <3> QED BY <1>2, <1>3, <3>1, <3>2 DEF IInv, SelectedInv
    <2>4. CASE SelectNone
      BY <1>2, <1>3, <2>4 DEF SelectNone, IInv, SelectedInv
    <2>5. CASE Expired
      BY <1>2, <2>5 DEF Expired, IInv, SelectedInv
    <2> QED BY <2>1, <2>2, <2>3, <2>4, <2>5
  <1> QED BY <1>1, <1>4, <1>5, <1>6, StayStep

LEMMA LookStep ==
    ASSUME IInv, Look
    PROVE  IInv'
  <1>1. PICK found \in IF writable = Unset THEN SUBSET Clients ELSE {writable} :
            LookWritable(found)
    BY DEF Look
  <1>2. /\ pc = "Wakeup"
        /\ UNCHANGED <<masks, conns, sockets, peers, after, todo, knock>>
        /\ readable' = {} /\ writable' = Unset
        /\ \/ pc' = "Wait" /\ UNCHANGED current
           \/ pc' = "Read" /\ current' \in readable
    BY DEF Look
  <1>3. found \subseteq Clients
    BY DEF IInv, SelectedInv
  <1>4. SetsInv'
    BY <1>1, <1>2, <1>3 DEF LookWritable, IInv, SetsInv, sets, conns
  <1>5. PlaceInv' /\ SelectedInv'
    BY <1>2 DEF IInv, PlaceInv, SelectedInv, Places, ConnsInv, conns
  <1>6. NotForgotten'
    BY <1>1, <1>2 DEF LookWritable, IInv, NotForgotten, sets, conns
  <1> QED BY <1>2, <1>4, <1>5, <1>6 DEF IInv, MasksInv, ConnsInv, SocketsInv, PeersInv,
             masks, conns, sockets, peers

LEMMA ReadRequestStep ==
    ASSUME IInv, ReadRequest
    PROVE  IInv'
  <1>1. /\ pc \in {"Read", "Next"} /\ pc' = "Exec" /\ current \in connected
        /\ ClientsWithInput' \subseteq connected
        /\ asked' = [asked EXCEPT ![current] = @ - 1] /\ asked[current] > 0
        /\ UNCHANGED <<sets, AllClients, SavedAllClients, SavedClientsWithInput,
                       GrabInProgress, ignored, IgnoredClientsWithInput, conns,
                       sockets, dead, joined, after, todo, selected>>
    BY DEF ReadRequest, IInv, PlaceInv, MasksInv
  <1>2. asked' \in [Clients -> Nat]
    <2>1. current \in Clients
      BY <1>1 DEF IInv, ConnsInv
    <2> QED BY <1>1, <2>1 DEF IInv, PeersInv
  <1>3. SetsInv' /\ MasksInv' /\ ConnsInv' /\ SocketsInv' /\ PeersInv'
    BY <1>1, <1>2 DEF IInv, SetsInv, MasksInv, ConnsInv, SocketsInv, PeersInv, sets,
                      conns, sockets
  <1>4. PlaceInv' /\ SelectedInv' /\ NotForgotten'
    BY <1>1 DEF IInv, PlaceInv, SelectedInv, NotForgotten, Places, sets, conns, selected
  <1> QED BY <1>3, <1>4 DEF IInv

LEMMA GrabStep ==
    ASSUME IInv, GrabServer \/ UngrabServer
    PROVE  IInv'
  <1>1. UNCHANGED <<sets, conns, sockets, peers, place, selected>>
    BY DEF GrabServer, UngrabServer
  <1>2. current \in connected
    BY DEF GrabServer, UngrabServer, IInv, PlaceInv
  <1>3. connected' = connected
    BY <1>1 DEF conns
  <1>4. MasksInv'
    <2>1. CASE GrabServer
      <3>1. AllClients' \cup SavedAllClients' \cup ignored' = connected
        BY <1>2, <2>1 DEF GrabServer, IInv, MasksInv
      <3>2. GrabInProgress' # None /\ GrabInProgress' \in connected
        <4>1. current # 0
          BY <1>2, ClientAssumption DEF IInv, ConnsInv
        <4> QED BY <1>2, <2>1, <4>1 DEF GrabServer, None
      <3> QED BY <1>3, <2>1, <3>1, <3>2 DEF GrabServer, IInv, MasksInv
    <2>2. CASE UngrabServer
      BY <1>3, <2>2 DEF UngrabServer, IInv, MasksInv
    <2> QED BY <2>1, <2>2
  <1>5. SetsInv' /\ ConnsInv' /\ SocketsInv' /\ PeersInv' /\ PlaceInv' /\ SelectedInv'
        /\ NotForgotten'
    BY <1>1 DEF IInv, SetsInv, ConnsInv, SocketsInv, PeersInv, PlaceInv, SelectedInv,
                NotForgotten, sets, conns, sockets, peers, place, selected
  <1> QED BY <1>4, <1>5 DEF IInv

LEMMA SleepStep ==
    ASSUME IInv, NEW c \in Clients, IgnoreClient \/ AttendClient(c)
    PROVE  IInv'
  <1>1. /\ UNCHANGED <<sets, GrabInProgress, conns, sockets, peers, after, todo,
                       writable, knock, current>>
        /\ pc' \in {pc, "Leave"} /\ pc # "Flush" /\ (pc' # pc => pc = "Exec")
    BY DEF IgnoreClient, AttendClient, place, selected, Writing
  <1>2. connected' = connected /\ connected \subseteq Clients
    BY <1>1 DEF conns, IInv, ConnsInv
  <1>3. MasksInv'
    <2>1. CASE IgnoreClient
      <3>1. current \in connected
        BY <2>1 DEF IgnoreClient, IInv, PlaceInv
      <3> QED BY <1>1, <1>2, <2>1, <3>1 DEF IgnoreClient, IInv, MasksInv
    <2>2. CASE AttendClient(c)
      <3>1. c \in connected
        BY <2>2 DEF AttendClient, IInv, MasksInv
      <3> QED BY <1>1, <1>2, <2>2, <3>1 DEF AttendClient, IInv, MasksInv
    <2> QED BY <2>1, <2>2
  <1>4. PlaceInv'
    BY <1>1, <1>2 DEF IInv, PlaceInv, Places
  <1>5. SelectedInv'
    <2>1. readable' = readable \/ (pc = "Wakeup" /\ pc' = pc /\ c \in connected
                                      /\ readable' = readable \cup {c})
      BY DEF IgnoreClient, AttendClient, selected, place, IInv, MasksInv
    <2>2. pc' # "Wakeup" => pc # "Wakeup"
      BY <1>1
    <2> QED BY <1>1, <1>2, <2>1, <2>2 DEF IInv, SelectedInv
  <1>6. SetsInv' /\ ConnsInv' /\ SocketsInv' /\ PeersInv'
    BY <1>1 DEF IInv, SetsInv, ConnsInv, SocketsInv, PeersInv, sets, conns, sockets, peers
  <1>7. NotForgotten'
    BY <1>1 DEF IInv, NotForgotten, sets, conns
  <1> QED BY <1>3, <1>4, <1>5, <1>6, <1>7 DEF IInv

LEMMA PeersStep ==
    ASSUME IInv, Peers
    PROVE  IInv'
  <1>1. PICK c \in Clients : PeerReads(c) \/ PeerAsks(c) \/ PeerHangsUp(c)
    BY DEF Peers
  <1>2. UNCHANGED <<sets, masks, conns, wire, place, selected>>
    BY <1>1 DEF PeerReads, PeerAsks, PeerHangsUp, sockets
  <1>3. SocketsInv' /\ PeersInv'
    <2>1. CASE PeerReads(c)
      <3>1. Room \in Nat
        BY ByteAssumption
      <3> QED BY <2>1, <3>1, <1>2 DEF PeerReads, IInv, SocketsInv, PeersInv, peers, conns
    <2>2. CASE PeerAsks(c)
      BY <2>2, <1>2 DEF PeerAsks, IInv, SocketsInv, PeersInv, sockets, conns
    <2>3. CASE PeerHangsUp(c)
      BY <2>3, <1>2 DEF PeerHangsUp, IInv, SocketsInv, PeersInv, sockets, conns
    <2> QED BY <1>1, <2>1, <2>2, <2>3
  <1>4. SetsInv' /\ MasksInv' /\ ConnsInv' /\ PlaceInv' /\ SelectedInv' /\ NotForgotten'
    BY <1>2 DEF IInv, SetsInv, MasksInv, ConnsInv, PlaceInv, SelectedInv, NotForgotten,
                sets, masks, conns, place, selected
  <1> QED BY <1>3, <1>4 DEF IInv

\* The steps that may close a client down.
LEMMA CloseSteps ==
    ASSUME IInv, NEW c \in Clients,
           \/ Straggler(c) \/ Reused(c) \/ Check(c) \/ KillClient(c)
           \/ (ReadGone \/ ExecFailed) /\ c = current
    PROVE  IInv'
  <1>1. /\ pc \in {"Establish", "Check", "Exec", "Read", "Next"}
        /\ pc' \in {"Establish", "Check", "Exec", "Leave"}
        /\ UNCHANGED <<after, selected>> /\ todo' \subseteq todo
        /\ pc' = "Exec" => pc = "Exec" /\ c # current
    BY DEF Straggler, Reused, Check, KillClient, ReadGone, ExecFailed, place, vars
  <1>2. CASE UNCHANGED <<sets, masks, conns, sockets, peers>>
    <2>1. PlaceInv' /\ SelectedInv'
      BY <1>1, <1>2 DEF IInv, PlaceInv, SelectedInv, Places, conns, selected
    <2> QED BY <1>1, <1>2, <2>1, StayStep
  <1>3. CASE c \in connected /\ CloseDownClient(c)
    <2>1. connected' = connected \ {c}
      BY <1>3 DEF CloseDownClient
    <2>2. PlaceInv'
      BY <1>1, <2>1 DEF IInv, PlaceInv, Places, selected
    <2> QED BY <1>1, <1>3, <2>2, CloseStep
  <1> QED BY <1>2, <1>3 DEF Straggler, Reused, Check, KillClient, ReadGone, ExecFailed,
             IInv, PlaceInv, ConnsInv

LEMMA FlushAllSteps ==
    ASSUME IInv, InputDone \/ Blocked \/ ExecDone \/ Leave
    PROVE  IInv'
  <1>1. SelectedInv'
    BY DEF InputDone, Blocked, ExecDone, Leave, IInv, SelectedInv, selected, FlushOnly,
           conns
  <1>2. CASE InputDone
    BY <1>1, <1>2, FlushAllStep DEF InputDone
  <1>3. CASE Blocked
    BY <1>1, <1>3, FlushAllStep DEF Blocked
  <1>4. CASE ExecDone
    <2>1. current' \in connected
      BY <1>4 DEF ExecDone, IInv, PlaceInv, selected
    <2> QED BY <1>1, <1>4, <2>1, FlushAllStep DEF ExecDone
  <1>5. CASE Leave
    BY <1>1, <1>5, FlushAllStep DEF Leave
  <1> QED BY <1>2, <1>3, <1>4, <1>5

LEMMA NextInv == IInv /\ [Next]_vars => IInv'
  <1> SUFFICES ASSUME IInv, [Next]_vars PROVE IInv'
    OBVIOUS
  <1>1. CASE Steps
    <2>1. CASE Establish \/ Refuse \/ SelectBad \/ Checked \/ SelectReady
                  \/ SelectNone \/ Expired \/ ReadNothing
      BY <2>1, ThreadStep
    <2>2. CASE InputDone \/ Blocked \/ ExecDone \/ Leave
      BY <2>2, FlushAllSteps
    <2>3. CASE Look
      BY <2>3, LookStep
    <2>4. CASE ReadRequest
      BY <2>4, ReadRequestStep
    <2>5. CASE ReadGone \/ ExecFailed
      <3>1. current \in Clients
        BY <2>5 DEF ReadGone, ExecFailed, IInv, PlaceInv, ConnsInv
      <3> QED BY <2>5, <3>1, CloseSteps
    <2>6. ASSUME NEW c \in Clients,
                 FlushNext(c) \/ Straggler(c) \/ Reused(c) \/ Accept(c) \/ Check(c)
          PROVE  IInv'
      BY <2>6, FlushNextStep, CloseSteps, AcceptStep
    <2> QED BY <1>1, <2>1, <2>2, <2>3, <2>4, <2>5, <2>6 DEF Steps
  <1>2. CASE Requests
    <2>1. CASE GrabServer \/ UngrabServer
      BY <2>1, GrabStep
    <2>2. CASE IgnoreClient
      <3>1. current \in Clients
        BY <2>2 DEF IgnoreClient, IInv, PlaceInv, ConnsInv
      <3> QED BY <2>2, <3>1, SleepStep
    <2>3. ASSUME NEW c \in Clients, Write(c) \/ KillClient(c) \/ AttendClient(c)
          PROVE  IInv'
      BY <2>3, WriteStep, CloseSteps, SleepStep
    <2> QED BY <1>2, <2>1, <2>2, <2>3 DEF Requests
  <1>3. CASE Peers
    BY <1>3, PeersStep
  <1>4. CASE UNCHANGED vars
    BY <1>4 DEF vars, IInv, SetsInv, MasksInv, ConnsInv, SocketsInv, PeersInv, PlaceInv,
                SelectedInv, NotForgotten, sets, masks, conns, sockets, peers, place,
                selected
  <1> QED BY <1>1, <1>2, <1>3, <1>4 DEF Next

LEMMA Inductive == Spec => []IInv
  BY InitInv, NextInv, PTL DEF Spec

-----------------------------------------------------------------------------
(* The theorems.                                                           *)

\* The sets hold clients, buffers bytes, and sockets no more than they have
\* room for, whatever is written, read and broken off.
THEOREM TypeCorrect == Spec => []TypeOK
  BY Inductive, TypesHeld, PTL

\* Output in a buffer is on one of the two lists from which it is sent, and
\* the list is marked as not empty.
THEOREM OutputListed == Spec => []NotForgotten
  <1>1. IInv => NotForgotten
    BY DEF IInv
  <1> QED BY <1>1, Inductive, PTL

\* A closed descriptor that select is asked about is one of a client that is
\* there; CheckConnections finds it unless this client sleeps or is shut out by
\* the server grab of another.
THEOREM BrokenIsListened == Spec => []BrokenListened
  <1>1. IInv => BrokenListened
    <2> SUFFICES ASSUME IInv, NEW c \in Bad
                 PROVE  \/ c \in AllClients \cup ignored
                        \/ GrabInProgress \notin {None, c} /\ c \in SavedAllClients
      BY DEF BrokenListened
    <2>1. c \in connected
      BY DEF Bad, Listened, Asked, IInv, MasksInv, SetsInv
    <2> QED BY <2>1 DEF IInv, MasksInv
  <1> QED BY <1>1, Inductive, PTL

-----------------------------------------------------------------------------
(* The refinement of OutputStream.  First sequences: what is sent and what *)
(* is kept, one behind the other, are what there was.                      *)

LEMMA Joined ==
    ASSUME NEW s \in Seq(Byte), NEW t \in Seq(Byte)
    PROVE  /\ s \o t \in Seq(Byte) /\ Len(s \o t) = Len(s) + Len(t)
           /\ \A i \in 1 .. Len(s) + Len(t) :
                 (s \o t)[i] = IF i <= Len(s) THEN s[i] ELSE t[i - Len(s)]
  OBVIOUS

LEMMA SentAndKept ==
    ASSUME NEW o \in Output, NEW extra \in Seq(Byte), NEW n \in Nat,
           n <= Total(o, extra)
    PROVE  SubSeq(Gathered(o, extra), 1, n) \o Kept(o, extra, n) = Gathered(o, extra)
  <1> DEFINE b == o.buf
             p == Padding(Len(extra))
             g == Gathered(o, extra)
             t == Total(o, extra)
             k == Kept(o, extra, n)
             rest == SubSeq(b, n + 1, Len(b))
             written == IF n < Len(b) THEN 0 ELSE n - Len(b)
             byte(j) == IF j <= Len(rest) THEN rest[j]
                        ELSE IF written + j - Len(rest) <= Len(extra)
                             THEN extra[written + j - Len(rest)] ELSE 0
  <1>1. b \in Seq(Byte) /\ Len(b) \in Nat /\ Len(extra) \in Nat
    BY DEF Output
  <1>2. p \in Seq(Byte) /\ Len(p) \in Nat /\ Len(p) = padlength(Len(extra))
        /\ \A j \in 1 .. Len(p) : p[j] = 0
    <2>1. p = [j \in 1 .. padlength(Len(extra)) |-> 0]
      BY DEF Padding, Garbage
    <2> HIDE DEF p
    <2> DEFINE m == padlength(Len(extra))
    <2>2. p \in Seq(Byte) /\ Len(p) = m /\ m \in Nat
      BY <1>1, PaddingSeq, PadNat DEF p
    <2> HIDE DEF m
    <2>3. \A j \in 1 .. m : p[j] = 0
      BY <2>1 DEF m
    <2> QED BY <2>2, <2>3 DEF m
  <1>3. /\ g \in Seq(Byte) /\ Len(g) = t /\ t \in Nat /\ n <= t
        /\ t = Len(b) + Len(extra) + Len(p)
    BY <1>2, GatheredSeq DEF Total
  <1>4. k = [j \in 1 .. (t - n) |-> byte(j)] /\ k \in Seq(Byte)
    <2>1. k \in Seq(Byte)
      BY KeptSeq
    <2> QED BY <2>1 DEF Kept, Garbage
  <1>5. ASSUME NEW i \in 1 .. t
        PROVE  g[i] = IF i <= Len(b) THEN b[i]
                      ELSE IF i - Len(b) <= Len(extra) THEN extra[i - Len(b)] ELSE 0
    <2>1. g = b \o extra \o p
      BY DEF Gathered
    <2> HIDE DEF g, b, p, t
    <2> QED BY <1>1, <1>2, <1>3, <2>1
  <1> HIDE DEF g, k, t
  <1>6. ASSUME NEW i \in (n + 1) .. t PROVE byte(i - n) = g[i]
    <2> HIDE DEF b, p
    <2>1. CASE n < Len(b)
      <3>1. Len(rest) = Len(b) - n /\ written = 0
        BY <1>1, <2>1
      <3>2. i <= Len(b) => rest[i - n] = b[i]
        BY <1>1, <2>1
      <3> HIDE DEF rest, written
      <3> QED BY <1>1, <1>3, <1>5, <3>1, <3>2
    <2>2. CASE ~(n < Len(b))
      <3>1. Len(rest) = 0 /\ written = n - Len(b)
        BY <1>1, <2>2
      <3> HIDE DEF rest, written
      <3> QED BY <1>1, <1>3, <1>5, <2>2, <3>1
    <2> HIDE DEF byte
    <2> QED BY <2>1, <2>2
  <1> HIDE DEF byte, b, p
  <1> DEFINE s == SubSeq(g, 1, n)
  <1>7. s \in Seq(Byte) /\ Len(s) = n /\ \A i \in 1 .. n : s[i] = g[i]
    <2>1. \A i \in 1 .. n : g[i] \in Byte
      BY <1>3, ElementOfSeq
    <2> QED BY <1>3, <2>1, SubSeqProperties
  <1>8. Len(k) = t - n /\ \A j \in 1 .. (t - n) : k[j] = byte(j)
    <2>1. t - n \in Nat
      BY <1>3
    <2> QED BY <1>4, <2>1
  <1> HIDE DEF s
  <1>9. s \o k \in Seq(Byte) /\ Len(s \o k) = Len(g)
        /\ \A i \in 1 .. t : (s \o k)[i] = IF i <= n THEN s[i] ELSE k[i - n]
    <2>1. /\ s \o k \in Seq(Byte) /\ Len(s \o k) = Len(s) + Len(k)
          /\ \A i \in 1 .. Len(s) + Len(k) :
                (s \o k)[i] = IF i <= Len(s) THEN s[i] ELSE k[i - Len(s)]
      BY <1>4, <1>7, Joined
    <2>2. Len(s) + Len(k) = t
      BY <1>3, <1>7, <1>8
    <2> QED BY <1>3, <1>7, <2>1, <2>2
  <1>10. ASSUME NEW i \in 1 .. t PROVE (s \o k)[i] = g[i]
    <2>1. CASE i <= n
      BY <1>3, <1>7, <1>9, <2>1
    <2>2. CASE ~(i <= n)
      <3>1. i \in (n + 1) .. t /\ i - n \in 1 .. (t - n)
        BY <1>3, <2>2
      <3>2. (s \o k)[i] = k[i - n]
        BY <1>9, <2>2, <1>3
      <3>3. k[i - n] = byte(i - n)
        BY <3>1, <1>8
      <3>4. byte(i - n) = g[i]
        BY <3>1, <1>6
      <3> QED BY <3>2, <3>3, <3>4
    <2> QED BY <2>1, <2>2
  <1>11. s \o k = g
    BY <1>3, <1>9, <1>10, SeqEqual
  <1> QED BY <1>11 DEF s, k, g

LEMMA Beginnings ==
    ASSUME NEW s \in Seq(Byte), NEW t \in Seq(Byte), NEW n \in Nat, n <= Len(t)
    PROVE  /\ Stream!IsPrefix(s, s) /\ Stream!IsPrefix(s, s \o t)
           /\ Stream!IsPrefix(s, s \o SubSeq(t, 1, n))
           /\ Stream!IsPrefix(s \o SubSeq(t, 1, n), s \o t)
  <1> DEFINE u == SubSeq(t, 1, n)
             v == s \o u
             w == s \o t
  <1>1. u \in Seq(Byte) /\ Len(u) = n /\ \A i \in 1 .. n : u[i] = t[i]
    OBVIOUS
  <1> HIDE DEF u
  <1>2. v \in Seq(Byte) /\ Len(v) = Len(s) + n
        /\ \A i \in 1 .. Len(v) : v[i] = IF i <= Len(s) THEN s[i] ELSE u[i - Len(s)]
    <2>1. u \in Seq(Byte) /\ Len(u) = n
      BY <1>1
    <2>2. /\ v \in Seq(Byte) /\ Len(v) = Len(s) + Len(u)
          /\ \A i \in 1 .. Len(s) + Len(u) :
                v[i] = IF i <= Len(s) THEN s[i] ELSE u[i - Len(s)]
      BY <2>1, Joined
    <2> QED BY <2>1, <2>2
  <1>3. w \in Seq(Byte) /\ Len(w) = Len(s) + Len(t)
        /\ \A i \in 1 .. Len(w) : w[i] = IF i <= Len(s) THEN s[i] ELSE t[i - Len(s)]
    OBVIOUS
  <1> HIDE DEF v, w
  <1>4. ASSUME NEW x \in Seq(Byte), NEW y \in Seq(Byte), Len(x) <= Len(y),
               \A i \in 1 .. Len(x) : x[i] = y[i]
        PROVE  Stream!IsPrefix(x, y)
    <2>1. Len(x) \in Nat /\ Len(y) \in Nat
      OBVIOUS
    <2>2. SubSeq(x, 1, Len(x)) = SubSeq(y, 1, Len(x))
      <3>1. SubSeq(x, 1, Len(x)) = [i \in 1 .. Len(x) |-> x[i]]
        BY <2>1
      <3>2. SubSeq(y, 1, Len(x)) = [i \in 1 .. Len(x) |-> y[i]]
        BY <1>4, <2>1
      <3> QED BY <1>4, <3>1, <3>2
    <2> QED BY <1>4, <2>2 DEF Stream!IsPrefix
  <1>5. Stream!IsPrefix(s, s)
    BY <1>4
  <1>6. Stream!IsPrefix(s, w)
    BY <1>3, <1>4
  <1>7. Stream!IsPrefix(s, v)
    BY <1>2, <1>4
  <1>8. Stream!IsPrefix(v, w)
    <2>1. Len(v) <= Len(w) /\ Len(s) \in Nat
      BY <1>2, <1>3
    <2>2. ASSUME NEW i \in 1 .. Len(v) PROVE v[i] = w[i]
      <3>1. i \in 1 .. Len(w) /\ (i > Len(s) => i - Len(s) \in 1 .. n)
        BY <1>2, <1>3, <2>1
      <3>2. i > Len(s) => u[i - Len(s)] = t[i - Len(s)]
        BY <1>1, <3>1
      <3> QED BY <1>2, <1>3, <2>1, <3>1, <3>2
    <2> QED BY <1>2, <1>3, <1>4, <2>1, <2>2
  <1> QED BY <1>5, <1>6, <1>7, <1>8 DEF u, v, w

-----------------------------------------------------------------------------
(* The steps of the stream.                                                *)

LEMMA StayStream ==
    ASSUME UNCHANGED <<conns, wire>>
    PROVE  UNCHANGED Stream!vars
  <1>1. Open' = Open
    BY DEF Open, conns
  <1>2. Given' = Given
    BY <1>1 DEF Given, conns
  <1> QED BY <1>1, <1>2 DEF Stream!vars, conns

\* A step that concerns one client.
Alone(c) ==
    /\ \A d \in Clients \ {c} :
          out'[d] = out[d] /\ wire'[d] = wire[d] /\ messages'[d] = messages[d]
    /\ connected' \ {c} = connected \ {c}

LEMMA AloneStream ==
    ASSUME IInv, IInv', NEW c \in Clients, Alone(c)
    PROVE  /\ Stream!OthersKept(c)
           /\ Open' \ {c} = Open \ {c}
           /\ Given'[c] = IF c \in Open' THEN wire'[c] \o out'[c].buf ELSE wire'[c]
           /\ Given[c] = IF c \in Open THEN wire[c] \o out[c].buf ELSE wire[c]
  <1>1. connected \subseteq Clients /\ connected' \subseteq Clients
    BY DEF IInv, ConnsInv
  <1>2. Open' \ {c} = Open \ {c}
    BY <1>1 DEF Open, Alone
  <1>3. ASSUME NEW d \in Clients \ {c}
        PROVE  wire'[d] = wire[d] /\ Given'[d] = Given[d] /\ messages'[d] = messages[d]
    <2>1. d \in Open' <=> d \in Open
      BY <1>2
    <2>2. out'[d] = out[d] /\ wire'[d] = wire[d] /\ messages'[d] = messages[d]
      BY DEF Alone
    <2> QED BY <2>1, <2>2 DEF Given
  <1>4. Stream!OthersKept(c)
    BY <1>3 DEF Stream!OthersKept
  <1> QED BY <1>2, <1>4 DEF Given

\* When nothing of the client changes either, the stream stays.
LEMMA AloneStays ==
    ASSUME IInv, IInv', NEW c \in Clients, Alone(c),
           wire' = wire, messages' = messages, c \notin Open, c \notin Open'
    PROVE  UNCHANGED Stream!vars
  <1>1. /\ Stream!OthersKept(c) /\ Open' \ {c} = Open \ {c}
        /\ Given'[c] = wire'[c] /\ Given[c] = wire[c]
    BY AloneStream
  <1>2. Open' = Open
    BY <1>1
  <1>3. Given' = Given
    BY <1>1 DEF Stream!OthersKept, Given
  <1> QED BY <1>2, <1>3 DEF Stream!vars

\* What one flush sends: the socket's bytes and what is kept are what there was,
\* or the connection breaks.
Sends(c, whole) ==
    /\ Stream!Takes(c, whole)
    /\ out'[c].open => out[c].open /\ wire'[c] \o out'[c].buf = whole
    /\ ~ out[c].open => wire' = wire
    /\ \A d \in Clients \ {c} : wire'[d] = wire[d]

LEMMA FlushSends ==
    ASSUME NEW c \in Clients, NEW o \in Output, Buffered(o), o.open = out[c].open,
           NEW extra \in Seq(Byte), extra = <<>> \/ o.size # 0,
           SetsInv, ConnsInv, SocketsInv, c \in connected, FlushClient(c, o, extra)
    PROVE  Sends(c, wire[c] \o Gathered(o, extra))
  <1> DEFINE g == Gathered(o, extra)
             n == IF o.size = 0 THEN 0 ELSE Taken(c, o, extra)
             w == wire[c]
             fate == Fate(c, o, extra)
             kept == Kept(o, extra, n)
  <1>1. g \in Seq(Byte) /\ n \in Nat /\ n <= Len(g) /\ Len(g) = Total(o, extra)
        /\ w \in Seq(Byte)
    BY GatheredSeq, TakenBounds DEF SocketsInv
  <1>2. wire' = [wire EXCEPT ![c] = w \o SubSeq(g, 1, n)]
    BY DEF FlushClient, Sent
  <1>3. /\ wire'[c] = w \o SubSeq(g, 1, n)
        /\ \A d \in Clients \ {c} : wire'[d] = wire[d]
    BY <1>2 DEF SocketsInv
  <1>4. Stream!Takes(c, w \o g)
    BY <1>1, <1>3, Beginnings DEF Stream!Takes
  <1>5. ~ out[c].open => wire' = wire
    <2>1. ~ out[c].open => n = 0
      BY DEF Taken
    <2>2. w \o SubSeq(g, 1, 0) = w
      <3>1. SubSeq(g, 1, 0) = <<>>
        BY SubSeqEmpty
      <3> QED BY <1>1, <3>1, ConcatEmptySeq
    <2> QED BY <1>2, <2>1, <2>2 DEF SocketsInv
  <1>6. PICK failed \in BOOLEAN : out'[c] = Flushed(c, o, extra, failed)
    <2>1. PICK failed \in {FALSE, NoMemory(c, o, extra)} :
              out' = [out EXCEPT ![c] = Flushed(c, o, extra, failed)]
      BY DEF FlushClient
    <2>2. failed \in BOOLEAN
      BY DEF NoMemory, ClientAssumption, Fate
    <2> QED BY <2>1, <2>2 DEF ConnsInv
  <1> DEFINE f == out'[c]
  <1>7. fate \in {"None", "All", "Failed", "Stuffed"}
        /\ (fate = "None" <=> o.size = 0) /\ (fate = "All" => n = Len(g))
        /\ (fate = "Stuffed" => o.size # 0)
    BY <1>1 DEF Fate, Taken
  <1>8. CASE fate = "None"
    <2>1. f = o /\ n = 0 /\ o.buf = <<>> /\ extra = <<>>
      BY <1>6, <1>7, <1>8 DEF Flushed, Buffered
    <2>2. wire'[c] \o f.buf = w \o g
      <3>1. Len(g) = 0
        BY <1>1, <2>1, PadZero DEF Total
      <3>2. g = <<>>
        BY <1>1, <3>1, EmptySeq
      <3>3. SubSeq(g, 1, n) = <<>>
        BY <2>1, SubSeqEmpty
      <3> QED BY <1>1, <1>3, <2>1, <3>2, <3>3, ConcatEmptySeq
    <2> QED BY <1>3, <1>4, <1>5, <2>1, <2>2 DEF Sends
  <1>9. CASE fate = "All"
    <2>1. f = [o EXCEPT !.size = 0, !.buf = <<>>]
      BY <1>6, <1>9 DEF Flushed
    <2> HIDE DEF f
    <2>2. f.buf = <<>> /\ f.open = o.open
      BY <2>1 DEF Output
    <2>3. SubSeq(g, 1, n) = g
      BY <1>1, <1>7, <1>9, SubSeqFull
    <2>4. w \o g \in Seq(Byte)
      BY <1>1
    <2>5. wire'[c] \o f.buf = w \o g
      BY <1>3, <2>2, <2>3, <2>4, ConcatEmptySeq
    <2> QED BY <1>3, <1>4, <1>5, <2>2, <2>5 DEF Sends, f
  <1>10. CASE fate = "Failed" \/ (fate = "Stuffed" /\ failed)
    <2>1. f = Broken(o)
      BY <1>6, <1>10 DEF Flushed
    <2>2. ~ f.open
      BY <2>1 DEF Broken
    <2> QED BY <1>3, <1>4, <1>5, <2>2 DEF Sends
  <1>11. CASE fate = "Stuffed" /\ ~ failed
    <2> DEFINE left == Total(o, extra) - Taken(c, o, extra)
               size == IF left > o.size THEN left + BUFSIZE ELSE o.size
    <2>1. f = [o EXCEPT !.size = size, !.buf = kept]
      BY <1>6, <1>7, <1>11 DEF Flushed
    <2> HIDE DEF f, size, kept
    <2>2. f.buf = kept /\ f.open = o.open
      BY <2>1 DEF Output
    <2>3. SubSeq(g, 1, n) \o kept = g
      BY <1>1, SentAndKept DEF kept
    <2>4. SubSeq(g, 1, n) \in Seq(Byte) /\ kept \in Seq(Byte)
      BY <1>1, KeptSeq DEF kept
    <2>5. wire'[c] \o f.buf = w \o g
      <3> DEFINE s == SubSeq(g, 1, n)
      <3>1. s \in Seq(Byte) /\ kept \in Seq(Byte) /\ w \in Seq(Byte)
        BY <1>1, <2>4
      <3>2. wire'[c] = w \o s /\ f.buf = kept /\ s \o kept = g
        BY <1>3, <2>2, <2>3
      <3> HIDE DEF s, w, g
      <3>3. (w \o s) \o kept = w \o (s \o kept)
        BY <3>1, ConcatAssociative
      <3> QED BY <3>2, <3>3
    <2> QED BY <1>3, <1>4, <1>5, <2>2, <2>5 DEF Sends, f
  <1> QED BY <1>7, <1>8, <1>9, <1>10, <1>11

LEMMA SameSet ==
    ASSUME NEW S, NEW T, NEW x, x \in S, x \in T, S \ {x} = T \ {x}
    PROVE  S = T
  OBVIOUS

\* A flush is a Send, a last flush or one that fails a Break.
LEMMA SendStream ==
    ASSUME IInv, IInv', NEW c \in Clients, Alone(c), connected' = connected,
           messages' = messages, c \in connected, Sends(c, wire[c] \o out[c].buf)
    PROVE  [Stream!Next]_(Stream!vars)
  <1>1. /\ Stream!OthersKept(c)
        /\ Open' \ {c} = Open \ {c}
        /\ Given'[c] = IF c \in Open' THEN wire'[c] \o out'[c].buf ELSE wire'[c]
        /\ Given[c] = IF c \in Open THEN wire[c] \o out[c].buf ELSE wire[c]
    BY AloneStream
  <1>2. (c \in Open <=> out[c].open) /\ (c \in Open' <=> out'[c].open)
    BY DEF Open
  <1>3. CASE c \in Open /\ c \in Open'
    <2>1. Open' = Open /\ Given'[c] = Given[c]
      <3>1. Open' = Open
        BY <1>1, <1>3, SameSet
      <3>2. wire'[c] \o out'[c].buf = wire[c] \o out[c].buf
        BY <1>2, <1>3 DEF Sends
      <3> QED BY <1>1, <1>3, <3>1, <3>2
    <2>2. Given' = Given
      BY <1>1, <2>1 DEF Stream!OthersKept, Given
    <2>3. Stream!Send(c)
      BY <1>1, <1>3, <2>1, <2>2 DEF Stream!Send, Sends
    <2> QED BY <2>3 DEF Stream!Next
  <1>4. CASE c \in Open /\ c \notin Open'
    <2>1. Stream!Break(c)
      BY <1>1, <1>4 DEF Stream!Break, Sends
    <2> QED BY <2>1 DEF Stream!Next
  <1>5. CASE c \notin Open
    <2>1. c \notin Open' /\ wire' = wire
      BY <1>2, <1>5 DEF Sends
    <2> QED BY <1>5, <2>1, AloneStays
  <1> QED BY <1>3, <1>4, <1>5

LEMMA FlushNextStream ==
    ASSUME IInv, IInv', NEW c \in Clients, FlushNext(c)
    PROVE  [Stream!Next]_(Stream!vars)
  <1>1. UNCHANGED <<connected, messages, wrote>>
    BY DEF FlushNext
  <1>2. CASE UNCHANGED <<out, marked, sockets>>
    BY <1>1, <1>2, StayStream DEF conns, sockets
  <1>3. CASE c \in connected /\ FlushClient(c, out[c], <<>>)
    <2>1. out[c] \in Output /\ Buffered(out[c]) /\ <<>> \in Seq(Byte)
      BY DEF IInv, ConnsInv
    <2>2. Gathered(out[c], <<>>) = out[c].buf
      <3> DEFINE b == out[c].buf
                 p == Padding(0)
      <3>1. p \in Seq(Byte) /\ Len(p) = 0
        BY PaddingSeq, PadZero
      <3>2. p = <<>>
        <4> HIDE DEF p
        <4> QED BY <3>1, EmptySeq
      <3>3. b \in Seq(Byte)
        BY <2>1 DEF Output
      <3> HIDE DEF b
      <3>4. b \o <<>> \o <<>> = b
        BY <3>3, ConcatEmptySeq
      <3>5. Gathered(out[c], <<>>) = b \o <<>> \o p
        BY DEF Gathered, b
      <3> HIDE DEF p
      <3> QED BY <3>2, <3>4, <3>5 DEF b
    <2>3. Sends(c, wire[c] \o Gathered(out[c], <<>>))
      BY <1>3, <2>1, FlushSends DEF IInv
    <2>4. \A d \in Clients \ {c} : out'[d] = out[d]
      BY <1>3, <2>1, FlushEffect DEF IInv
    <2>5. Alone(c)
      BY <1>1, <2>3, <2>4 DEF Alone, Sends
    <2> QED BY <1>1, <1>3, <2>2, <2>3, <2>5, SendStream
  <1> QED BY <1>2, <1>3 DEF FlushNext, PutOff

LEMMA CloseStream ==
    ASSUME IInv, IInv', NEW c \in connected, CloseDownClient(c)
    PROVE  [Stream!Next]_(Stream!vars)
  <1> DEFINE b == out[c].buf
             n == Taken(c, out[c], <<>>)
  <1>1. c \in Clients /\ out[c] \in Output /\ b \in Seq(Byte) /\ <<>> \in Seq(Byte)
        /\ wire[c] \in Seq(Byte)
    BY DEF IInv, ConnsInv, SocketsInv, Output
  <1>2. n \in Nat /\ n <= Len(b)
    <2>1. Total(out[c], <<>>) = Len(b)
      BY <1>1, PadZero DEF Total
    <2> QED BY <1>1, <2>1, TakenBounds DEF IInv, SocketsInv
  <1>3. /\ wire' = [wire EXCEPT ![c] = @ \o SubSeq(b, 1, n)]
        /\ out' = [out EXCEPT ![c] = Gone] /\ messages' = messages
        /\ connected' = connected \ {c}
    BY DEF CloseDownClient
  <1>4. Alone(c) /\ c \notin Open'
    BY <1>1, <1>3 DEF Alone, Open, IInv, SocketsInv, ConnsInv
  <1>5. /\ Stream!OthersKept(c) /\ Open' \ {c} = Open \ {c}
        /\ Given'[c] = wire'[c]
        /\ Given[c] = IF c \in Open THEN wire[c] \o b ELSE wire[c]
    BY <1>1, <1>4, AloneStream
  <1>6. CASE c \in Open
    <2>1. wire'[c] = wire[c] \o SubSeq(b, 1, n)
      BY <1>1, <1>3 DEF IInv, SocketsInv
    <2>2. Stream!Takes(c, wire[c] \o b)
      BY <1>1, <1>2, <2>1, Beginnings DEF Stream!Takes
    <2>3. Stream!Break(c)
      BY <1>3, <1>4, <1>5, <1>6, <2>2 DEF Stream!Break
    <2> QED BY <1>1, <2>3 DEF Stream!Next
  <1>7. CASE c \notin Open
    <2>1. n = 0
      BY <1>7 DEF Open, Taken
    <2>2. wire' = wire
      <3>1. SubSeq(b, 1, 0) = <<>>
        BY SubSeqEmpty
      <3>2. wire[c] \o SubSeq(b, 1, 0) = wire[c]
        BY <1>1, <3>1, ConcatEmptySeq
      <3> QED BY <1>3, <2>1, <3>2 DEF IInv, SocketsInv
    <2> QED BY <1>1, <1>3, <1>4, <1>7, <2>2, AloneStays
  <1> QED BY <1>6, <1>7

LEMMA AcceptStream ==
    ASSUME IInv, IInv', NEW c \in Clients, Accept(c)
    PROVE  [Stream!Next]_(Stream!vars)
  <1>1. /\ c \notin connected /\ connected' = connected \cup {c}
        /\ out' = [out EXCEPT ![c] = Fresh] /\ messages' = [messages EXCEPT ![c] = 0]
        /\ wire' = [wire EXCEPT ![c] = <<>>]
    BY DEF Accept, AllocNewConnection
  <1>2. /\ out'[c] = Fresh /\ wire'[c] = <<>> /\ messages'[c] = 0
        /\ Alone(c)
    BY <1>1 DEF IInv, ConnsInv, SocketsInv, Alone
  <1>3. c \notin Open /\ c \in Open' /\ out'[c].buf = <<>>
    BY <1>1, <1>2 DEF Open, Fresh
  <1>4. /\ Stream!OthersKept(c) /\ Open' \ {c} = Open \ {c}
        /\ Given'[c] = wire'[c] \o out'[c].buf
    BY <1>2, <1>3, AloneStream
  <1>5. Given'[c] = <<>>
    BY <1>2, <1>3, <1>4, ConcatEmptySeq
  <1>6. Stream!Connect(c)
    BY <1>2, <1>3, <1>4, <1>5 DEF Stream!Connect
  <1> QED BY <1>6 DEF Stream!Next

\* A message to a connection that is whole is a Write, or a Break when the
\* connection breaks with it; to one that is not, nothing.
LEMMA MessageStream ==
    ASSUME IInv, IInv', NEW c \in connected, NEW n \in Lengths, Alone(c),
           connected' = connected, out[c].open,
           messages'[c] = messages[c] + 1,
           Sends(c, wire[c] \o (out[c].buf \o Padded(messages[c] + 1, n)))
    PROVE  Stream!Next
  <1> DEFINE b == out[c].buf
             m == Padded(messages[c] + 1, n)
             w == wire[c]
  <1>1. c \in Clients /\ c \in Open /\ (c \in Open' <=> out'[c].open)
    BY DEF Open, IInv, ConnsInv
  <1>2. /\ Stream!OthersKept(c)
        /\ Open' \ {c} = Open \ {c}
        /\ Given'[c] = IF c \in Open' THEN wire'[c] \o out'[c].buf ELSE wire'[c]
        /\ Given[c] = w \o b
    BY <1>1, AloneStream
  <1>3. Given[c] \o m = w \o (b \o m)
    <2>1. messages[c] + 1 \in Nat /\ n \in Nat /\ out[c] \in Output
      BY <1>1, ByteAssumption DEF IInv, ConnsInv
    <2>2. Message(messages[c] + 1, n) \in Seq(Byte) /\ Padding(n) \in Seq(Byte)
      BY <2>1, MessageSeq, PaddingSeq
    <2>3. m \in Seq(Byte)
      BY <2>2, Joined DEF Padded
    <2>4. w \in Seq(Byte) /\ b \in Seq(Byte)
      BY <1>1, <2>1 DEF IInv, SocketsInv, Output
    <2> HIDE DEF w, b, m
    <2> QED BY <1>2, <2>3, <2>4, ConcatAssociative
  <1>4. Stream!Takes(c, Given[c] \o m)
    BY <1>3 DEF Sends
  <1>5. CASE c \in Open'
    <2>1. Open' = Open
      BY <1>1, <1>2, <1>5, SameSet
    <2>2. Given'[c] = Given[c] \o m
      BY <1>1, <1>2, <1>3, <1>5 DEF Sends
    <2>3. Stream!Write(c, n)
      BY <1>1, <1>2, <1>4, <2>1, <2>2 DEF Stream!Write
    <2> QED BY <1>1, <2>3 DEF Stream!Next
  <1>6. CASE c \notin Open'
    <2>1. Stream!Break(c)
      BY <1>1, <1>2, <1>4, <1>6 DEF Stream!Break
    <2> QED BY <1>1, <2>1 DEF Stream!Next
  <1> QED BY <1>5, <1>6

LEMMA WriteStream ==
    ASSUME IInv, IInv', NEW c \in Clients, Write(c)
    PROVE  [Stream!Next]_(Stream!vars)
  <1> DEFINE k == messages[c] + 1
  <1>1. PICK n \in Lengths : WriteToClient(c, Message(k, n))
    BY DEF Write
  <1> DEFINE extra == Message(k, n)
             whole == wire[c] \o (out[c].buf \o Padded(k, n))
  <1>2. c \in connected /\ connected' = connected
        /\ messages' = [messages EXCEPT ![c] = IF out[c].open THEN @ + 1 ELSE @]
    BY <1>1 DEF Write, WriteToClient
  <1>3. k \in Nat /\ n \in Nat /\ messages \in [Clients -> Nat] /\ out[c] \in Output
        /\ wire[c] \in Seq(Byte) /\ out[c].buf \in Seq(Byte)
    BY ByteAssumption DEF IInv, ConnsInv, SocketsInv, Output
  <1>4. extra \in Seq(Byte) /\ Len(extra) = n
    <2>1. extra \in Seq(Byte)
      BY <1>3, MessageSeq
    <2>2. extra = [j \in 1 .. n |-> 16 * k + j]
      BY DEF Message
    <2>3. Len(extra) = n
      <3> HIDE DEF k
      <3> QED BY <1>3, <2>2
    <2> QED BY <2>1, <2>3
  <1> HIDE DEF k, extra
  <1>5. ASSUME NEW o \in Buffers(c)
        PROVE  /\ o \in Output /\ Buffered(o) /\ o.size # 0
               /\ o.buf = out[c].buf /\ o.open = out[c].open
               /\ Gathered(o, extra) = out[c].buf \o Padded(k, n)
    <2>1. o \in Output /\ Buffered(o) /\ o.size # 0
      BY <1>2, BuffersSound DEF IInv
    <2>2. o.buf = out[c].buf /\ o.open = out[c].open
      <3> DEFINE b == out[c]
      <3>1. b \in Output /\ (o = b \/ \E s \in Sizes : o = [b EXCEPT !.size = s])
        BY <1>3 DEF Buffers
      <3> HIDE DEF b
      <3>2. o.buf = b.buf /\ o.open = b.open
        BY <3>1 DEF Output
      <3> QED BY <3>2 DEF b
    <2>3. Gathered(o, extra) = out[c].buf \o Padded(k, n)
      <3> DEFINE b == out[c].buf
                 p == Padding(n)
      <3>1. p \in Seq(Byte) /\ b \in Seq(Byte)
        BY <1>3, PaddingSeq
      <3>2. Gathered(o, extra) = (b \o extra) \o p
        BY <1>4, <2>2 DEF Gathered
      <3>3. Padded(k, n) = extra \o p
        BY DEF Padded, extra
      <3> HIDE DEF b, p
      <3>4. (b \o extra) \o p = b \o (extra \o p)
        BY <1>4, <3>1, ConcatAssociative
      <3> QED BY <3>2, <3>3, <3>4 DEF b
    <2> QED BY <2>1, <2>2, <2>3
  \* The message goes behind the buffer, or the buffer and it to the socket, or
  \* the connection breaks for want of a buffer.
  <1>6. /\ Sends(c, whole)
        /\ \A d \in Clients \ {c} : out'[d] = out[d]
    <2>1. WriteToClient(c, extra)
      BY <1>1 DEF extra
    <2>2. ASSUME NEW o \in Buffers(c), Copy(c, o, extra)
          PROVE  Sends(c, whole) /\ \A d \in Clients \ {c} : out'[d] = out[d]
      <3> DEFINE g == Gathered(o, extra)
                 f == [o EXCEPT !.buf = g]
      <3>1. out' = [out EXCEPT ![c] = f] /\ wire' = wire
        BY <2>2 DEF Copy, sockets
      <3>2. o \in Output /\ o.open = out[c].open /\ g = out[c].buf \o Padded(k, n)
            /\ g \in Seq(Byte)
        BY <1>4, <1>5, GatheredSeq
      <3> HIDE DEF g
      <3>3. f.buf = g /\ f.open = o.open
        BY <3>2 DEF Output
      <3> HIDE DEF f
      <3>4. out'[c] = f /\ \A d \in Clients \ {c} : out'[d] = out[d]
        BY <3>1 DEF IInv, ConnsInv
      <3>5. whole = wire[c] \o g
        BY <3>2
      <3>6. Stream!Takes(c, whole)
        <4>1. 0 <= Len(g)
          BY <3>2
        <4> QED BY <1>3, <3>1, <3>2, <3>5, <4>1, Beginnings DEF Stream!Takes
      <3> HIDE DEF whole
      <3> QED BY <3>1, <3>2, <3>3, <3>4, <3>5, <3>6 DEF Sends
    <2>3. ASSUME NEW o \in Buffers(c), Overflow(c, o, extra)
          PROVE  Sends(c, whole) /\ \A d \in Clients \ {c} : out'[d] = out[d]
      <3>1. FlushClient(c, o, extra)
        BY <2>3 DEF Overflow
      <3>2. Sends(c, wire[c] \o Gathered(o, extra))
        BY <1>2, <1>4, <1>5, <3>1, FlushSends DEF IInv
      <3>3. \A d \in Clients \ {c} : out'[d] = out[d]
        BY <1>2, <1>4, <1>5, <3>1, FlushEffect DEF IInv
      <3> QED BY <1>5, <3>2, <3>3
    <2>4. CASE NoBuffer(c)
      <3>1. out' = [out EXCEPT ![c] = Broken(@)] /\ wire' = wire
        BY <2>4 DEF NoBuffer, sockets
      <3>2. ~ out'[c].open /\ \A d \in Clients \ {c} : out'[d] = out[d]
        BY <3>1 DEF IInv, ConnsInv, Broken
      <3>3. Stream!Takes(c, whole)
        <4> DEFINE g == out[c].buf \o Padded(k, n)
        <4>1. g \in Seq(Byte)
          <5>1. Padding(n) \in Seq(Byte)
            BY <1>3, PaddingSeq
          <5>2. Padded(k, n) \in Seq(Byte)
            BY <1>4, <5>1, Joined DEF Padded, extra
          <5> QED BY <1>3, <5>2, Joined
        <4> HIDE DEF g
        <4>2. Stream!IsPrefix(wire[c], wire[c]) /\ Stream!IsPrefix(wire[c], wire[c] \o g)
          <5>1. 0 <= Len(g) /\ 0 \in Nat
            BY <4>1
          <5> QED BY <1>3, <4>1, <5>1, Beginnings
        <4> QED BY <3>1, <4>2 DEF Stream!Takes, g
      <3> HIDE DEF whole
      <3> QED BY <3>1, <3>2, <3>3 DEF Sends
    <2> QED BY <2>1, <2>2, <2>3, <2>4 DEF WriteToClient
  <1>7. Alone(c)
    <2>1. \A d \in Clients \ {c} : messages'[d] = messages[d]
      BY <1>2, <1>3
    <2> QED BY <1>2, <1>6, <2>1 DEF Alone, Sends
  <1>8. CASE out[c].open
    <2>1. messages'[c] = messages[c] + 1
      BY <1>2, <1>3, <1>8
    <2> QED BY <1>2, <1>6, <1>7, <1>8, <2>1, MessageStream DEF k
  <1>9. CASE ~ out[c].open
    <2>1. messages' = messages
      BY <1>2, <1>3, <1>9
    <2>2. wire' = wire /\ ~ out'[c].open
      BY <1>6, <1>9 DEF Sends
    <2>3. c \notin Open /\ c \notin Open'
      BY <1>9, <2>2 DEF Open
    <2> QED BY <1>7, <2>1, <2>2, <2>3, AloneStays
  <1> QED BY <1>8, <1>9

LEMMA StreamInit == Init => Stream!Init
  <1> SUFFICES ASSUME Init PROVE Stream!Init
    OBVIOUS
  <1>1. /\ connected \subseteq Clients /\ wire = [c \in Clients |-> <<>>]
        /\ messages = [c \in Clients |-> 0]
        /\ \A c \in Clients : out[c].buf = <<>>
    BY DEF Init, Fresh, Gone
  <1>2. Open \subseteq Clients
    BY <1>1 DEF Open
  <1>3. \A c \in Clients : Given[c] = <<>>
    <2>1. <<>> \o <<>> = <<>>
      BY ConcatEmptySeq
    <2> QED BY <1>1, <2>1 DEF Given
  <1>4. Given = [c \in Clients |-> <<>>]
    BY <1>3 DEF Given
  <1> QED BY <1>1, <1>2, <1>4 DEF Stream!Init

LEMMA StreamNext == IInv /\ IInv' /\ [Next]_vars => [Stream!Next]_(Stream!vars)
  <1> SUFFICES ASSUME IInv, IInv', [Next]_vars PROVE [Stream!Next]_(Stream!vars)
    OBVIOUS
  <1>1. CASE UNCHANGED <<conns, wire>>
    BY <1>1, StayStream
  <1>2. ASSUME NEW c \in connected, CloseDownClient(c)
        PROVE  [Stream!Next]_(Stream!vars)
    BY <1>2, CloseStream
  <1>3. CASE Steps
    <2>1. CASE \/ Establish \/ Refuse \/ InputDone \/ Blocked \/ SelectBad \/ Checked
               \/ SelectReady \/ SelectNone \/ Look \/ Expired \/ ReadRequest
               \/ ReadNothing \/ ExecDone \/ Leave
      BY <1>1, <2>1 DEF Establish, Refuse, InputDone, Blocked, SelectBad, Checked,
         SelectReady, SelectNone, Look, Expired, ReadRequest, ReadNothing, ExecDone,
         Leave, FlushOnly, sockets
    <2>2. CASE ReadGone \/ ExecFailed
      <3>1. current \in connected
        BY <2>2 DEF ReadGone, ExecFailed, IInv, PlaceInv
      <3>2. CloseDownClient(current) \/ UNCHANGED <<conns, wire>>
        BY <2>2 DEF ReadGone, ExecFailed, sockets
      <3> QED BY <1>1, <1>2, <3>1, <3>2
    <2>3. ASSUME NEW c \in Clients, FlushNext(c)
          PROVE  [Stream!Next]_(Stream!vars)
      BY <2>3, FlushNextStream
    <2>4. ASSUME NEW c \in Clients, Straggler(c) \/ Reused(c) \/ Check(c)
          PROVE  [Stream!Next]_(Stream!vars)
      <3>1. (c \in connected /\ CloseDownClient(c)) \/ UNCHANGED <<conns, wire>>
        BY <2>4 DEF Straggler, Reused, Check, sockets
      <3> QED BY <1>1, <1>2, <3>1
    <2>5. ASSUME NEW c \in Clients, Accept(c)
          PROVE  [Stream!Next]_(Stream!vars)
      BY <2>5, AcceptStream
    <2> QED BY <1>3, <2>1, <2>2, <2>3, <2>4, <2>5 DEF Steps
  <1>4. CASE Requests
    <2>1. CASE GrabServer \/ UngrabServer \/ IgnoreClient
      BY <1>1, <2>1 DEF GrabServer, UngrabServer, IgnoreClient, sockets
    <2>2. ASSUME NEW c \in Clients, Write(c)
          PROVE  [Stream!Next]_(Stream!vars)
      BY <2>2, WriteStream
    <2>3. ASSUME NEW c \in Clients, KillClient(c)
          PROVE  [Stream!Next]_(Stream!vars)
      BY <1>2, <2>3 DEF KillClient
    <2>4. ASSUME NEW c \in Clients, AttendClient(c)
          PROVE  [Stream!Next]_(Stream!vars)
      BY <1>1, <2>4 DEF AttendClient, sockets
    <2> QED BY <1>4, <2>1, <2>2, <2>3, <2>4 DEF Requests
  <1>5. CASE Peers
    BY <1>1, <1>5 DEF Peers, PeerReads, PeerAsks, PeerHangsUp, sockets
  <1>6. CASE UNCHANGED vars
    BY <1>1, <1>6 DEF vars, sockets
  <1> QED BY <1>3, <1>4, <1>5, <1>6 DEF Next

\* Whatever part of buffer, message and padding a socket takes at a time, and
\* whoever breaks off, each client reads a beginning of what was written to it.
THEOREM OutputIsStream == Spec => ImplementsStream
  <1>1. IInv /\ IInv' /\ [Next]_vars => [Stream!Next]_(Stream!vars)
    BY StreamNext
  <1>2. Init => Stream!Init
    BY StreamInit
  <1> QED BY <1>1, <1>2, Inductive, PTL DEF Spec, Stream!Spec, ImplementsStream
============================================================================
