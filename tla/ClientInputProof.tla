------------------------- MODULE ClientInputProof -------------------------
(***************************************************************************)
(* Theorems about ClientInput, for every set of clients, devices and kinds *)
(* of requests: a server grab keeps out every client that it should, and   *)
(* the sets of sockets never disagree with what happened to the clients.   *)
(***************************************************************************)
EXTENDS ClientInput, FiniteSetTheorems, TLAPS

\* Client c is not one that a grab holds back.
Free(m, c) == m.grab # None => c \in m.impervious \cup {m.grab}

\* Clients that a grab holds back are in none of the sets of which
\* WaitForSomething takes the ready ones.
HeldOut(m) == \A c \in m.all \cup m.input : Free(m, c)

\* The inductive invariant: besides the types, who is in the live sets, and who is
\* being served, is not held back.  The second part is needed because a
\* client goes on being served, and is marked again, in the middle of
\* changing the grab and its own imperviousness.
IInv == TypeOK /\ HeldOut(masks) /\ (current # None => Free(masks, current))

-----------------------------------------------------------------------------
LEMMA NoneNoClient == None \notin Clients
  BY SocketAssumption DEF None

(* What the operators on the sets keep. *)

LEMMA OnlyListenOK ==
    ASSUME NEW m \in Masks, NEW c \in Clients, HeldOut(m)
    PROVE  LET r == OnlyListenToOneClient(m, c)
           IN  r \in Masks /\ HeldOut(r) /\ (m.grab \in {None, c} => Free(r, c))
  BY NoneNoClient DEF OnlyListenToOneClient, Masks, HeldOut, Free

LEMMA ListenToAllOK ==
    ASSUME NEW m \in Masks, HeldOut(m)
    PROVE  LET r == ListenToAllClients(m)
           IN  r \in Masks /\ HeldOut(r) /\ r.grab = None
  BY DEF ListenToAllClients, Masks, HeldOut, Free

LEMMA IgnoreOK ==
    ASSUME NEW m \in Masks, NEW c \in Clients, HeldOut(m)
    PROVE  LET r == IgnoreClient(m, c)
           IN  r \in Masks /\ HeldOut(r) /\ \A d \in Clients : Free(m, d) => Free(r, d)
  BY DEF IgnoreClient, Mark, Masks, HeldOut, Free

LEMMA AttendOK ==
    ASSUME NEW m \in Masks, NEW c \in Clients, HeldOut(m)
    PROVE  LET r == AttendClient(m, c)
           IN  r \in Masks /\ HeldOut(r) /\ \A d \in Clients : Free(m, d) => Free(r, d)
  BY DEF AttendClient, Masks, HeldOut, Free

LEMMA ImperviousOK ==
    ASSUME NEW m \in Masks, NEW c \in Clients, HeldOut(m)
    PROVE  LET r == MakeClientGrabImpervious(m, c)
           IN  r \in Masks /\ HeldOut(r) /\ Free(r, c)
  BY DEF MakeClientGrabImpervious, Masks, HeldOut, Free

LEMMA PerviousOK ==
    ASSUME NEW m \in Masks, NEW c \in Clients, HeldOut(m)
    PROVE  LET r == MakeClientGrabPervious(m, c)
           IN  r \in Masks /\ HeldOut(r) /\ (m.grab \in {None, c} => Free(r, c))
  BY DEF MakeClientGrabPervious, Masks, HeldOut, Free

LEMMA CloseDownOK ==
    ASSUME NEW m \in Masks, NEW c \in Clients, HeldOut(m)
    PROVE  LET r == CloseDownFileDescriptor(m, c)
           IN  /\ r \in Masks /\ HeldOut(r)
               /\ \A d \in Clients \ {c} : Free(m, d) => Free(r, d)
  <1> DEFINE live == [m EXCEPT !.sockets = @ \ {c}, !.all = @ \ {c},
                               !.input = @ \ {c}, !.impervious = @ \ {c}]
             r == CloseDownFileDescriptor(m, c)
  <1>a. /\ live \in Masks
        /\ live.all = m.all \ {c} /\ live.input = m.input \ {c}
        /\ live.impervious = m.impervious \ {c} /\ live.grab = m.grab
    BY DEF Masks
  <1>b. r = IF m.grab = None THEN live
            ELSE [live EXCEPT !.savedSockets = @ \ {c}, !.savedAll = @ \ {c},
                              !.savedInput = @ \ {c}]
    BY DEF CloseDownFileDescriptor
  <1> HIDE DEF live
  <1>1. r \in Masks
    <2> HIDE DEF r
    <2>1. CASE m.grab = None
      BY <1>a, <1>b, <2>1
    <2>2. CASE m.grab # None
      BY <1>a, <1>b, <2>2 DEF Masks
    <2> QED
      BY <2>1, <2>2
  <1>2. /\ r.all = m.all \ {c} /\ r.input = m.input \ {c}
        /\ r.impervious = m.impervious \ {c} /\ r.grab = m.grab
    <2> HIDE DEF r
    <2> QED
      BY <1>a, <1>b DEF Masks
  <1> HIDE DEF r
  <1>3. HeldOut(r)
    <2> SUFFICES ASSUME NEW d \in r.all \cup r.input PROVE Free(r, d)
      BY DEF HeldOut
    <2>1. d \in m.all \cup m.input /\ d # c
      BY <1>2
    <2>2. Free(m, d)
      BY <2>1 DEF HeldOut
    <2> QED
      BY <1>2, <2>1, <2>2 DEF Free
  <1>4. \A d \in Clients \ {c} : Free(m, d) => Free(r, d)
    BY <1>2 DEF Free
  <1> QED
    BY <1>1, <1>3, <1>4 DEF r

LEMMA AllocOK ==
    ASSUME NEW m \in Masks, NEW c \in Clients, HeldOut(m)
    PROVE  LET r == AllocNewConnection(m, c)
           IN  r \in Masks /\ HeldOut(r) /\ \A d \in Clients : Free(m, d) => Free(r, d)
  BY DEF AllocNewConnection, Masks, HeldOut, Free

LEMMA GeneralSocketOK ==
    ASSUME NEW m \in Masks, NEW fd \in Devices, HeldOut(m)
    PROVE  /\ AddGeneralSocket(m, fd) \in Masks /\ HeldOut(AddGeneralSocket(m, fd))
           /\ RemoveGeneralSocket(m, fd) \in Masks
           /\ HeldOut(RemoveGeneralSocket(m, fd))
  BY DEF AddGeneralSocket, RemoveGeneralSocket, Masks, HeldOut, Free

LEMMA InputMarkedOK ==
    ASSUME NEW m \in Masks, NEW c \in Clients, HeldOut(m), Free(m, c), NEW left
    PROVE  LET r == InputMarked(m, c, left)
           IN  r \in Masks /\ HeldOut(r) /\ r.grab = m.grab /\ Free(r, c)
  BY DEF InputMarked, Mark, Masks, HeldOut, Free

LEMMA ResetCurrentRequestOK ==
    ASSUME NEW m \in Masks, NEW c \in Clients, HeldOut(m)
    PROVE  LET r == ResetCurrentRequest(m, c)
           IN  r \in Masks /\ HeldOut(r) /\ \A d \in Clients : Free(m, d) => Free(r, d)
  BY DEF ResetCurrentRequest, Masks, HeldOut, Free

(* UngrabServer and CloseDownClient work on the state of grabs. *)

GrabRecords == [masks : Masks, waiters : SUBSET Clients,
                state : {"GrabNone", "GrabKickout", "GrabActive"}]
\* Of the intervals up to the elements of S, one has none below it: there
\* is no need for an induction over numbers.
LEMMA LeastOK ==
    ASSUME NEW S \in SUBSET Clients, S # {}
    PROVE  Least(S) \in S
  <1>1. S \subseteq Nat
    BY SocketAssumption
  <1> DEFINE T == {0 .. k : k \in S}
             R == StrictSubsetOrdering(Nat)
  <1>2. T \subseteq FiniteSubsetsOf(Nat)
    <2>1. \A k \in Nat : IsFiniteSet(0 .. k)
      BY FS_Interval
    <2> QED
      BY <1>1, <2>1 DEF FiniteSubsetsOf
  <1>3. T # {}
    OBVIOUS
  <1>4. \E x \in T : \A y \in T : <<y, x>> \notin R
    <2> HIDE DEF T, R
    <2> QED
      BY <1>2, <1>3, WFMin, FS_StrictSubsetOrderingWellFounded DEF R
  <1>5. PICK k \in S : \A j \in S : <<0 .. j, 0 .. k>> \notin R
    BY <1>4
  <1>6. \A j \in S : k <= j
    <2> SUFFICES ASSUME NEW j \in S, j < k PROVE FALSE
      BY <1>1
    <2>1. 0 .. j \subseteq 0 .. k /\ 0 .. j # 0 .. k
      BY <1>1
    <2>2. 0 .. j \in SUBSET Nat /\ 0 .. k \in SUBSET Nat
      BY <1>1
    <2> QED
      BY <1>5, <2>1, <2>2 DEF StrictSubsetOrdering
  <1> QED
    BY <1>6 DEF Least

LEMMA UngrabOK ==
    ASSUME NEW s \in GrabRecords, HeldOut(s.masks)
    PROVE  LET r == UngrabServer(s)
           IN  /\ r \in GrabRecords /\ HeldOut(r.masks)
               /\ \A d \in Clients : Free(r.masks, d)
  <1> DEFINE m == ListenToAllClients(s.masks)
  <1>1. m \in Masks /\ HeldOut(m) /\ m.grab = None
    BY ListenToAllOK DEF GrabRecords
  <1>2. \A d \in Clients : Free(m, d)
    BY <1>1 DEF Free
  <1> HIDE DEF m
  <1>3. CASE s.waiters = {}
    BY <1>1, <1>2, <1>3 DEF UngrabServer, GrabRecords, m
  <1>4. CASE s.waiters # {}
    <2> DEFINE w == Least(s.waiters)
    <2>1. w \in Clients
      BY <1>4, LeastOK DEF GrabRecords
    <2>2. /\ AttendClient(m, w) \in Masks /\ HeldOut(AttendClient(m, w))
          /\ \A d \in Clients : Free(AttendClient(m, w), d)
      BY <1>1, <1>2, <2>1, AttendOK
    <2>3. UngrabServer(s) = [s EXCEPT !.masks = AttendClient(m, w),
                                      !.waiters = @ \ {w}, !.state = "GrabNone"]
      BY <1>4 DEF UngrabServer, m
    <2> HIDE DEF w
    <2> QED
      BY <2>2, <2>3 DEF GrabRecords
  <1> QED
    BY <1>3, <1>4

LEMMA ClosedOK ==
    ASSUME NEW s \in GrabRecords, NEW c \in Clients, HeldOut(s.masks)
    PROVE  LET r == Closed(s, c)
           IN  /\ r \in GrabRecords /\ HeldOut(r.masks)
               /\ \A d \in Clients \ {c} : Free(s.masks, d) => Free(r.masks, d)
  <1> DEFINE u == IF s.masks.grab = c THEN UngrabServer(s) ELSE s
  <1>1. /\ u \in GrabRecords /\ HeldOut(u.masks)
        /\ \A d \in Clients : Free(s.masks, d) => Free(u.masks, d)
    BY UngrabOK
  <1> HIDE DEF u
  <1> DEFINE m == CloseDownFileDescriptor(u.masks, c)
  <1>2. /\ m \in Masks /\ HeldOut(m)
        /\ \A d \in Clients \ {c} : Free(u.masks, d) => Free(m, d)
    BY <1>1, CloseDownOK DEF GrabRecords
  <1>3. Closed(s, c) = [u EXCEPT !.masks = m, !.waiters = @ \ {c}]
    BY DEF Closed, u
  <1> HIDE DEF m
  <1> QED
    BY <1>1, <1>2, <1>3 DEF GrabRecords

-----------------------------------------------------------------------------
(* What a request does. *)

Results == [s : GrabRecords, asleep : SUBSET Clients,
            again : Kinds \cup {"none"}, yield : BOOLEAN]

\* A request of a client that is not held back leaves it so, or takes it out
\* of service.
LEMMA OutcomesOK ==
    ASSUME TypeOK, NEW s \in GrabRecords, NEW c \in Clients, NEW kind \in Kinds,
           HeldOut(s.masks), Free(s.masks, c), NEW r \in Outcomes(s, c, kind)
    PROVE  /\ r \in Results /\ HeldOut(r.s.masks)
           /\ ~ r.yield => Free(r.s.masks, c)
  <1> DEFINE m == s.masks
  <1>m. m \in Masks
    BY DEF GrabRecords
  <1>a. asleep \in SUBSET Clients
    BY DEF TypeOK
  <1>1. CASE kind = "plain"
    <2>1. r = Did(s, asleep, "none", FALSE)
      BY <1>1 DEF Outcomes
    <2> QED
      BY <1>a, <2>1 DEF Did, Results
  <1>2. CASE kind = "grab"
    <2>1. r = ProcGrabServer(s, c)
      BY <1>2 DEF Outcomes
    <2>2. CASE m.grab \notin {None, c}
      <3> DEFINE n == IgnoreClient(ResetCurrentRequest(m, c), c)
      <3>1. n \in Masks /\ HeldOut(n)
        BY <1>m, ResetCurrentRequestOK, IgnoreOK
      <3>2. r = Did([s EXCEPT !.masks = n, !.waiters = @ \cup {c}],
                    asleep, "grab", TRUE)
        BY <2>1, <2>2 DEF ProcGrabServer
      <3> HIDE DEF n
      <3> QED
        BY <1>2, <1>a, <3>1, <3>2 DEF Did, Results, GrabRecords
    <2>3. CASE m.grab \in {None, c}
      <3> DEFINE n == OnlyListenToOneClient(m, c)
      <3>1. n \in Masks /\ HeldOut(n) /\ Free(n, c)
        BY <1>m, <2>3, OnlyListenOK
      <3>2. r = Did([s EXCEPT !.masks = n, !.state = "GrabKickout"],
                    asleep, "none", FALSE)
        BY <2>1, <2>3 DEF ProcGrabServer
      <3> HIDE DEF n
      <3> QED
        BY <1>a, <3>1, <3>2 DEF Did, Results, GrabRecords
    <2> QED
      BY <2>2, <2>3
  <1>3. CASE kind = "ungrab"
    <2>1. r = Did(UngrabServer(s), asleep, "none", FALSE)
      BY <1>3 DEF Outcomes
    <2> QED
      BY <1>a, <2>1, UngrabOK DEF Did, Results
  <1>4. CASE kind = "await"
    <2> DEFINE n == IgnoreClient(m, c)
    <2>1. n \in Masks /\ HeldOut(n)
      BY <1>m, IgnoreOK
    <2>2. r = Did([s EXCEPT !.masks = n], asleep \cup {c}, "none", TRUE)
      BY <1>4 DEF Outcomes, SyncAwait
    <2> HIDE DEF n
    <2> QED
      BY <1>a, <2>1, <2>2 DEF Did, Results, GrabRecords
  <1>5. CASE kind = "delay"
    <2> DEFINE n == ResetCurrentRequest(IgnoreClient(m, c), c)
    <2>1. n \in Masks /\ HeldOut(n)
      BY <1>m, ResetCurrentRequestOK, IgnoreOK
    <2>2. r = Did([s EXCEPT !.masks = n], asleep \cup {c}, "plain", TRUE)
      BY <1>5 DEF Outcomes, FakeInputDelay
    <2> HIDE DEF n
    <2> QED
      BY <1>5, <1>a, <2>1, <2>2, KindAssumption DEF Did, Results, GrabRecords
  <1>6. CASE kind = "trigger"
    <2>1. PICK d \in asleep :
             r = Did([s EXCEPT !.masks = AttendClient(m, d)], asleep \ {d},
                     "none", FALSE)
      BY <1>6 DEF Outcomes
    <2> DEFINE n == AttendClient(m, d)
    <2>2. n \in Masks /\ HeldOut(n) /\ Free(n, c)
      BY <1>m, <1>a, AttendOK
    <2>3. r = Did([s EXCEPT !.masks = n], asleep \ {d}, "none", FALSE)
      BY <2>1
    <2> HIDE DEF n
    <2> QED
      BY <1>a, <2>2, <2>3 DEF Did, Results, GrabRecords
  <1>7. CASE kind = "impervious"
    <2> DEFINE n == MakeClientGrabImpervious(m, c)
    <2>1. n \in Masks /\ HeldOut(n) /\ Free(n, c)
      BY <1>m, ImperviousOK
    <2>2. r = Did([s EXCEPT !.masks = n], asleep, "none", FALSE)
      BY <1>7 DEF Outcomes, GrabControl
    <2> HIDE DEF n
    <2> QED
      BY <1>a, <2>1, <2>2 DEF Did, Results, GrabRecords
  <1>8. CASE kind = "pervious"
    <2> DEFINE n == MakeClientGrabPervious(m, c)
    <2>1. n \in Masks /\ HeldOut(n) /\ (m.grab \in {None, c} => Free(n, c))
      BY <1>m, PerviousOK
    <2>2. r = Did([s EXCEPT !.masks = n], asleep, "none", m.grab \notin {None, c})
      BY <1>8 DEF Outcomes, GrabControl
    <2> HIDE DEF n
    <2> QED
      BY <1>a, <2>1, <2>2 DEF Did, Results, GrabRecords
  <1>9. CASE kind \notin {"plain", "grab", "ungrab", "await", "delay", "trigger",
                        "impervious", "pervious"}
    BY <1>9 DEF Outcomes
  <1> QED
    BY <1>1, <1>2, <1>3, <1>4, <1>5, <1>6, <1>7, <1>8, <1>9

-----------------------------------------------------------------------------
LEMMA InitOK == Init => IInv
  <1> SUFFICES ASSUME Init PROVE IInv
    OBVIOUS
  <1>1. masks \in Masks
    BY DEF Init, Masks
  <1>2. TypeOK
    BY <1>1 DEF Init, TypeOK
  <1>3. HeldOut(masks)
    BY DEF Init, HeldOut
  <1> QED
    BY <1>2, <1>3 DEF Init, IInv

LEMMA GrabsOK == IInv => Grabs \in GrabRecords /\ HeldOut(Grabs.masks)
  BY DEF IInv, TypeOK, Grabs, GrabRecords

\* Steps outside of the requests that change the masks in one way only.
LEMMA BetweenOK ==
    ASSUME IInv, current = None, masks' \in Masks, HeldOut(masks'),
           connected' \subseteq Clients, asleep' \subseteq Clients,
           EnabledDevices' \subseteq Devices,
           UNCHANGED <<grabWaiters, grabState, socket, buffer, redo, hungup,
                       current, role>>
    PROVE  IInv'
  <1>1. TypeOK'
    BY DEF IInv, TypeOK
  <1> QED
    BY <1>1 DEF IInv

\* A client that closes down leaves everything well typed and held out.
LEMMA CloseDownClientOK ==
    ASSUME IInv, NEW s \in GrabRecords, NEW c \in Clients, HeldOut(s.masks),
           NEW sock \in [Clients -> Nat], NEW buf \in [Clients -> Nat],
           CloseDownClient(s, sock, buf, c), UNCHANGED <<EnabledDevices, role>>,
           \/ current' = None
           \/ current' \in Clients \ {c} /\ Free(s.masks, current')
    PROVE  IInv'
  <1> DEFINE r == Closed(s, c)
  <1>1. /\ r \in GrabRecords /\ HeldOut(r.masks)
        /\ \A d \in Clients \ {c} : Free(s.masks, d) => Free(r.masks, d)
    BY ClosedOK
  <1>2. masks' = r.masks /\ grabWaiters' = r.waiters /\ grabState' = r.state
    BY DEF CloseDownClient, SetGrabs
  <1> HIDE DEF r
  <1>3. /\ masks' \in Masks /\ grabWaiters' \subseteq Clients
        /\ grabState' \in {"GrabNone", "GrabKickout", "GrabActive"}
    BY <1>1, <1>2 DEF GrabRecords
  <1>4. /\ connected' \subseteq Clients /\ asleep' \subseteq Clients
        /\ hungup' \subseteq Clients /\ socket' \in [Clients -> Nat]
        /\ buffer' \in [Clients -> Nat]
        /\ redo' \in [Clients -> Kinds \cup {"none"}]
    BY DEF CloseDownClient, IInv, TypeOK
  <1>5. TypeOK'
    BY <1>3, <1>4 DEF IInv, TypeOK
  <1>6. HeldOut(masks)'
    BY <1>1, <1>2
  <1>7. (current # None => Free(masks, current))'
    BY <1>1, <1>2
  <1> QED
    BY <1>5, <1>6, <1>7 DEF IInv

\* What a read brings is never more than there is, and if there is a request
\* at all, one is in the buffer afterwards.
LEMMA ReadsOK ==
    ASSUME IInv, current # None, ~ NoRequest, NEW taken \in Reads
    PROVE  /\ current \in Clients /\ taken \in 0 .. socket[current]
           /\ buffer[current] + taken - 1 \in Nat
           /\ [socket EXCEPT ![current] = @ - taken] \in [Clients -> Nat]
           /\ [buffer EXCEPT ![current] = @ + taken - 1] \in [Clients -> Nat]
           /\ [buffer EXCEPT ![current] = @ + taken - 0] \in [Clients -> Nat]
  <1>1. current \in Clients /\ socket \in [Clients -> Nat] /\ buffer \in [Clients -> Nat]
    BY DEF IInv, TypeOK
  <1>2. taken \in 0 .. socket[current] /\ buffer[current] + taken >= 1
    BY <1>1 DEF Reads, NoRequest
  <1>3. /\ socket[current] - taken \in Nat /\ buffer[current] + taken - 1 \in Nat
        /\ buffer[current] + taken - 0 \in Nat
    BY <1>1, <1>2
  <1> QED
    BY <1>1, <1>2, <1>3

\* The state of the grabs when the request is executed.
LEMMA MarkedOK ==
    ASSUME IInv, current # None, NEW left
    PROVE  LET s == [Grabs EXCEPT !.masks = InputMarked(@, current, left)]
           IN  /\ s \in GrabRecords /\ HeldOut(s.masks)
               /\ s.masks.grab = masks.grab /\ Free(s.masks, current)
  <1> DEFINE m == InputMarked(masks, current, left)
  <1>1. m \in Masks /\ HeldOut(m) /\ m.grab = masks.grab /\ Free(m, current)
    BY InputMarkedOK DEF IInv, TypeOK
  <1>2. [Grabs EXCEPT !.masks = InputMarked(@, current, left)] =
        [Grabs EXCEPT !.masks = m]
    BY DEF Grabs
  <1>3. Grabs \in GrabRecords
    BY GrabsOK
  <1> HIDE DEF m
  <1> QED
    BY <1>1, <1>2, <1>3 DEF GrabRecords

LEMMA RequestOK == ASSUME IInv, NEW kind \in Kinds, Request(kind) PROVE IInv'
  <1> DEFINE c == current
  <1>1. current # None /\ ~ NoRequest
    BY DEF Request
  <1>2. PICK taken \in Reads :
          \E r \in Outcomes([Grabs EXCEPT !.masks =
                               InputMarked(@, c, buffer[c] + taken - 1)], c, kind) :
            /\ SetGrabs(r.s)
            /\ asleep' = r.asleep
            /\ redo' = [redo EXCEPT ![c] = r.again]
            /\ buffer' = [buffer EXCEPT
                  ![c] = @ + taken - (IF r.again = "none" THEN 1 ELSE 0)]
            /\ socket' = [socket EXCEPT ![c] = @ - taken]
            /\ current' = IF r.yield THEN None ELSE c
    BY DEF Request
  <1> DEFINE s == [Grabs EXCEPT !.masks = InputMarked(@, c, buffer[c] + taken - 1)]
  <1>3. s \in GrabRecords /\ HeldOut(s.masks) /\ Free(s.masks, c)
    BY <1>1, MarkedOK
  <1>4. PICK r \in Outcomes(s, c, kind) :
            /\ SetGrabs(r.s)
            /\ asleep' = r.asleep
            /\ redo' = [redo EXCEPT ![c] = r.again]
            /\ buffer' = [buffer EXCEPT
                  ![c] = @ + taken - (IF r.again = "none" THEN 1 ELSE 0)]
            /\ socket' = [socket EXCEPT ![c] = @ - taken]
            /\ current' = IF r.yield THEN None ELSE c
    BY <1>2
  <1> HIDE DEF s
  <1>5. c \in Clients
    BY <1>1, ReadsOK
  <1>6. r \in Results /\ HeldOut(r.s.masks) /\ (~ r.yield => Free(r.s.masks, c))
    BY <1>3, <1>4, <1>5, OutcomesOK DEF IInv
  <1>7. /\ masks' \in Masks /\ grabWaiters' \subseteq Clients
        /\ grabState' \in {"GrabNone", "GrabKickout", "GrabActive"}
        /\ asleep' \subseteq Clients
    BY <1>4, <1>6 DEF SetGrabs, Results, GrabRecords
  <1>8. redo' \in [Clients -> Kinds \cup {"none"}]
    BY <1>4, <1>6 DEF Results, IInv, TypeOK
  <1>9. socket' \in [Clients -> Nat] /\ buffer' \in [Clients -> Nat]
    BY <1>1, <1>4, ReadsOK
  <1>10. TypeOK'
    BY <1>4, <1>5, <1>7, <1>8, <1>9 DEF Request, IInv, TypeOK
  <1>11. HeldOut(masks)'
    BY <1>4, <1>6 DEF SetGrabs
  <1>12. (current # None => Free(masks, current))'
    BY <1>4, <1>6 DEF SetGrabs
  <1> QED
    BY <1>10, <1>11, <1>12 DEF IInv

LEMMA KillOK == ASSUME IInv, ProcKillClient PROVE IInv'
  <1> DEFINE c == current
  <1>1. current # None /\ ~ NoRequest
    BY DEF ProcKillClient
  <1>2. PICK taken \in Reads, d \in connected :
          /\ CloseDownClient(
                [Grabs EXCEPT !.masks = InputMarked(@, c, buffer[c] + taken - 1)],
                [socket EXCEPT ![c] = @ - taken],
                [buffer EXCEPT ![c] = @ + taken - 1], d)
          /\ current' = IF c = d THEN None ELSE c
    BY DEF ProcKillClient
  <1> DEFINE s == [Grabs EXCEPT !.masks = InputMarked(@, c, buffer[c] + taken - 1)]
             sock == [socket EXCEPT ![c] = @ - taken]
             buf == [buffer EXCEPT ![c] = @ + taken - 1]
  <1>3. s \in GrabRecords /\ HeldOut(s.masks) /\ Free(s.masks, c)
    BY <1>1, MarkedOK
  <1>4. sock \in [Clients -> Nat] /\ buf \in [Clients -> Nat] /\ c \in Clients
    BY <1>1, ReadsOK
  <1>5. d \in Clients /\ CloseDownClient(s, sock, buf, d)
    BY <1>2 DEF IInv, TypeOK
  <1>6. UNCHANGED <<EnabledDevices, role>>
    BY DEF ProcKillClient
  <1>7. \/ current' = None
        \/ current' \in Clients \ {d} /\ Free(s.masks, current')
    BY <1>2, <1>3, <1>4
  <1> HIDE DEF s, sock, buf
  <1> QED
    BY <1>3, <1>4, <1>5, <1>6, <1>7, CloseDownClientOK

LEMMA NextOK == IInv /\ [Next]_vars => IInv'
  <1> SUFFICES ASSUME IInv, [Next]_vars PROVE IInv'
    OBVIOUS
  <1>1. CASE UNCHANGED vars
    BY <1>1 DEF vars, IInv, TypeOK, HeldOut, Free
  <1>2. ASSUME NEW c \in Clients, ClientSends(c) PROVE IInv'
    <2>1. socket' \in [Clients -> Nat]
      BY <1>2 DEF ClientSends, IInv, TypeOK
    <2> QED
      BY <1>2, <2>1 DEF ClientSends, IInv, TypeOK
  <1>3. ASSUME NEW c \in Clients, ClientHangsUp(c) PROVE IInv'
    BY <1>3 DEF ClientHangsUp, IInv, TypeOK
  <1>4. ASSUME NEW c \in Clients, EstablishNewConnections(c) PROVE IInv'
    <2>1. masks' \in Masks /\ HeldOut(masks')
      BY <1>4, AllocOK DEF EstablishNewConnections, IInv, TypeOK
    <2>2. connected' \subseteq Clients /\ asleep' \subseteq Clients
          /\ EnabledDevices' \subseteq Devices
      BY <1>4 DEF EstablishNewConnections, IInv, TypeOK
    <2> QED
      BY <1>4, <2>1, <2>2, BetweenOK DEF EstablishNewConnections
  <1>5. ASSUME NEW c \in Clients, Awaken(c) PROVE IInv'
    <2>1. masks' \in Masks /\ HeldOut(masks')
      BY <1>5, AttendOK DEF Awaken, IInv, TypeOK
    <2>2. connected' \subseteq Clients /\ asleep' \subseteq Clients
          /\ EnabledDevices' \subseteq Devices
      BY <1>5 DEF Awaken, IInv, TypeOK
    <2> QED
      BY <1>5, <2>1, <2>2, BetweenOK DEF Awaken
  <1>6. ASSUME NEW fd \in Devices, AddEnabledDevice(fd) PROVE IInv'
    <2>1. masks' \in Masks /\ HeldOut(masks')
      BY <1>6, GeneralSocketOK DEF AddEnabledDevice, IInv, TypeOK
    <2>2. connected' \subseteq Clients /\ asleep' \subseteq Clients
          /\ EnabledDevices' \subseteq Devices
      BY <1>6 DEF AddEnabledDevice, IInv, TypeOK
    <2> QED
      BY <1>6, <2>1, <2>2, BetweenOK DEF AddEnabledDevice
  <1>7. ASSUME NEW fd \in Devices, RemoveEnabledDevice(fd) PROVE IInv'
    <2>1. masks' \in Masks /\ HeldOut(masks')
      BY <1>7, GeneralSocketOK DEF RemoveEnabledDevice, IInv, TypeOK
    <2>2. connected' \subseteq Clients /\ asleep' \subseteq Clients
          /\ EnabledDevices' \subseteq Devices
      BY <1>7 DEF RemoveEnabledDevice, IInv, TypeOK
    <2> QED
      BY <1>7, <2>1, <2>2, BetweenOK DEF RemoveEnabledDevice
  <1>8. CASE WaitForSomething
    <2>1. current' \in masks.all \cup masks.input \cup {None}
      BY <1>8 DEF WaitForSomething, ClientsReadable
    <2>2. current' # None => Free(masks, current')
      BY <2>1 DEF IInv, HeldOut
    <2>3. current' \in Clients \cup {None}
      BY <2>1 DEF IInv, TypeOK, Masks
    <2>4. grabState' \in {"GrabNone", "GrabKickout", "GrabActive"}
      BY <1>8 DEF WaitForSomething, IInv, TypeOK
    <2>5. TypeOK'
      BY <1>8, <2>3, <2>4 DEF WaitForSomething, IInv, TypeOK
    <2> QED
      BY <1>8, <2>2, <2>5 DEF WaitForSomething, IInv
  <1>9. CASE SliceEnds
    BY <1>9 DEF SliceEnds, IInv, TypeOK
  <1>10. CASE ReadNothing
    <2>1. masks' \in Masks /\ HeldOut(masks')
      BY <1>10 DEF ReadNothing, IInv, TypeOK, Masks, HeldOut, Free
    <2>2. TypeOK'
      BY <1>10, <2>1 DEF ReadNothing, IInv, TypeOK
    <2> QED
      BY <1>10, <2>1, <2>2 DEF ReadNothing, IInv
  <1>11. CASE ReadFails
    <2>1. Grabs \in GrabRecords /\ HeldOut(Grabs.masks)
      BY GrabsOK
    <2>2. current \in Clients /\ socket \in [Clients -> Nat]
          /\ buffer \in [Clients -> Nat]
      BY <1>11 DEF ReadFails, NoRequest, IInv, TypeOK
    <2> QED
      BY <1>11, <2>1, <2>2, CloseDownClientOK DEF ReadFails
  <1>12. ASSUME NEW kind \in Kinds, Request(kind) PROVE IInv'
    BY <1>12, RequestOK
  <1>13. CASE ProcKillClient
    BY <1>13, KillOK
  <1> QED
    BY <1>1, <1>2, <1>3, <1>4, <1>5, <1>6, <1>7, <1>8, <1>9, <1>10, <1>11, <1>12,
       <1>13 DEF Next

THEOREM Invariance == Spec => []IInv
  BY InitOK, NextOK, PTL DEF Spec

-----------------------------------------------------------------------------
\* Every variable keeps its type; in particular the numbers of requests, of
\* which some are put back, never become negative.
THEOREM TypeCorrect == Spec => []TypeOK
  <1>1. IInv => TypeOK
    BY DEF IInv
  <1> QED
    BY <1>1, Invariance, PTL

\* Only the client being served loses requests, unless it is closed down.
LEMMA OnlyCurrentServed ==
    ASSUME IInv, Next, NEW c \in Clients, c \in connected',
           buffer'[c] + socket'[c] < buffer[c] + socket[c]
    PROVE  c = current
  <1>0. socket \in [Clients -> Nat] /\ buffer \in [Clients -> Nat]
    BY DEF IInv, TypeOK
  <1>1. ~ UNCHANGED <<socket, buffer>>
    BY <1>0
  <1>2. \A d \in Clients : ~ ClientSends(d)
    <2> SUFFICES ASSUME NEW d \in Clients, ClientSends(d) PROVE FALSE
      OBVIOUS
    <2>1. buffer' = buffer /\ socket'[c] >= socket[c]
      BY <1>0 DEF ClientSends
    <2> QED
      BY <1>0, <2>1 DEF ClientSends
  <1>3. CASE ReadFails
    BY <1>0, <1>3 DEF ReadFails, CloseDownClient
  <1>4. ASSUME NEW kind \in Kinds, Request(kind) PROVE c = current
    BY <1>0, <1>4 DEF Request
  <1>5. CASE ProcKillClient
    <2> SUFFICES ASSUME c # current PROVE FALSE
      OBVIOUS
    <2>1. PICK sock, buf, d \in connected :
            /\ socket' = [sock EXCEPT ![d] = 0] /\ buffer' = [buf EXCEPT ![d] = 0]
            /\ connected' = connected \ {d}
            /\ sock \in [Clients -> {sock[x] : x \in Clients}]
            /\ buf \in [Clients -> {buf[x] : x \in Clients}]
            /\ sock[c] = socket[c] /\ buf[c] = buffer[c]
      BY <1>0, <1>5 DEF ProcKillClient, CloseDownClient
    <2>2. socket'[c] = socket[c] /\ buffer'[c] = buffer[c]
      BY <2>1
    <2> QED
      BY <1>0, <2>2
  <1> QED
    BY <1>1, <1>2, <1>3, <1>4, <1>5
       DEF Next, ClientHangsUp, EstablishNewConnections, Awaken, AddEnabledDevice,
           RemoveEnabledDevice, WaitForSomething, SliceEnds, ReadNothing

\* No client that a server grab holds back has a request executed, whatever
\* the clients do to the grab, to each other and to their imperviousness.
THEOREM GrabExclusion == Spec => GrabExclusive
  <1>1. ASSUME IInv, [Next]_vars, NEW c \in Clients, c \in connected',
               buffer'[c] + socket'[c] < buffer[c] + socket[c]
        PROVE  c \notin HeldBack
    <2>1. c = current
      <3>1. CASE Next
        BY <1>1, <3>1, OnlyCurrentServed
      <3>2. CASE UNCHANGED vars
        BY <1>1, <3>2 DEF vars, IInv, TypeOK
      <3> QED
        BY <1>1, <3>1, <3>2
    <2>2. Free(masks, c)
      BY <1>1, <2>1, NoneNoClient DEF IInv
    <2> QED
      BY <2>2 DEF HeldBack, Free
  <1>2. IInv /\ [Next]_vars =>
          [\A c \in Clients : buffer'[c] + socket'[c] < buffer[c] + socket[c]
               /\ c \in connected' => c \notin HeldBack]_vars
    BY <1>1
  <1> QED
    BY <1>2, Invariance, PTL DEF Spec, GrabExclusive

-----------------------------------------------------------------------------
(* Whom the server listens to, and what it does not forget. *)

\* Sleeping and being impervious to grabs do not meet, and no two clients are
\* impervious: else the end of a grab brings a client back that still waits,
\* or fails to bring one back.
Apart == \A r \in Roles : \/ r.testers = {}
                          \/ r.sleepers = {} /\ \A c, d \in r.testers : c = d

\* Below, m is the sets, conn who is connected, a who is asleep, w who waits
\* for a grab, devs the devices and buf the requests in buffers.
Held(m, conn) ==
    IF m.grab = None THEN {} ELSE conn \ (m.impervious \cup {m.grab})

\* Only an impervious client can have come to wait, and only during a grab.
People(m, conn, a, w) ==
    /\ a \subseteq conn /\ m.impervious \subseteq conn
    /\ w \subseteq m.impervious
    /\ (m.grab = None => w = {}) /\ m.grab \notin w
    /\ \A c, d \in m.impervious : c = d
    /\ a = {} \/ m.impervious = {}

Live(m, conn, a, w, devs) ==
    /\ m.all = conn \ (a \cup w \cup Held(m, conn))
    /\ m.sockets = m.all \cup devs \cup WellKnown
    /\ m.input \subseteq m.all

\* What the end of the grab will bring back: also who holds the grab and has
\* gone to sleep, since it is listened to again before that or has gone.
Saved(m, conn, a, devs) == m.grab # None =>
    /\ m.grab \in conn
    /\ m.savedAll = (conn \ a) \cup {m.grab}
    /\ m.savedSockets = m.savedAll \cup devs \cup WellKnown
    /\ m.savedInput \subseteq m.savedAll

\* A request in a buffer is found by the mark that applies to its client.
Marked(m, conn, a, w, buf) ==
    \A c \in conn : buf[c] > 0 =>
        c \in (IF c \in a \cup w THEN m.ignoredInput
               ELSE IF c \in Held(m, conn) THEN m.savedInput ELSE m.input)

Sound(m, conn, a, w, devs, buf) ==
    /\ People(m, conn, a, w) /\ Live(m, conn, a, w, devs)
    /\ Saved(m, conn, a, devs) /\ Marked(m, conn, a, w, buf)

LInv ==
    /\ Sound(masks, connected, asleep, grabWaiters, EnabledDevices, buffer)
    /\ masks.impervious \subseteq role.testers /\ asleep \subseteq role.sleepers
    /\ current # None => current \in masks.all
    /\ \A c \in Clients \ connected : buffer[c] = 0
    /\ \A c \in Clients : redo[c] \in {"none", "grab", "plain"}

\* What the definitions above need of the sets.
LEMMA MasksParts ==
    ASSUME NEW m \in Masks
    PROVE  /\ m.all \subseteq Clients /\ m.input \subseteq Clients
           /\ m.impervious \subseteq Clients /\ m.grab \in Clients \cup {None}
           /\ m.savedAll \subseteq Clients /\ m.savedInput \subseteq Clients
           /\ m.ignoredInput \subseteq Clients
  BY DEF Masks

\* A client that waits for a time or a counter is put out of all the sets ...
LEMMA SleepSound ==
    ASSUME NEW m \in Masks, NEW conn \in SUBSET Clients, NEW a \in SUBSET Clients,
           NEW w \in SUBSET Clients, NEW devs \in SUBSET Devices,
           NEW buf \in [Clients -> Nat], NEW c \in m.all,
           Sound(m, conn, a, w, devs, buf), m.impervious = {}
    PROVE  Sound(IgnoreClient(m, c), conn, a \cup {c}, w, devs, buf)
  <1> DEFINE r == IgnoreClient(m, c)
  <1>1. /\ c \in conn /\ c \notin a /\ w = {} /\ m.grab \in {None, c}
        /\ c \in Clients
    BY MasksParts DEF Sound, People, Live, Held
  <1>2. r = [m EXCEPT !.ignoredInput = Mark(@, c, c \in m.input),
                      !.input = @ \ {c}, !.sockets = @ \ {c}, !.all = @ \ {c}]
    BY DEF IgnoreClient
  <1>3. /\ r.all = m.all \ {c} /\ r.sockets = m.sockets \ {c}
        /\ r.input = m.input \ {c} /\ r.grab = m.grab
        /\ r.impervious = m.impervious /\ r.savedAll = m.savedAll
        /\ r.savedSockets = m.savedSockets /\ r.savedInput = m.savedInput
        /\ r.ignoredInput = Mark(m.ignoredInput, c, c \in m.input)
    BY <1>2 DEF Masks
  <1>4. Held(r, conn) = Held(m, conn)
    BY <1>3 DEF Held
  <1> HIDE DEF r
  <1>5. People(r, conn, a \cup {c}, w)
    BY <1>1, <1>3 DEF Sound, People
  <1>6. Live(r, conn, a \cup {c}, w, devs)
    <2>1. c \notin devs \cup WellKnown
      BY <1>1, SocketAssumption
    <2>2. r.all = conn \ (a \cup {c} \cup w \cup Held(r, conn))
      BY <1>3, <1>4 DEF Sound, Live
    <2>3. r.sockets = r.all \cup devs \cup WellKnown
      BY <1>3, <2>1 DEF Sound, Live
    <2> QED
      BY <1>3, <2>2, <2>3 DEF Sound, Live
  <1>7. Saved(r, conn, a \cup {c}, devs)
    BY <1>1, <1>3 DEF Sound, Saved
  <1>8. Marked(r, conn, a \cup {c}, w, buf)
    BY <1>1, <1>3, <1>4 DEF Sound, Marked, Live, Mark
  <1> QED
    BY <1>5, <1>6, <1>7, <1>8 DEF Sound, r

\* ... and when it is awakened, into those that apply.
LEMMA AwakenSound ==
    ASSUME NEW m \in Masks, NEW conn \in SUBSET Clients, NEW a \in SUBSET Clients,
           NEW w \in SUBSET Clients, NEW devs \in SUBSET Devices,
           NEW buf \in [Clients -> Nat], NEW c \in a,
           Sound(m, conn, a, w, devs, buf)
    PROVE  /\ Sound(AttendClient(m, c), conn, a \ {c}, w, devs, buf)
           /\ m.all \subseteq AttendClient(m, c).all
  <1> DEFINE r == AttendClient(m, c)
  <1>1. /\ c \in conn /\ m.impervious = {} /\ w = {} /\ c \in Clients
    BY DEF Sound, People
  <1>2. CASE m.grab \in {None, c}
    <2>1. r = [m EXCEPT !.all = @ \cup {c}, !.sockets = @ \cup {c},
                        !.input = IF c \in m.ignoredInput THEN @ \cup {c} ELSE @]
      BY <1>2 DEF AttendClient
    <2>2. /\ r.all = m.all \cup {c} /\ r.sockets = m.sockets \cup {c}
          /\ r.input = (IF c \in m.ignoredInput THEN m.input \cup {c} ELSE m.input)
          /\ r.grab = m.grab /\ r.impervious = m.impervious
          /\ r.savedAll = m.savedAll /\ r.savedSockets = m.savedSockets
          /\ r.savedInput = m.savedInput /\ r.ignoredInput = m.ignoredInput
      BY <2>1 DEF Masks
    <2>3. Held(r, conn) = Held(m, conn) /\ c \notin Held(m, conn)
      BY <1>2, <2>2, NoneNoClient, <1>1 DEF Held
    <2> HIDE DEF r
    <2>4. People(r, conn, a \ {c}, w)
      BY <1>1, <2>2 DEF Sound, People
    <2>5. Live(r, conn, a \ {c}, w, devs)
      BY <1>1, <2>2, <2>3 DEF Sound, Live
    <2>6. Saved(r, conn, a \ {c}, devs)
      BY <1>1, <1>2, <2>2 DEF Sound, Saved
    <2>7. Marked(r, conn, a \ {c}, w, buf)
      BY <1>1, <2>2, <2>3 DEF Sound, Marked
    <2> QED
      BY <2>2, <2>4, <2>5, <2>6, <2>7 DEF Sound, r
  <1>3. CASE m.grab \notin {None, c}
    <2>1. r = [m EXCEPT !.savedAll = @ \cup {c}, !.savedSockets = @ \cup {c},
                        !.savedInput = IF c \in m.ignoredInput THEN @ \cup {c} ELSE @]
      BY <1>1, <1>3 DEF AttendClient
    <2>2. /\ r.savedAll = m.savedAll \cup {c} /\ r.savedSockets = m.savedSockets \cup {c}
          /\ r.savedInput = (IF c \in m.ignoredInput THEN m.savedInput \cup {c}
                             ELSE m.savedInput)
          /\ r.grab = m.grab /\ r.impervious = m.impervious
          /\ r.all = m.all /\ r.sockets = m.sockets
          /\ r.input = m.input /\ r.ignoredInput = m.ignoredInput
      BY <2>1 DEF Masks
    <2>3. Held(r, conn) = Held(m, conn) /\ c \in Held(m, conn)
      BY <1>3, <2>2, <1>1 DEF Held
    <2> HIDE DEF r
    <2>4. People(r, conn, a \ {c}, w)
      BY <1>1, <2>2 DEF Sound, People
    <2>5. Live(r, conn, a \ {c}, w, devs)
      BY <1>1, <2>2, <2>3 DEF Sound, Live
    <2>6. Saved(r, conn, a \ {c}, devs)
      BY <1>1, <1>3, <2>2 DEF Sound, Saved
    <2>7. Marked(r, conn, a \ {c}, w, buf)
      BY <1>1, <2>2, <2>3 DEF Sound, Marked
    <2> QED
      BY <2>2, <2>4, <2>5, <2>6, <2>7 DEF Sound, r
  <1> QED
    BY <1>2, <1>3

\* A request put back is found, also when its client has gone to sleep.
LEMMA PutBackSound ==
    ASSUME NEW m \in Masks, NEW conn \in SUBSET Clients, NEW a \in SUBSET Clients,
           NEW w \in SUBSET Clients, NEW devs \in SUBSET Devices,
           NEW buf \in [Clients -> Nat], NEW buf2 \in [Clients -> Nat],
           NEW c \in a, \A d \in Clients \ {c} : buf2[d] = buf[d],
           Sound(m, conn, a, w, devs, buf)
    PROVE  Sound(ResetCurrentRequest(m, c), conn, a, w, devs, buf2)
  <1> DEFINE r == ResetCurrentRequest(m, c)
  <1>1. c \notin m.all
    BY DEF Sound, Live
  <1>2. r = [m EXCEPT !.ignoredInput = @ \cup {c}]
    BY <1>1 DEF ResetCurrentRequest
  <1>3. /\ r.ignoredInput = m.ignoredInput \cup {c}
        /\ r.all = m.all /\ r.sockets = m.sockets /\ r.input = m.input
        /\ r.grab = m.grab /\ r.impervious = m.impervious
        /\ r.savedAll = m.savedAll /\ r.savedSockets = m.savedSockets
        /\ r.savedInput = m.savedInput
    BY <1>2 DEF Masks
  <1>4. Held(r, conn) = Held(m, conn)
    BY <1>3 DEF Held
  <1> HIDE DEF r
  <1>5. People(r, conn, a, w) /\ Live(r, conn, a, w, devs) /\ Saved(r, conn, a, devs)
    BY <1>3, <1>4 DEF Sound, People, Live, Saved
  <1>6. Marked(r, conn, a, w, buf2)
    <2> SUFFICES ASSUME NEW d \in conn, buf2[d] > 0
                 PROVE  d \in (IF d \in a \cup w THEN r.ignoredInput
                         ELSE IF d \in Held(r, conn) THEN r.savedInput ELSE r.input)
      BY DEF Marked
    <2>1. CASE d = c
      BY <1>3, <2>1
    <2>2. CASE d # c
      BY <1>3, <1>4, <2>2 DEF Sound, Marked
    <2> QED
      BY <2>1, <2>2
  <1> QED
    BY <1>5, <1>6 DEF Sound, r

\* An impervious client that asks for a grab while there is one waits, with
\* its request.
LEMMA WaitSound ==
    ASSUME NEW m \in Masks, NEW conn \in SUBSET Clients, NEW a \in SUBSET Clients,
           NEW w \in SUBSET Clients, NEW devs \in SUBSET Devices,
           NEW buf \in [Clients -> Nat], NEW buf2 \in [Clients -> Nat],
           NEW c \in m.all, m.grab \notin {None, c},
           \A d \in Clients \ {c} : buf2[d] = buf[d],
           Sound(m, conn, a, w, devs, buf)
    PROVE  Sound(IgnoreClient(ResetCurrentRequest(m, c), c), conn, a, w \cup {c},
                 devs, buf2)
  <1> DEFINE n == ResetCurrentRequest(m, c)
             r == IgnoreClient(n, c)
  <1>1. /\ c \in conn /\ c \in m.impervious /\ a = {} /\ c \in Clients
    BY MasksParts DEF Sound, People, Live, Held
  <1>2. n = [m EXCEPT !.input = @ \cup {c}]
    BY DEF ResetCurrentRequest
  <1>3. /\ n \in Masks /\ n.input = m.input \cup {c} /\ n.all = m.all
        /\ n.sockets = m.sockets /\ n.grab = m.grab /\ n.impervious = m.impervious
        /\ n.savedAll = m.savedAll /\ n.savedSockets = m.savedSockets
        /\ n.savedInput = m.savedInput /\ n.ignoredInput = m.ignoredInput
    BY <1>1, <1>2 DEF Masks
  <1> HIDE DEF n
  <1>4. r = [n EXCEPT !.ignoredInput = @ \cup {c},
                      !.input = @ \ {c}, !.sockets = @ \ {c}, !.all = @ \ {c}]
    BY <1>3 DEF IgnoreClient, Mark
  <1>5. /\ r.all = m.all \ {c} /\ r.sockets = m.sockets \ {c}
        /\ r.input = m.input \ {c} /\ r.grab = m.grab
        /\ r.impervious = m.impervious /\ r.savedAll = m.savedAll
        /\ r.savedSockets = m.savedSockets /\ r.savedInput = m.savedInput
        /\ r.ignoredInput = m.ignoredInput \cup {c}
    BY <1>3, <1>4 DEF Masks
  <1>6. Held(r, conn) = Held(m, conn)
    BY <1>5 DEF Held
  <1> HIDE DEF r
  <1>7. People(r, conn, a, w \cup {c})
    BY <1>1, <1>5 DEF Sound, People
  <1>8. Live(r, conn, a, w \cup {c}, devs)
    <2>1. c \notin devs \cup WellKnown
      BY <1>1, SocketAssumption
    <2>2. r.all = conn \ (a \cup (w \cup {c}) \cup Held(r, conn))
      BY <1>5, <1>6 DEF Sound, Live
    <2>3. r.sockets = r.all \cup devs \cup WellKnown
      BY <1>5, <2>1 DEF Sound, Live
    <2> QED
      BY <1>5, <2>2, <2>3 DEF Sound, Live
  <1>9. Saved(r, conn, a, devs)
    BY <1>5 DEF Sound, Saved
  <1>10. Marked(r, conn, a, w \cup {c}, buf2)
    <2> SUFFICES ASSUME NEW d \in conn, buf2[d] > 0
                 PROVE  d \in (IF d \in a \cup (w \cup {c}) THEN r.ignoredInput
                         ELSE IF d \in Held(r, conn) THEN r.savedInput ELSE r.input)
      BY DEF Marked
    <2>1. CASE d = c
      BY <1>5, <2>1
    <2>2. CASE d # c
      BY <1>5, <1>6, <2>2 DEF Sound, Marked
    <2> QED
      BY <2>1, <2>2
  <1> QED
    BY <1>7, <1>8, <1>9, <1>10 DEF Sound, r, n

\* A grab sets everyone aside but its client and the impervious one.
LEMMA GrabSound ==
    ASSUME NEW m \in Masks, NEW conn \in SUBSET Clients, NEW a \in SUBSET Clients,
           NEW w \in SUBSET Clients, NEW devs \in SUBSET Devices,
           NEW buf \in [Clients -> Nat], NEW c \in m.all, m.grab \in {None, c},
           Sound(m, conn, a, w, devs, buf)
    PROVE  /\ Sound(OnlyListenToOneClient(m, c), conn, a, w, devs, buf)
           /\ c \in OnlyListenToOneClient(m, c).all
  <1>1. CASE m.grab # None
    BY <1>1 DEF OnlyListenToOneClient
  <1>2. CASE m.grab = None
    <2> DEFINE r == OnlyListenToOneClient(m, c)
    <2>1. /\ c \in conn /\ c \notin a /\ w = {} /\ c \in Clients /\ c # None
          /\ m.all = conn \ a
      BY <1>2, MasksParts, NoneNoClient DEF Sound, People, Live, Held
    <2>2. r = [m EXCEPT !.input = @ \cap (m.impervious \cup {c}),
                  !.savedInput = m.input \ (m.impervious \cup {c}),
                  !.savedSockets = m.sockets,
                  !.savedAll = m.all,
                  !.all = (m.all \cap m.impervious) \cup {c},
                  !.sockets = (m.sockets \ m.all) \cup (m.all \cap m.impervious) \cup {c},
                  !.grab = c]
      BY <1>2 DEF OnlyListenToOneClient
    <2>3. /\ r.input = m.input \cap (m.impervious \cup {c})
          /\ r.savedInput = m.input \ (m.impervious \cup {c})
          /\ r.savedSockets = m.sockets /\ r.savedAll = m.all
          /\ r.all = (m.all \cap m.impervious) \cup {c}
          /\ r.sockets = (m.sockets \ m.all) \cup (m.all \cap m.impervious) \cup {c}
          /\ r.grab = c /\ r.impervious = m.impervious
          /\ r.ignoredInput = m.ignoredInput
      BY <2>2 DEF Masks
    <2>4. Held(r, conn) = conn \ (m.impervious \cup {c}) /\ Held(m, conn) = {}
      BY <1>2, <2>1, <2>3 DEF Held
    <2> HIDE DEF r
    <2>5. People(r, conn, a, w)
      BY <2>1, <2>3 DEF Sound, People
    <2>6. Live(r, conn, a, w, devs)
      <3>1. m.all \cap (devs \cup WellKnown) = {}
        BY <2>1, SocketAssumption
      <3>2. r.all = conn \ (a \cup w \cup Held(r, conn))
        BY <2>1, <2>3, <2>4
      <3>3. r.sockets = r.all \cup devs \cup WellKnown
        BY <2>3, <3>1 DEF Sound, Live
      <3> QED
        BY <2>3, <3>2, <3>3 DEF Sound, Live
    <2>7. Saved(r, conn, a, devs)
      BY <2>1, <2>3 DEF Sound, Saved, Live
    <2>8. Marked(r, conn, a, w, buf)
      BY <2>1, <2>3, <2>4 DEF Sound, Marked
    <2> QED
      BY <2>3, <2>5, <2>6, <2>7, <2>8 DEF Sound, r
  <1> QED
    BY <1>1, <1>2

\* What a grab leaves when it ends: everyone is listened to who is not
\* asleep, and so is the one who held the grab.
Restored(m, r, conn, a, devs, buf) ==
    /\ r.masks.grab = None /\ r.waiters = {}
    /\ r.masks.all = (conn \ a) \cup {m.grab}
    /\ r.masks.sockets = r.masks.all \cup devs \cup WellKnown
    /\ r.masks.input \subseteq r.masks.all
    /\ r.masks.impervious = m.impervious
    /\ r.masks.ignoredInput = m.ignoredInput
    /\ m.all \subseteq r.masks.all
    /\ \A d \in conn \ a : buf[d] > 0 => d \in r.masks.input

LEMMA UngrabRestores ==
    ASSUME NEW s \in GrabRecords, NEW conn \in SUBSET Clients,
           NEW a \in SUBSET Clients, NEW devs \in SUBSET Devices,
           NEW buf \in [Clients -> Nat], s.masks.grab # None,
           Sound(s.masks, conn, a, s.waiters, devs, buf)
    PROVE  Restored(s.masks, UngrabServer(s), conn, a, devs, buf)
  <1> DEFINE m == s.masks
             n == ListenToAllClients(m)
             r == UngrabServer(s)
  <1>m. m \in Masks /\ m.grab # None
    BY DEF GrabRecords
  <1>1. n = [m EXCEPT !.sockets = @ \cup m.savedSockets, !.all = @ \cup m.savedAll,
                      !.input = @ \cup m.savedInput, !.grab = None]
    BY <1>m DEF ListenToAllClients
  <1>2. /\ n.sockets = m.sockets \cup m.savedSockets /\ n.all = m.all \cup m.savedAll
        /\ n.input = m.input \cup m.savedInput /\ n.grab = None
        /\ n.impervious = m.impervious /\ n.ignoredInput = m.ignoredInput
        /\ n \in Masks
    BY <1>1, <1>m DEF Masks
  <1> HIDE DEF n
  <1>3. n.all = (conn \ a) \cup {m.grab}
    BY <1>m, <1>2 DEF Sound, Live, Saved
  <1>4. n.sockets = n.all \cup devs \cup WellKnown
    BY <1>m, <1>2 DEF Sound, Live, Saved
  <1>5. n.input \subseteq n.all
    BY <1>m, <1>2 DEF Sound, Live, Saved
  <1>6. \A d \in conn \ (a \cup s.waiters) : buf[d] > 0 => d \in n.input
    BY <1>2 DEF Sound, Marked
  <1>7. \A d \in s.waiters : buf[d] > 0 => d \in n.ignoredInput
    BY <1>2 DEF Sound, Marked, People
  <1>8. CASE s.waiters = {}
    <2>1. r = [s EXCEPT !.masks = n, !.state = "GrabNone"]
      BY <1>8 DEF UngrabServer, n
    <2>2. r.masks = n /\ r.waiters = {}
      BY <1>8, <2>1 DEF GrabRecords
    <2> HIDE DEF r
    <2> QED
      BY <1>2, <1>3, <1>4, <1>5, <1>6, <1>8, <2>2 DEF r, Restored
  <1>9. CASE s.waiters # {}
    <2> DEFINE x == Least(s.waiters)
               k == AttendClient(n, x)
    <2>1. x \in s.waiters
      BY <1>9, LeastOK DEF GrabRecords
    <2>2. s.waiters = {x} /\ x \in conn /\ x \notin a
      BY <2>1 DEF Sound, People
    <2>3. r = [s EXCEPT !.masks = k, !.waiters = @ \ {x}, !.state = "GrabNone"]
      BY <1>9 DEF UngrabServer, n
    <2>4. r.masks = k /\ r.waiters = {}
      BY <2>2, <2>3 DEF GrabRecords
    <2> HIDE DEF x
    <2>5. k = [n EXCEPT !.all = @ \cup {x}, !.sockets = @ \cup {x},
                   !.input = IF x \in n.ignoredInput THEN @ \cup {x} ELSE @]
      BY <1>2 DEF AttendClient
    <2>6. /\ k.all = n.all \cup {x} /\ k.sockets = n.sockets \cup {x}
          /\ k.input = (IF x \in n.ignoredInput THEN n.input \cup {x} ELSE n.input)
          /\ k.grab = None /\ k.impervious = n.impervious
          /\ k.ignoredInput = n.ignoredInput
      BY <1>2, <2>5 DEF Masks
    <2> HIDE DEF k, r
    <2>7. k.all = n.all /\ x \in n.all
      BY <1>3, <2>2, <2>6
    <2>8. k.sockets = k.all \cup devs \cup WellKnown
      BY <1>4, <2>6, <2>7
    <2>9. \A d \in conn \ a : buf[d] > 0 => d \in k.input
      BY <1>6, <1>7, <2>2, <2>6
    <2>10. k.input \subseteq k.all /\ m.all \subseteq k.all
      BY <1>2, <1>5, <2>6, <2>7
    <2> QED
      BY <1>2, <1>3, <2>4, <2>6, <2>7, <2>8, <2>9, <2>10 DEF r, Restored
  <1> QED
    BY <1>8, <1>9

LEMMA NoGrab ==
    ASSUME NEW s \in GrabRecords, s.masks.grab = None, s.waiters = {}
    PROVE  UngrabServer(s).masks = s.masks /\ UngrabServer(s).waiters = {}
  BY DEF UngrabServer, ListenToAllClients, GrabRecords

LEMMA UngrabSound ==
    ASSUME NEW s \in GrabRecords, NEW conn \in SUBSET Clients,
           NEW a \in SUBSET Clients, NEW devs \in SUBSET Devices,
           NEW buf \in [Clients -> Nat], s.masks.grab \notin a,
           Sound(s.masks, conn, a, s.waiters, devs, buf)
    PROVE  LET r == UngrabServer(s)
           IN  /\ Sound(r.masks, conn, a, r.waiters, devs, buf)
               /\ s.masks.all \subseteq r.masks.all
               /\ r.masks.impervious = s.masks.impervious
  <1> DEFINE r == UngrabServer(s)
  <1>1. CASE s.masks.grab = None
    <2>1. s.waiters = {}
      BY <1>1 DEF Sound, People
    <2> QED
      BY <1>1, <2>1, NoGrab
  <1>2. CASE s.masks.grab # None
    <2>1. Restored(s.masks, r, conn, a, devs, buf)
      BY <1>2, UngrabRestores
    <2>2. s.masks.grab \in conn /\ s.masks \in Masks
      BY <1>2 DEF Sound, Saved, GrabRecords
    <2> HIDE DEF r
    <2>3. Held(r.masks, conn) = {}
      BY <2>1 DEF Held, Restored
    <2>4. People(r.masks, conn, a, r.waiters)
      BY <2>1, NoneNoClient DEF Sound, People, Restored
    <2>5. Live(r.masks, conn, a, r.waiters, devs)
      BY <2>1, <2>2, <2>3 DEF Live, Restored
    <2>6. Saved(r.masks, conn, a, devs)
      BY <2>1 DEF Saved, Restored
    <2>7. Marked(r.masks, conn, a, r.waiters, buf)
      BY <2>1, <2>3 DEF Sound, Marked, Restored
    <2> QED
      BY <2>1, <2>4, <2>5, <2>6, <2>7 DEF Sound, r, Restored
  <1> QED
    BY <1>1, <1>2

\* Sound sets hold back whom they should: Live says so.
LEMMA SoundHeldOut ==
    ASSUME NEW m \in Masks, NEW conn \in SUBSET Clients, NEW a, NEW w, NEW devs,
           NEW buf, Sound(m, conn, a, w, devs, buf)
    PROVE  HeldOut(m)
  BY DEF Sound, Live, Held, HeldOut, Free

\* A client that is closed down leaves all the sets, and the grab if it is its.
LEMMA ClosedSound ==
    ASSUME NEW s \in GrabRecords, NEW conn \in SUBSET Clients,
           NEW a \in SUBSET Clients, NEW devs \in SUBSET Devices,
           NEW buf \in [Clients -> Nat], NEW c \in conn,
           Sound(s.masks, conn, a, s.waiters, devs, buf)
    PROVE  LET r == Closed(s, c)
           IN  /\ Sound(r.masks, conn \ {c}, a \ {c}, r.waiters, devs,
                        [buf EXCEPT ![c] = 0])
               /\ s.masks.all \ {c} \subseteq r.masks.all
               /\ r.masks.impervious \subseteq s.masks.impervious
  <1> DEFINE m == s.masks
             u == IF m.grab = c THEN UngrabServer(s) ELSE s
             n == u.masks
             k == CloseDownFileDescriptor(n, c)
             live == [n EXCEPT !.sockets = @ \ {c}, !.all = @ \ {c},
                               !.input = @ \ {c}, !.impervious = @ \ {c}]
             r == Closed(s, c)
             buf2 == [buf EXCEPT ![c] = 0]
  <1>1. u \in GrabRecords
    <2>1. CASE m.grab = c
      BY <2>1, UngrabOK, SoundHeldOut DEF GrabRecords
    <2>2. CASE m.grab # c
      BY <2>2
    <2> QED
      BY <2>1, <2>2
  <1>2. r = [u EXCEPT !.masks = k, !.waiters = @ \ {c}]
    BY DEF Closed
  <1>3. r.masks = k /\ r.waiters = u.waiters \ {c}
    <2> HIDE DEF u, k, r
    <2> QED
      BY <1>1, <1>2 DEF GrabRecords
  <1>4. n \in Masks
    <2> HIDE DEF u
    <2> QED
      BY <1>1 DEF GrabRecords
  <1>5. k = IF n.grab = None THEN live
            ELSE [live EXCEPT !.savedSockets = @ \ {c}, !.savedAll = @ \ {c},
                              !.savedInput = @ \ {c}]
    BY DEF CloseDownFileDescriptor
  <1>u. /\ m.grab = c => u = UngrabServer(s)
        /\ m.grab # c => u = s
    OBVIOUS
  <1> HIDE DEF u
  <1>6. /\ live \in Masks
        /\ live.all = n.all \ {c} /\ live.sockets = n.sockets \ {c}
        /\ live.input = n.input \ {c} /\ live.impervious = n.impervious \ {c}
        /\ live.grab = n.grab /\ live.savedAll = n.savedAll
        /\ live.savedSockets = n.savedSockets /\ live.savedInput = n.savedInput
        /\ live.ignoredInput = n.ignoredInput
    <2> HIDE DEF n
    <2> QED
      BY <1>4 DEF Masks
  <1> HIDE DEF n, live
  <1>7. /\ k.all = n.all \ {c} /\ k.sockets = n.sockets \ {c}
        /\ k.input = n.input \ {c} /\ k.impervious = n.impervious \ {c}
        /\ k.grab = n.grab /\ k.ignoredInput = n.ignoredInput
        /\ n.grab # None => /\ k.savedAll = n.savedAll \ {c}
                            /\ k.savedSockets = n.savedSockets \ {c}
                            /\ k.savedInput = n.savedInput \ {c}
    <2> HIDE DEF k
    <2> QED
      BY <1>5, <1>6 DEF Masks
  <1> HIDE DEF k, r, buf2
  <1>8. c \in Clients /\ c # None /\ c \notin devs \cup WellKnown
    BY SocketAssumption, NoneNoClient
  <1>9. /\ \A d \in conn \ {c} : buf2[d] = buf[d]
    BY DEF buf2
  <1>10. CASE m.grab = c
    <2>a. s.masks.grab # None
      BY <1>8, <1>10
    <2>b. Restored(s.masks, UngrabServer(s), conn, a, devs, buf)
      BY <2>a, UngrabRestores
    <2>1. Restored(m, u, conn, a, devs, buf)
      BY <1>10, <1>u, <2>b
    <2>2. /\ n.grab = None /\ u.waiters = {} /\ n.all = (conn \ a) \cup {c}
          /\ n.sockets = n.all \cup devs \cup WellKnown
          /\ n.input \subseteq n.all /\ n.impervious = m.impervious
          /\ n.ignoredInput = m.ignoredInput /\ m.all \subseteq n.all
          /\ \A d \in conn \ a : buf[d] > 0 => d \in n.input
      BY <1>10, <2>1 DEF Restored, n
    <2>3. Held(k, conn \ {c}) = {}
      BY <1>7, <2>2 DEF Held
    <2>4. People(k, conn \ {c}, a \ {c}, r.waiters)
      BY <1>3, <1>7, <2>2, NoneNoClient DEF Sound, People
    <2>5. Live(k, conn \ {c}, a \ {c}, r.waiters, devs)
      <3>1. r.waiters = {}
        BY <1>3, <2>2
      <3>2. k.all = (conn \ {c}) \ ((a \ {c}) \cup r.waiters \cup Held(k, conn \ {c}))
        BY <1>7, <2>2, <2>3, <3>1
      <3>3. k.sockets = k.all \cup devs \cup WellKnown
        BY <1>7, <1>8, <2>2
      <3>4. k.input \subseteq k.all
        BY <1>7, <2>2
      <3> QED
        BY <3>2, <3>3, <3>4 DEF Live
    <2>6. Saved(k, conn \ {c}, a \ {c}, devs)
      BY <1>7, <2>2 DEF Saved
    <2>7. Marked(k, conn \ {c}, a \ {c}, r.waiters, buf2)
      <3> SUFFICES ASSUME NEW d \in conn \ {c}, buf2[d] > 0
                   PROVE  d \in (IF d \in (a \ {c}) \cup r.waiters THEN k.ignoredInput
                           ELSE IF d \in Held(k, conn \ {c}) THEN k.savedInput
                           ELSE k.input)
        BY DEF Marked
      <3>1. buf[d] > 0 /\ d \notin r.waiters
        BY <1>3, <1>9, <2>2
      <3>2. CASE d \in a
        BY <1>7, <2>2, <3>1, <3>2 DEF Sound, Marked
      <3>3. CASE d \notin a
        BY <1>7, <2>2, <2>3, <3>1, <3>3
      <3> QED
        BY <3>2, <3>3
    <2> QED
      BY <1>3, <1>7, <2>2, <2>4, <2>5, <2>6, <2>7 DEF Sound, r, buf2
  <1>11. CASE m.grab # c
    <2>1. n = m /\ u.waiters = s.waiters
      BY <1>11, <1>u DEF n
    <2>3. Held(k, conn \ {c}) = Held(m, conn) \ {c}
      BY <1>7, <2>1 DEF Held
    <2>4. People(k, conn \ {c}, a \ {c}, r.waiters)
      BY <1>3, <1>7, <2>1 DEF Sound, People
    <2>5. Live(k, conn \ {c}, a \ {c}, r.waiters, devs)
      <3>1. m.all = conn \ (a \cup s.waiters \cup Held(m, conn))
        BY DEF Sound, Live
      <3>2. k.all = (conn \ {c}) \ ((a \ {c}) \cup r.waiters \cup Held(k, conn \ {c}))
        BY <1>3, <1>7, <2>1, <2>3, <3>1
      <3>3. k.sockets = k.all \cup devs \cup WellKnown
        BY <1>7, <1>8, <2>1 DEF Sound, Live
      <3> QED
        BY <1>7, <2>1, <3>2, <3>3 DEF Sound, Live
    <2>6. Saved(k, conn \ {c}, a \ {c}, devs)
      <3> SUFFICES ASSUME k.grab # None
                   PROVE  /\ k.grab \in conn \ {c}
                          /\ k.savedAll = ((conn \ {c}) \ (a \ {c})) \cup {k.grab}
                          /\ k.savedSockets = k.savedAll \cup devs \cup WellKnown
                          /\ k.savedInput \subseteq k.savedAll
        BY DEF Saved
      <3>1. /\ m.grab \in conn /\ m.savedAll = (conn \ a) \cup {m.grab}
            /\ m.savedSockets = m.savedAll \cup devs \cup WellKnown
            /\ m.savedInput \subseteq m.savedAll
        BY <1>7, <2>1 DEF Sound, Saved
      <3>2. /\ k.grab = m.grab /\ k.savedAll = m.savedAll \ {c}
            /\ k.savedSockets = m.savedSockets \ {c}
            /\ k.savedInput = m.savedInput \ {c}
        BY <1>7, <2>1
      <3> QED
        BY <1>8, <1>11, <3>1, <3>2
    <2>7. Marked(k, conn \ {c}, a \ {c}, r.waiters, buf2)
      <3> SUFFICES ASSUME NEW d \in conn \ {c}, buf2[d] > 0
                   PROVE  d \in (IF d \in (a \ {c}) \cup r.waiters THEN k.ignoredInput
                           ELSE IF d \in Held(k, conn \ {c}) THEN k.savedInput
                           ELSE k.input)
        BY DEF Marked
      <3>1. d \in (IF d \in a \cup s.waiters THEN m.ignoredInput
                   ELSE IF d \in Held(m, conn) THEN m.savedInput ELSE m.input)
        BY <1>9 DEF Sound, Marked
      <3>2. Held(m, conn) # {} => k.savedInput = m.savedInput \ {c}
        BY <1>7, <2>1 DEF Held
      <3> QED
        BY <1>3, <1>7, <2>1, <2>3, <3>1, <3>2
    <2> QED
      BY <1>3, <1>7, <2>1, <2>4, <2>5, <2>6, <2>7 DEF Sound, r, buf2
  <1> QED
    BY <1>10, <1>11

\* Who connects is listened to, or will be.
LEMMA AllocSound ==
    ASSUME NEW m \in Masks, NEW conn \in SUBSET Clients, NEW a \in SUBSET Clients,
           NEW w \in SUBSET Clients, NEW devs \in SUBSET Devices,
           NEW buf \in [Clients -> Nat], NEW c \in Clients \ conn, buf[c] = 0,
           Sound(m, conn, a, w, devs, buf)
    PROVE  LET r == AllocNewConnection(m, c)
           IN  /\ Sound(r, conn \cup {c}, a, w, devs, buf)
               /\ r.impervious = m.impervious
  <1> DEFINE r == AllocNewConnection(m, c)
  <1>1. c \notin a /\ c \notin w /\ c \notin m.impervious
    BY DEF Sound, People
  <1>2. CASE m.grab = None
    <2>1. r = [m EXCEPT !.all = @ \cup {c}, !.sockets = @ \cup {c}]
      BY <1>2 DEF AllocNewConnection
    <2>2. /\ r.all = m.all \cup {c} /\ r.sockets = m.sockets \cup {c}
          /\ r.input = m.input /\ r.grab = m.grab /\ r.impervious = m.impervious
          /\ r.savedInput = m.savedInput /\ r.ignoredInput = m.ignoredInput
      BY <2>1 DEF Masks
    <2> HIDE DEF r
    <2>3. Held(r, conn \cup {c}) = {} /\ Held(m, conn) = {}
      BY <1>2, <2>2 DEF Held
    <2>4. People(r, conn \cup {c}, a, w) /\ Saved(r, conn \cup {c}, a, devs)
      BY <1>2, <2>2 DEF Sound, People, Saved
    <2>5. Live(r, conn \cup {c}, a, w, devs)
      <3>1. /\ m.all = conn \ (a \cup w \cup Held(m, conn))
            /\ m.sockets = m.all \cup devs \cup WellKnown
            /\ m.input \subseteq m.all
        BY DEF Sound, Live
      <3>2. r.all = (conn \cup {c}) \ (a \cup w \cup Held(r, conn \cup {c}))
        BY <1>1, <2>2, <2>3, <3>1
      <3>3. r.sockets = r.all \cup devs \cup WellKnown
        BY <2>2, <3>1
      <3> QED
        BY <2>2, <3>1, <3>2, <3>3 DEF Live
    <2>6. Marked(r, conn \cup {c}, a, w, buf)
      BY <2>2, <2>3 DEF Sound, Marked
    <2> QED
      BY <2>2, <2>4, <2>5, <2>6 DEF Sound, r
  <1>3. CASE m.grab # None
    <2>1. r = [m EXCEPT !.savedAll = @ \cup {c}, !.savedSockets = @ \cup {c}]
      BY <1>3 DEF AllocNewConnection
    <2>2. /\ r.all = m.all /\ r.sockets = m.sockets
          /\ r.input = m.input /\ r.grab = m.grab /\ r.impervious = m.impervious
          /\ r.savedAll = m.savedAll \cup {c}
          /\ r.savedSockets = m.savedSockets \cup {c}
          /\ r.savedInput = m.savedInput /\ r.ignoredInput = m.ignoredInput
      BY <2>1 DEF Masks
    <2> HIDE DEF r
    <2>3. Held(r, conn \cup {c}) = Held(m, conn) \cup {c}
      BY <1>1, <1>3, <2>2 DEF Held, Sound, Saved
    <2>4. People(r, conn \cup {c}, a, w) /\ Saved(r, conn \cup {c}, a, devs)
      BY <1>1, <1>3, <2>2 DEF Sound, People, Saved
    <2>5. Live(r, conn \cup {c}, a, w, devs)
      <3>1. /\ m.all = conn \ (a \cup w \cup Held(m, conn))
            /\ m.sockets = m.all \cup devs \cup WellKnown
            /\ m.input \subseteq m.all
        BY DEF Sound, Live
      <3>2. r.all = (conn \cup {c}) \ (a \cup w \cup Held(r, conn \cup {c}))
        BY <1>1, <2>2, <2>3, <3>1
      <3>3. r.sockets = r.all \cup devs \cup WellKnown
        BY <2>2, <3>1
      <3> QED
        BY <2>2, <3>1, <3>2, <3>3 DEF Live
    <2>6. Marked(r, conn \cup {c}, a, w, buf)
      BY <2>2, <2>3 DEF Sound, Marked
    <2> QED
      BY <2>2, <2>4, <2>5, <2>6 DEF Sound, r
  <1> QED
    BY <1>2, <1>3

LEMMA ImperviousSound ==
    ASSUME NEW m \in Masks, NEW conn \in SUBSET Clients, NEW a \in SUBSET Clients,
           NEW w \in SUBSET Clients, NEW devs \in SUBSET Devices,
           NEW buf \in [Clients -> Nat], NEW c \in m.all,
           a = {}, m.impervious \subseteq {c},
           Sound(m, conn, a, w, devs, buf)
    PROVE  Sound(MakeClientGrabImpervious(m, c), conn, a, w, devs, buf)
  <1> DEFINE r == MakeClientGrabImpervious(m, c)
  <1>1. /\ r.all = m.all /\ r.sockets = m.sockets
        /\ r.input = m.input /\ r.grab = m.grab
        /\ r.impervious = m.impervious \cup {c}
        /\ r.savedAll = m.savedAll /\ r.savedSockets = m.savedSockets
        /\ r.savedInput = m.savedInput /\ r.ignoredInput = m.ignoredInput
    BY DEF MakeClientGrabImpervious, Masks
  <1>2. c \in conn /\ c \notin Held(m, conn)
    BY DEF Sound, Live
  <1> HIDE DEF r
  <1>3. Held(r, conn) = Held(m, conn)
    BY <1>1, <1>2 DEF Held
  <1>4. People(r, conn, a, w)
    BY <1>1, <1>2 DEF Sound, People
  <1>5. Live(r, conn, a, w, devs) /\ Saved(r, conn, a, devs)
        /\ Marked(r, conn, a, w, buf)
    BY <1>1, <1>3 DEF Sound, Live, Saved, Marked
  <1> QED
    BY <1>1, <1>4, <1>5 DEF Sound, r

LEMMA PerviousSound ==
    ASSUME NEW m \in Masks, NEW conn \in SUBSET Clients, NEW a \in SUBSET Clients,
           NEW w \in SUBSET Clients, NEW devs \in SUBSET Devices,
           NEW buf \in [Clients -> Nat], NEW c \in m.all,
           Sound(m, conn, a, w, devs, buf)
    PROVE  LET r == MakeClientGrabPervious(m, c)
           IN  /\ Sound(r, conn, a, w, devs, buf)
               /\ r.impervious \subseteq m.impervious
               /\ m.grab \in {None, c} => r.all = m.all
  <1> DEFINE r == MakeClientGrabPervious(m, c)
  <1>1. c \in conn /\ c \notin a /\ c \notin w /\ c \notin Held(m, conn) /\ c \in Clients
    BY DEF Sound, Live
  <1>2. CASE m.grab \in {None, c}
    <2>1. r = [m EXCEPT !.impervious = @ \ {c}]
      BY <1>2 DEF MakeClientGrabPervious
    <2>2. /\ r.all = m.all /\ r.sockets = m.sockets
          /\ r.input = m.input /\ r.grab = m.grab
          /\ r.impervious = m.impervious \ {c}
          /\ r.savedAll = m.savedAll /\ r.savedSockets = m.savedSockets
          /\ r.savedInput = m.savedInput /\ r.ignoredInput = m.ignoredInput
      BY <2>1 DEF Masks
    <2> HIDE DEF r
    <2>3. Held(r, conn) = Held(m, conn)
      BY <1>2, <2>2 DEF Held
    <2>4. People(r, conn, a, w)
      BY <1>1, <2>2 DEF Sound, People
    <2>5. Live(r, conn, a, w, devs) /\ Saved(r, conn, a, devs)
          /\ Marked(r, conn, a, w, buf)
      BY <2>2, <2>3 DEF Sound, Live, Saved, Marked
    <2> QED
      BY <2>2, <2>4, <2>5 DEF Sound, r
  <1>3. CASE m.grab \notin {None, c}
    <2>1. r = [m EXCEPT !.impervious = @ \ {c},
                   !.savedInput = IF c \in m.input THEN @ \cup {c} ELSE @,
                   !.input = @ \ {c}, !.sockets = @ \ {c}, !.all = @ \ {c}]
      BY <1>3 DEF MakeClientGrabPervious
    <2>2. /\ r.all = m.all \ {c} /\ r.sockets = m.sockets \ {c}
          /\ r.input = m.input \ {c} /\ r.grab = m.grab
          /\ r.impervious = m.impervious \ {c}
          /\ r.savedAll = m.savedAll /\ r.savedSockets = m.savedSockets
          /\ r.savedInput = (IF c \in m.input THEN m.savedInput \cup {c}
                             ELSE m.savedInput)
          /\ r.ignoredInput = m.ignoredInput
      BY <2>1 DEF Masks
    <2> HIDE DEF r
    <2>3. Held(r, conn) = Held(m, conn) \cup {c}
      BY <1>1, <1>3, <2>2 DEF Held
    <2>4. People(r, conn, a, w)
      BY <1>1, <2>2 DEF Sound, People
    <2>5. Live(r, conn, a, w, devs)
      <3>1. c \notin devs \cup WellKnown
        BY <1>1, SocketAssumption
      <3>2. r.all = conn \ (a \cup w \cup Held(r, conn))
        BY <2>2, <2>3 DEF Sound, Live
      <3>3. r.sockets = r.all \cup devs \cup WellKnown
        BY <2>2, <3>1 DEF Sound, Live
      <3> QED
        BY <2>2, <3>2, <3>3 DEF Sound, Live
    <2>6. Saved(r, conn, a, devs)
      BY <1>1, <1>3, <2>2 DEF Sound, Saved
    <2>7. Marked(r, conn, a, w, buf)
      <3> SUFFICES ASSUME NEW d \in conn, buf[d] > 0
                   PROVE  d \in (IF d \in a \cup w THEN r.ignoredInput
                           ELSE IF d \in Held(r, conn) THEN r.savedInput ELSE r.input)
        BY DEF Marked
      <3>1. d \in (IF d \in a \cup w THEN m.ignoredInput
                   ELSE IF d \in Held(m, conn) THEN m.savedInput ELSE m.input)
        BY DEF Sound, Marked
      <3> QED
        BY <1>1, <2>2, <2>3, <3>1
    <2> QED
      BY <1>3, <2>2, <2>4, <2>5, <2>6, <2>7 DEF Sound, r
  <1> QED
    BY <1>2, <1>3

\* The mark of whoever is served follows what is left in its buffer.
LEMMA InputMarkedSound ==
    ASSUME NEW m \in Masks, NEW conn \in SUBSET Clients, NEW a \in SUBSET Clients,
           NEW w \in SUBSET Clients, NEW devs \in SUBSET Devices,
           NEW buf \in [Clients -> Nat], NEW buf2 \in [Clients -> Nat],
           NEW c \in m.all, \A d \in Clients \ {c} : buf2[d] = buf[d],
           Sound(m, conn, a, w, devs, buf)
    PROVE  LET r == InputMarked(m, c, buf2[c])
           IN  /\ Sound(r, conn, a, w, devs, buf2)
               /\ r.impervious = m.impervious /\ r.all = m.all
  <1> DEFINE r == InputMarked(m, c, buf2[c])
  <1>1. c \in conn /\ c \notin a \cup w /\ c \notin Held(m, conn)
    BY DEF Sound, Live
  <1>2. /\ r.all = m.all /\ r.sockets = m.sockets
        /\ r.input = Mark(m.input, c, buf2[c] > 0) /\ r.grab = m.grab
        /\ r.impervious = m.impervious
        /\ r.savedAll = m.savedAll /\ r.savedSockets = m.savedSockets
        /\ r.savedInput = m.savedInput /\ r.ignoredInput = m.ignoredInput
    BY DEF InputMarked, Masks
  <1> HIDE DEF r
  <1>3. Held(r, conn) = Held(m, conn)
    BY <1>2 DEF Held
  <1>4. People(r, conn, a, w) /\ Saved(r, conn, a, devs)
    BY <1>2 DEF Sound, People, Saved
  <1>5. Live(r, conn, a, w, devs)
    BY <1>2, <1>3 DEF Sound, Live, Mark
  <1>6. Marked(r, conn, a, w, buf2)
    <2> SUFFICES ASSUME NEW d \in conn, buf2[d] > 0
                 PROVE  d \in (IF d \in a \cup w THEN r.ignoredInput
                         ELSE IF d \in Held(r, conn) THEN r.savedInput ELSE r.input)
      BY DEF Marked
    <2>1. CASE d = c
      BY <1>1, <1>2, <1>3, <2>1 DEF Mark
    <2>2. CASE d # c
      <3>1. d \in (IF d \in a \cup w THEN m.ignoredInput
                   ELSE IF d \in Held(m, conn) THEN m.savedInput ELSE m.input)
        BY <2>2 DEF Sound, Marked
      <3> QED
        BY <1>2, <1>3, <2>2, <3>1 DEF Mark
    <2> QED
      BY <2>1, <2>2
  <1> QED
    BY <1>2, <1>4, <1>5, <1>6 DEF Sound, r

\* Devices come and go beside the clients, also during a grab.
LEMMA DeviceSound ==
    ASSUME NEW m \in Masks, NEW conn \in SUBSET Clients, NEW a \in SUBSET Clients,
           NEW w \in SUBSET Clients, NEW devs \in SUBSET Devices,
           NEW buf \in [Clients -> Nat], NEW fd \in Devices,
           Sound(m, conn, a, w, devs, buf)
    PROVE  /\ Sound(AddGeneralSocket(m, fd), conn, a, w, devs \cup {fd}, buf)
           /\ Sound(RemoveGeneralSocket(m, fd), conn, a, w, devs \ {fd}, buf)
  <1>1. m.all \subseteq Clients /\ fd \notin Clients /\ fd \notin WellKnown
        /\ m.savedAll \subseteq Clients
    BY MasksParts, SocketAssumption
  <1>2. Sound(AddGeneralSocket(m, fd), conn, a, w, devs \cup {fd}, buf)
    <2> DEFINE r == AddGeneralSocket(m, fd)
    <2>1. /\ r.all = m.all /\ r.sockets = m.sockets \cup {fd}
          /\ r.input = m.input /\ r.grab = m.grab /\ r.impervious = m.impervious
          /\ r.savedAll = m.savedAll
          /\ m.grab # None => r.savedSockets = m.savedSockets \cup {fd}
          /\ r.savedInput = m.savedInput /\ r.ignoredInput = m.ignoredInput
      BY DEF AddGeneralSocket, Masks
    <2> HIDE DEF r
    <2>2. Held(r, conn) = Held(m, conn)
      BY <2>1 DEF Held
    <2>3. People(r, conn, a, w) /\ Marked(r, conn, a, w, buf)
      BY <2>1, <2>2 DEF Sound, People, Marked
    <2>4. Live(r, conn, a, w, devs \cup {fd}) /\ Saved(r, conn, a, devs \cup {fd})
      BY <2>1, <2>2 DEF Sound, Live, Saved
    <2> QED
      BY <2>1, <2>3, <2>4 DEF Sound, r
  <1>3. Sound(RemoveGeneralSocket(m, fd), conn, a, w, devs \ {fd}, buf)
    <2> DEFINE r == RemoveGeneralSocket(m, fd)
    <2>1. /\ r.all = m.all /\ r.sockets = m.sockets \ {fd}
          /\ r.input = m.input /\ r.grab = m.grab /\ r.impervious = m.impervious
          /\ r.savedAll = m.savedAll
          /\ m.grab # None => r.savedSockets = m.savedSockets \ {fd}
          /\ r.savedInput = m.savedInput /\ r.ignoredInput = m.ignoredInput
      BY DEF RemoveGeneralSocket, Masks
    <2> HIDE DEF r
    <2>2. Held(r, conn) = Held(m, conn)
      BY <2>1 DEF Held
    <2>3. People(r, conn, a, w) /\ Marked(r, conn, a, w, buf)
      BY <2>1, <2>2 DEF Sound, People, Marked
    <2>4. Live(r, conn, a, w, devs \ {fd}) /\ Saved(r, conn, a, devs \ {fd})
      BY <1>1, <2>1, <2>2 DEF Sound, Live, Saved
    <2> QED
      BY <2>1, <2>3, <2>4 DEF Sound, r
  <1> QED
    BY <1>2, <1>3

\* Only GrabControl and the end of a client change who is impervious.
LEMMA KeepsImpervious ==
    ASSUME NEW m \in Masks, NEW c
    PROVE  /\ IgnoreClient(m, c).impervious = m.impervious
           /\ ResetCurrentRequest(m, c).impervious = m.impervious
           /\ IgnoreClient(ResetCurrentRequest(m, c), c).impervious = m.impervious
           /\ ResetCurrentRequest(IgnoreClient(m, c), c).impervious = m.impervious
           /\ AttendClient(m, c).impervious = m.impervious
           /\ OnlyListenToOneClient(m, c).impervious = m.impervious
  <1>1. /\ IgnoreClient(m, c).impervious = m.impervious
        /\ ResetCurrentRequest(m, c).impervious = m.impervious
        /\ AttendClient(m, c).impervious = m.impervious
        /\ OnlyListenToOneClient(m, c).impervious = m.impervious
    BY DEF IgnoreClient, ResetCurrentRequest, AttendClient, OnlyListenToOneClient, Masks
  <1>2. IgnoreClient(ResetCurrentRequest(m, c), c).impervious = m.impervious
    BY DEF IgnoreClient, ResetCurrentRequest, Masks
  <1>3. ResetCurrentRequest(IgnoreClient(m, c), c).impervious = m.impervious
    BY DEF IgnoreClient, ResetCurrentRequest, Masks
  <1> QED
    BY <1>1, <1>2, <1>3

-----------------------------------------------------------------------------
\* What a request leaves: `buf' is what is in the buffers when it is executed,
\* `buf2' when it is done and may have been put back.
LEMMA OutcomesSound ==
    ASSUME IInv, LInv, Apart, NEW s \in GrabRecords, NEW c \in s.masks.all,
           NEW buf \in [Clients -> Nat], NEW buf2 \in [Clients -> Nat],
           Sound(s.masks, connected, asleep, s.waiters, EnabledDevices, buf),
           s.masks.impervious = masks.impervious,
           NEW kind \in KindsOf(c), NEW r \in Outcomes(s, c, kind),
           \A d \in Clients \ {c} : buf2[d] = buf[d],
           r.again = "none" => buf2 = buf
    PROVE  /\ Sound(r.s.masks, connected, r.asleep, r.s.waiters, EnabledDevices, buf2)
           /\ r.s.masks.impervious \subseteq role.testers
           /\ r.asleep \subseteq role.sleepers
           /\ r.again \in {"none", "grab", "plain"}
           /\ ~ r.yield => c \in r.s.masks.all
  <1> DEFINE m == s.masks
             w == s.waiters
             devs == EnabledDevices
  <1>m. m \in Masks /\ w \in SUBSET Clients
    BY DEF GrabRecords
  <1>t. /\ connected \in SUBSET Clients /\ asleep \in SUBSET Clients
        /\ devs \in SUBSET Devices /\ role \in Roles
    BY DEF IInv, TypeOK
  <1>c. /\ c \in Clients /\ c \in connected /\ c \notin asleep
    BY <1>m, MasksParts DEF Sound, Live
  <1>r. /\ role.testers = {} \/ role.sleepers = {}
        /\ \A x, y \in role.testers : x = y
        /\ m.impervious \subseteq role.testers /\ asleep \subseteq role.sleepers
    BY <1>t DEF Apart, LInv
  <1>k. /\ kind \in {"await", "delay"} => c \in role.sleepers
        /\ kind \in {"impervious", "pervious"} => c \in role.testers
    BY <1>c DEF KindsOf, LInv
  <1>1. CASE kind = "plain"
    <2>1. r = Did(s, asleep, "none", FALSE)
      BY <1>1 DEF Outcomes
    <2> QED
      BY <1>r, <2>1 DEF Did
  <1>2. CASE kind = "grab"
    <2>1. r = ProcGrabServer(s, c)
      BY <1>2 DEF Outcomes
    <2>2. CASE m.grab \notin {None, c}
      <3> DEFINE n == IgnoreClient(ResetCurrentRequest(m, c), c)
      <3>1. Sound(n, connected, asleep, w \cup {c}, devs, buf2)
        BY <1>m, <1>t, <2>2, WaitSound
      <3>2. n.impervious = m.impervious
        BY <1>m, KeepsImpervious
      <3>3. r = Did([s EXCEPT !.masks = n, !.waiters = @ \cup {c}],
                    asleep, "grab", TRUE)
        BY <2>1, <2>2 DEF ProcGrabServer
      <3> HIDE DEF n
      <3>4. /\ r.s.masks = n /\ r.s.waiters = w \cup {c} /\ r.asleep = asleep
            /\ r.again = "grab" /\ r.yield = TRUE
        BY <3>3 DEF Did, GrabRecords
      <3> QED
        BY <1>r, <3>1, <3>2, <3>4
    <2>3. CASE m.grab \in {None, c}
      <3> DEFINE n == OnlyListenToOneClient(m, c)
      <3>1. Sound(n, connected, asleep, w, devs, buf) /\ c \in n.all
        BY <1>m, <1>t, <2>3, GrabSound
      <3>2. n.impervious = m.impervious
        BY <1>m, KeepsImpervious
      <3>3. r = Did([s EXCEPT !.masks = n, !.state = "GrabKickout"],
                    asleep, "none", FALSE)
        BY <2>1, <2>3 DEF ProcGrabServer
      <3> HIDE DEF n
      <3>4. /\ r.s.masks = n /\ r.s.waiters = w /\ r.asleep = asleep
            /\ r.again = "none" /\ r.yield = FALSE
        BY <3>3 DEF Did, GrabRecords
      <3> QED
        BY <1>r, <3>1, <3>2, <3>4
    <2> QED
      BY <2>2, <2>3
  <1>3. CASE kind = "ungrab"
    <2>1. r = Did(UngrabServer(s), asleep, "none", FALSE)
      BY <1>3 DEF Outcomes
    <2>2. m.grab \notin asleep
      <3> SUFFICES ASSUME m.grab \in asleep PROVE FALSE
        OBVIOUS
      <3>1. m.impervious = {} /\ m.grab # None
        BY <1>t, NoneNoClient DEF Sound, People
      <3>2. c = m.grab
        BY <1>c, <3>1 DEF Sound, Live, Held
      <3> QED
        BY <1>c, <3>2
    <2> DEFINE u == UngrabServer(s)
    <2>3. /\ Sound(u.masks, connected, asleep, u.waiters, devs, buf)
          /\ m.all \subseteq u.masks.all /\ u.masks.impervious = m.impervious
      BY <1>t, <2>2, UngrabSound
    <2> HIDE DEF u
    <2>4. r.s = u /\ r.asleep = asleep /\ r.again = "none" /\ r.yield = FALSE
      BY <2>1 DEF Did, u
    <2> QED
      BY <1>r, <2>3, <2>4
  <1>4. CASE kind = "await"
    <2> DEFINE n == IgnoreClient(m, c)
    <2>1. m.impervious = {}
      BY <1>4, <1>k, <1>r
    <2>2. Sound(n, connected, asleep \cup {c}, w, devs, buf)
      BY <1>m, <1>t, <2>1, SleepSound
    <2>3. n.impervious = m.impervious
      BY <1>m, KeepsImpervious
    <2>4. r = Did([s EXCEPT !.masks = n], asleep \cup {c}, "none", TRUE)
      BY <1>4 DEF Outcomes, SyncAwait
    <2> HIDE DEF n
    <2>5. /\ r.s.masks = n /\ r.s.waiters = w /\ r.asleep = asleep \cup {c}
          /\ r.again = "none" /\ r.yield = TRUE
      BY <2>4 DEF Did, GrabRecords
    <2> QED
      BY <1>4, <1>k, <1>r, <2>2, <2>3, <2>5
  <1>5. CASE kind = "delay"
    <2> DEFINE i == IgnoreClient(m, c)
               n == ResetCurrentRequest(i, c)
    <2>1. m.impervious = {}
      BY <1>5, <1>k, <1>r
    <2>2. Sound(i, connected, asleep \cup {c}, w, devs, buf) /\ i \in Masks
      BY <1>m, <1>t, <1>c, <2>1, SleepSound, IgnoreOK, SoundHeldOut
    <2>3. Sound(n, connected, asleep \cup {c}, w, devs, buf2)
      <3>1. asleep \cup {c} \in SUBSET Clients /\ c \in asleep \cup {c}
        BY <1>t, <1>c
      <3> HIDE DEF i
      <3> QED
        BY <1>m, <1>t, <2>2, <3>1, PutBackSound
    <2>4. n.impervious = m.impervious
      BY <1>m, KeepsImpervious
    <2>5. r = Did([s EXCEPT !.masks = n], asleep \cup {c}, "plain", TRUE)
      BY <1>5 DEF Outcomes, FakeInputDelay
    <2> HIDE DEF n
    <2>6. /\ r.s.masks = n /\ r.s.waiters = w /\ r.asleep = asleep \cup {c}
          /\ r.again = "plain" /\ r.yield = TRUE
      BY <2>5 DEF Did, GrabRecords
    <2> QED
      BY <1>5, <1>k, <1>r, <2>3, <2>4, <2>6
  <1>6. CASE kind = "trigger"
    <2>1. PICK d \in asleep :
             r = Did([s EXCEPT !.masks = AttendClient(@, d)], asleep \ {d},
                     "none", FALSE)
      BY <1>6 DEF Outcomes
    <2> DEFINE n == AttendClient(m, d)
    <2>2. Sound(n, connected, asleep \ {d}, w, devs, buf) /\ m.all \subseteq n.all
      BY <1>m, <1>t, AwakenSound
    <2>3. n.impervious = m.impervious
      BY <1>m, KeepsImpervious
    <2>4. r = Did([s EXCEPT !.masks = n], asleep \ {d}, "none", FALSE)
      BY <2>1
    <2> HIDE DEF n
    <2>5. /\ r.s.masks = n /\ r.s.waiters = w /\ r.asleep = asleep \ {d}
          /\ r.again = "none" /\ r.yield = FALSE
      BY <2>4 DEF Did, GrabRecords
    <2> QED
      BY <1>r, <2>2, <2>3, <2>5
  <1>7. CASE kind = "impervious"
    <2> DEFINE n == MakeClientGrabImpervious(m, c)
    <2>1. asleep = {} /\ m.impervious \subseteq {c}
      BY <1>7, <1>k, <1>r
    <2>3. /\ Sound(n, connected, asleep, w, devs, buf)
          /\ n.impervious = m.impervious \cup {c} /\ n.all = m.all
      <3>1. Sound(n, connected, asleep, w, devs, buf)
        BY <1>m, <1>t, <2>1, ImperviousSound
      <3>2. n.impervious = m.impervious \cup {c} /\ n.all = m.all
        BY <1>m DEF MakeClientGrabImpervious, Masks
      <3> QED
        BY <3>1, <3>2
    <2>4. r = Did([s EXCEPT !.masks = n], asleep, "none", FALSE)
      BY <1>7 DEF Outcomes, GrabControl
    <2> HIDE DEF n
    <2>5. /\ r.s.masks = n /\ r.s.waiters = w /\ r.asleep = asleep
          /\ r.again = "none" /\ r.yield = FALSE
      BY <2>4 DEF Did, GrabRecords
    <2> QED
      BY <1>7, <1>k, <1>r, <2>1, <2>3, <2>5
  <1>8. CASE kind = "pervious"
    <2> DEFINE n == MakeClientGrabPervious(m, c)
    <2>1. /\ Sound(n, connected, asleep, w, devs, buf)
          /\ n.impervious \subseteq m.impervious
          /\ m.grab \in {None, c} => n.all = m.all
      BY <1>m, <1>t, PerviousSound
    <2>2. r = Did([s EXCEPT !.masks = n], asleep, "none", m.grab \notin {None, c})
      BY <1>8 DEF Outcomes, GrabControl
    <2> HIDE DEF n
    <2>3. /\ r.s.masks = n /\ r.s.waiters = w /\ r.asleep = asleep
          /\ r.again = "none" /\ r.yield = (m.grab \notin {None, c})
      BY <2>2 DEF Did, GrabRecords
    <2> QED
      BY <1>r, <2>1, <2>3
  <1>9. CASE kind \notin {"plain", "grab", "ungrab", "await", "delay", "trigger",
                        "impervious", "pervious"}
    BY <1>9 DEF Outcomes
  <1> QED
    BY <1>1, <1>2, <1>3, <1>4, <1>5, <1>6, <1>7, <1>8, <1>9

-----------------------------------------------------------------------------
LEMMA LInitOK == Init => LInv
  <1> SUFFICES ASSUME Init PROVE LInv
    OBVIOUS
  <1>1. Held(masks, connected) = {}
    BY DEF Init, Held
  <1>2. Sound(masks, connected, asleep, grabWaiters, EnabledDevices, buffer)
    BY <1>1 DEF Init, Sound, People, Live, Saved, Marked
  <1> QED
    BY <1>2, NoneNoClient DEF Init, LInv

\* The state when the request of the client being served is executed.
LEMMA ServedSound ==
    ASSUME IInv, LInv, current # None, ~ NoRequest, NEW taken \in Reads
    PROVE  LET s == [Grabs EXCEPT !.masks =
                        InputMarked(@, current, buffer[current] + taken - 1)]
               buf == [buffer EXCEPT ![current] = @ + taken - 1]
           IN  /\ s \in GrabRecords /\ s.waiters = grabWaiters
               /\ current \in s.masks.all /\ s.masks.impervious = masks.impervious
               /\ buf \in [Clients -> Nat]
               /\ Sound(s.masks, connected, asleep, s.waiters, EnabledDevices, buf)
  <1> DEFINE c == current
             buf == [buffer EXCEPT ![c] = @ + taken - 1]
             n == InputMarked(masks, c, buffer[c] + taken - 1)
             s == [Grabs EXCEPT !.masks = InputMarked(@, c, buffer[c] + taken - 1)]
  <1>1. c \in masks.all /\ c \in Clients /\ masks \in Masks
    BY ReadsOK DEF LInv, IInv, TypeOK
  <1>2. buf \in [Clients -> Nat] /\ buf[c] = buffer[c] + taken - 1
        /\ \A d \in Clients \ {c} : buf[d] = buffer[d]
    BY <1>1, ReadsOK DEF IInv, TypeOK
  <1>3. s = [Grabs EXCEPT !.masks = n] /\ s \in GrabRecords
    <2>1. s \in GrabRecords
      BY MarkedOK
    <2> QED
      BY <2>1 DEF Grabs
  <1>t. /\ connected \in SUBSET Clients /\ asleep \in SUBSET Clients
        /\ grabWaiters \in SUBSET Clients /\ EnabledDevices \in SUBSET Devices
        /\ buffer \in [Clients -> Nat]
    BY DEF IInv, TypeOK
  <1>4. /\ Sound(n, connected, asleep, grabWaiters, EnabledDevices, buf)
        /\ n.impervious = masks.impervious /\ n.all = masks.all
    <2> HIDE DEF buf
    <2>1. Sound(masks, connected, asleep, grabWaiters, EnabledDevices, buffer)
      BY DEF LInv
    <2>2. n = InputMarked(masks, c, buf[c])
      BY <1>2
    <2> QED
      BY <1>1, <1>2, <1>t, <2>1, <2>2, InputMarkedSound
  <1> HIDE DEF n
  <1>5. s.masks = n /\ s.waiters = grabWaiters
    BY <1>3 DEF Grabs
  <1> HIDE DEF s, buf
  <1>6. /\ s \in GrabRecords /\ s.waiters = grabWaiters
        /\ c \in s.masks.all /\ s.masks.impervious = masks.impervious
        /\ buf \in [Clients -> Nat]
        /\ Sound(s.masks, connected, asleep, s.waiters, EnabledDevices, buf)
    BY <1>1, <1>2, <1>3, <1>4, <1>5
  <1> QED
    BY <1>6 DEF s, buf

LEMMA LRequest ==
    ASSUME IInv, LInv, Apart, NEW kind \in Kinds, Request(kind) PROVE LInv'
  <1> DEFINE c == current
  <1>1. current # None /\ ~ NoRequest /\ kind \in KindsOf(c)
    BY DEF Request
  <1>2. PICK taken \in Reads :
          \E r \in Outcomes([Grabs EXCEPT !.masks =
                               InputMarked(@, c, buffer[c] + taken - 1)], c, kind) :
            /\ SetGrabs(r.s)
            /\ asleep' = r.asleep
            /\ redo' = [redo EXCEPT ![c] = r.again]
            /\ buffer' = [buffer EXCEPT
                  ![c] = @ + taken - (IF r.again = "none" THEN 1 ELSE 0)]
            /\ socket' = [socket EXCEPT ![c] = @ - taken]
            /\ current' = IF r.yield THEN None ELSE c
    BY DEF Request
  <1> DEFINE s == [Grabs EXCEPT !.masks = InputMarked(@, c, buffer[c] + taken - 1)]
             buf == [buffer EXCEPT ![c] = @ + taken - 1]
  <1>3. PICK r \in Outcomes(s, c, kind) :
            /\ SetGrabs(r.s)
            /\ asleep' = r.asleep
            /\ redo' = [redo EXCEPT ![c] = r.again]
            /\ buffer' = [buffer EXCEPT
                  ![c] = @ + taken - (IF r.again = "none" THEN 1 ELSE 0)]
            /\ current' = IF r.yield THEN None ELSE c
    BY <1>2
  <1>4. /\ s \in GrabRecords /\ c \in s.masks.all
        /\ s.masks.impervious = masks.impervious /\ buf \in [Clients -> Nat]
        /\ Sound(s.masks, connected, asleep, s.waiters, EnabledDevices, buf)
    BY <1>1, ServedSound
  <1>5. c \in Clients /\ buffer \in [Clients -> Nat] /\ redo \in [Clients -> Kinds \cup {"none"}]
    BY <1>1, ReadsOK DEF IInv, TypeOK
  <1>6. /\ buffer' \in [Clients -> Nat] /\ \A d \in Clients \ {c} : buffer'[d] = buf[d]
        /\ r.again = "none" => buffer' = buf
    BY <1>1, <1>3, <1>5, ReadsOK
  <1>u. UNCHANGED <<connected, EnabledDevices, role>>
    BY DEF Request
  <1> HIDE DEF s
  <1>7. /\ Sound(r.s.masks, connected, r.asleep, r.s.waiters, EnabledDevices, buffer')
        /\ r.s.masks.impervious \subseteq role.testers
        /\ r.asleep \subseteq role.sleepers
        /\ r.again \in {"none", "grab", "plain"}
        /\ ~ r.yield => c \in r.s.masks.all
    <2> HIDE DEF buf
    <2>1. PICK b \in [Clients -> Nat] : b = buffer'
      BY <1>6
    <2>2. /\ \A d \in Clients \ {c} : b[d] = buf[d]
          /\ r.again = "none" => b = buf
      BY <1>6, <2>1
    <2>3. r \in Outcomes(s, c, kind) /\ kind \in KindsOf(c)
      BY <1>1, <1>3
    <2>4. /\ Sound(r.s.masks, connected, r.asleep, r.s.waiters, EnabledDevices, b)
          /\ r.s.masks.impervious \subseteq role.testers
          /\ r.asleep \subseteq role.sleepers
          /\ r.again \in {"none", "grab", "plain"}
          /\ ~ r.yield => c \in r.s.masks.all
      BY <1>4, <2>2, <2>3, OutcomesSound
    <2> QED
      BY <2>1, <2>4
  <1>8. c \in connected
    BY <1>4 DEF Sound, Live
  <1>9. \A d \in Clients \ connected : buffer'[d] = 0
    BY <1>5, <1>6, <1>8 DEF LInv
  <1>10. \A d \in Clients : redo'[d] \in {"none", "grab", "plain"}
    BY <1>3, <1>5, <1>7 DEF LInv
  <1> QED
    BY <1>3, <1>7, <1>9, <1>10, <1>u DEF LInv, SetGrabs

\* A client is closed down; `c' is who is served after that, or None.
LEMMA LCloseDown ==
    ASSUME IInv, LInv, NEW s \in GrabRecords, NEW d \in connected,
           NEW sock, NEW buf \in [Clients -> Nat],
           Sound(s.masks, connected, asleep, s.waiters, EnabledDevices, buf),
           s.masks.impervious = masks.impervious,
           \A e \in Clients \ connected : buf[e] = 0,
           CloseDownClient(s, sock, buf, d), UNCHANGED <<EnabledDevices, role>>,
           current' = None \/ current' \in s.masks.all \ {d}
    PROVE  LInv'
  <1> DEFINE r == Closed(s, d)
  <1>t. /\ connected \in SUBSET Clients /\ asleep \in SUBSET Clients
        /\ EnabledDevices \in SUBSET Devices /\ d \in Clients
        /\ redo \in [Clients -> Kinds \cup {"none"}]
    BY DEF IInv, TypeOK
  <1>1. /\ Sound(r.masks, connected \ {d}, asleep \ {d}, r.waiters, EnabledDevices,
                 [buf EXCEPT ![d] = 0])
        /\ s.masks.all \ {d} \subseteq r.masks.all
        /\ r.masks.impervious \subseteq s.masks.impervious
    BY <1>t, ClosedSound
  <1>2. /\ masks' = r.masks /\ grabWaiters' = r.waiters
        /\ connected' = connected \ {d} /\ asleep' = asleep \ {d}
        /\ buffer' = [buf EXCEPT ![d] = 0] /\ redo' = [redo EXCEPT ![d] = "none"]
    BY DEF CloseDownClient, SetGrabs
  <1> HIDE DEF r
  <1>3. Sound(masks, connected, asleep, grabWaiters, EnabledDevices, buffer)'
    BY <1>1, <1>2
  <1>4. masks'.impervious \subseteq (role').testers /\ asleep' \subseteq (role').sleepers
    BY <1>1, <1>2 DEF LInv
  <1>5. \A e \in Clients \ connected' : buffer'[e] = 0
    BY <1>2, <1>t
  <1>6. \A e \in Clients : redo'[e] \in {"none", "grab", "plain"}
    BY <1>2, <1>t DEF LInv
  <1>7. current' # None => current' \in masks'.all
    BY <1>1, <1>2
  <1> QED
    BY <1>3, <1>4, <1>5, <1>6, <1>7 DEF LInv

LEMMA LKill == ASSUME IInv, LInv, ProcKillClient PROVE LInv'
  <1> DEFINE c == current
  <1>1. current # None /\ ~ NoRequest
    BY DEF ProcKillClient
  <1>2. PICK taken \in Reads, d \in connected :
          /\ CloseDownClient(
                [Grabs EXCEPT !.masks = InputMarked(@, c, buffer[c] + taken - 1)],
                [socket EXCEPT ![c] = @ - taken],
                [buffer EXCEPT ![c] = @ + taken - 1], d)
          /\ current' = IF c = d THEN None ELSE c
    BY DEF ProcKillClient
  <1> DEFINE s == [Grabs EXCEPT !.masks = InputMarked(@, c, buffer[c] + taken - 1)]
             sock == [socket EXCEPT ![c] = @ - taken]
             buf == [buffer EXCEPT ![c] = @ + taken - 1]
  <1>3. /\ s \in GrabRecords /\ c \in s.masks.all
        /\ s.masks.impervious = masks.impervious /\ buf \in [Clients -> Nat]
        /\ Sound(s.masks, connected, asleep, s.waiters, EnabledDevices, buf)
    BY <1>1, ServedSound
  <1>4. c \in connected /\ c \in Clients
    BY <1>1, <1>3, ReadsOK DEF Sound, Live
  <1>5. \A e \in Clients \ connected : buf[e] = 0
    BY <1>4 DEF LInv, IInv, TypeOK
  <1>6. CloseDownClient(s, sock, buf, d)
    BY <1>2
  <1>7. UNCHANGED <<EnabledDevices, role>>
    BY DEF ProcKillClient
  <1>8. current' = None \/ current' \in s.masks.all \ {d}
    BY <1>2, <1>3
  <1> HIDE DEF s, sock, buf
  <1> QED
    BY <1>3, <1>5, <1>6, <1>7, <1>8, LCloseDown

\* A step that leaves who is served, the requests put back and the bounds.
LEMMA LBetween ==
    ASSUME IInv, LInv, current = None, UNCHANGED <<redo, current, role, buffer>>,
           Sound(masks, connected, asleep, grabWaiters, EnabledDevices, buffer)',
           masks'.impervious = masks.impervious, asleep' \subseteq asleep,
           connected \subseteq connected'
    PROVE  LInv'
  BY DEF LInv

LEMMA LNextOK == ASSUME IInv, LInv, Apart, [Next]_vars PROVE LInv'
  <1> DEFINE devs == EnabledDevices
  <1>t. /\ masks \in Masks /\ connected \in SUBSET Clients
        /\ asleep \in SUBSET Clients /\ grabWaiters \in SUBSET Clients
        /\ devs \in SUBSET Devices /\ buffer \in [Clients -> Nat]
        /\ socket \in [Clients -> Nat] /\ role \in Roles
        /\ current \in Clients \cup {None}
    BY DEF IInv, TypeOK
  <1>s. Sound(masks, connected, asleep, grabWaiters, devs, buffer)
    BY DEF LInv
  <1>1. CASE UNCHANGED vars
    BY <1>1 DEF vars, LInv
  <1>2. ASSUME NEW c \in Clients, ClientSends(c) \/ ClientHangsUp(c) PROVE LInv'
    BY <1>2 DEF ClientSends, ClientHangsUp, LInv
  <1>3. ASSUME NEW c \in Clients, EstablishNewConnections(c) PROVE LInv'
    <2> DEFINE n == AllocNewConnection(masks, c)
    <2>1. c \in Clients \ connected /\ buffer[c] = 0
      BY <1>3, <1>t, RoleAssumption DEF EstablishNewConnections, LInv
    <2>2. /\ Sound(n, connected \cup {c}, asleep, grabWaiters, devs, buffer)
          /\ n.impervious = masks.impervious
      BY <1>t, <1>s, <2>1, AllocSound
    <2> HIDE DEF n
    <2>3. masks' = n
      BY <1>3 DEF EstablishNewConnections, n
    <2> QED
      BY <1>3, <2>2, <2>3, LBetween DEF EstablishNewConnections
  <1>4. ASSUME NEW c \in Clients, Awaken(c) PROVE LInv'
    <2> DEFINE n == AttendClient(masks, c)
    <2>1. c \in asleep
      BY <1>4 DEF Awaken
    <2>2. /\ Sound(n, connected, asleep \ {c}, grabWaiters, devs, buffer)
          /\ n.impervious = masks.impervious
      BY <1>t, <1>s, <2>1, AwakenSound, KeepsImpervious
    <2> HIDE DEF n
    <2>3. masks' = n
      BY <1>4 DEF Awaken, n
    <2> QED
      BY <1>4, <2>2, <2>3, LBetween DEF Awaken
  <1>5. ASSUME NEW fd \in Devices, AddEnabledDevice(fd) PROVE LInv'
    <2> DEFINE n == AddGeneralSocket(masks, fd)
    <2>0. Sound(n, connected, asleep, grabWaiters, devs \cup {fd}, buffer)
      BY <1>5, <1>t, <1>s, DeviceSound
    <2>1. n.impervious = masks.impervious
      BY <1>t DEF AddGeneralSocket, Masks
    <2> HIDE DEF n
    <2>2. masks' = n
      BY <1>5 DEF AddEnabledDevice, n
    <2> QED
      BY <1>5, <2>0, <2>1, <2>2, LBetween DEF AddEnabledDevice
  <1>6. ASSUME NEW fd \in Devices, RemoveEnabledDevice(fd) PROVE LInv'
    <2> DEFINE n == RemoveGeneralSocket(masks, fd)
    <2>0. Sound(n, connected, asleep, grabWaiters, devs \ {fd}, buffer)
      BY <1>6, <1>t, <1>s, DeviceSound
    <2>1. n.impervious = masks.impervious
      BY <1>t DEF RemoveGeneralSocket, Masks
    <2> HIDE DEF n
    <2>2. masks' = n
      BY <1>6 DEF RemoveEnabledDevice, n
    <2> QED
      BY <1>6, <2>0, <2>1, <2>2, LBetween DEF RemoveEnabledDevice
  <1>7. CASE WaitForSomething
    <2>1. masks.input \subseteq masks.all
      BY <1>s DEF Sound, Live
    <2>2. current' \in masks.all \cup {None}
      BY <1>7, <2>1 DEF WaitForSomething, ClientsReadable
    <2> QED
      BY <1>7, <2>2 DEF WaitForSomething, LInv
  <1>8. CASE SliceEnds
    BY <1>8 DEF SliceEnds, LInv
  <1>9. CASE ReadNothing
    <2> DEFINE n == InputMarked(masks, current, buffer[current])
    <2>1. current \in masks.all /\ buffer[current] = 0
      BY <1>9 DEF ReadNothing, NoRequest, LInv
    <2>2. /\ Sound(n, connected, asleep, grabWaiters, devs, buffer)
          /\ n.impervious = masks.impervious
      BY <1>t, <1>s, <2>1, InputMarkedSound
    <2>3. masks' = n
      BY <1>9, <2>1 DEF ReadNothing, InputMarked, Mark
    <2> HIDE DEF n
    <2> QED
      BY <1>9, <2>2, <2>3 DEF ReadNothing, LInv
  <1>10. CASE ReadFails
    <2>1. /\ Grabs \in GrabRecords /\ Grabs.masks = masks
          /\ Grabs.waiters = grabWaiters
      BY GrabsOK DEF Grabs
    <2>2. current \in connected
      BY <1>10, <1>s DEF ReadFails, NoRequest, LInv, Sound, Live
    <2>3. \A e \in Clients \ connected : buffer[e] = 0
      BY DEF LInv
    <2> QED
      BY <1>10, <1>s, <1>t, <2>1, <2>2, <2>3, LCloseDown DEF ReadFails
  <1>11. ASSUME NEW kind \in Kinds, Request(kind) PROVE LInv'
    BY <1>11, LRequest
  <1>12. CASE ProcKillClient
    BY <1>12, LKill
  <1> QED
    BY <1>1, <1>2, <1>3, <1>4, <1>5, <1>6, <1>7, <1>8, <1>9, <1>10, <1>11, <1>12
       DEF Next

LEMMA LInvariance == ASSUME Apart PROVE Spec => []LInv
  <1>1. LInv /\ IInv /\ [Next]_vars => LInv'
    BY LNextOK
  <1> QED
    BY <1>1, LInitOK, Invariance, PTL DEF Spec

\* Whatever grabs, sleeps, wakes, closes and connects came before, the server
\* listens to every client that is neither ignored nor held back, and to no
\* other; provided that sleeping and imperviousness are apart.
THEOREM Listening == ASSUME Apart PROVE Spec => []Listened
  <1>1. LInv => Listened
    BY DEF LInv, Sound, Live, Listened, Ignored, HeldBack, Held
  <1> QED
    BY <1>1, LInvariance, PTL

\* A request that is complete in a buffer, or was put back there, is marked
\* in the set that applies to its client, whatever moved between the sets.
THEOREM NothingLost == ASSUME Apart PROVE Spec => []NothingForgotten
  <1>1. LInv => NothingForgotten
    BY DEF LInv, Sound, Marked, NothingForgotten, Ignored, HeldBack, Held
  <1> QED
    BY <1>1, LInvariance, PTL
=============================================================================
