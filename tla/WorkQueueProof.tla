--------------------------- MODULE WorkQueueProof ---------------------------
(***************************************************************************)
(* Proofs about WorkQueue, for any clients and any number of requests,     *)
(* answers and connections: the list behind the two walks is a queue, and  *)
(* who sleeps is woken up with what it slept on.                           *)
(*                                                                         *)
(* The invariant speaks of the nodes on the list as a sequence q, which    *)
(* the links determine (ListIsReached).  QueueWorkProc appends to it and   *)
(* a walk takes out of it (Appended, Taken); the rest of the invariant is  *)
(* about the set of nodes in use and the set of clients that sleep.        *)
(***************************************************************************)
EXTENDS MCWorkQueue, FiniteSetTheorems, SequenceTheorems, WellFoundedInduction, TLAPS

-----------------------------------------------------------------------------
(* The inductive invariant. *)

\* The link a walk stands at after i nodes of q, and what it leads to.
LinkAt(q, i) == IF i = 0 THEN workQueue ELSE q[i]
After(q, i) == IF i < Len(q) THEN q[i + 1] ELSE NULL

\* The links nxt lead through the nodes of q, each of them once.
IsList(q, nxt) ==
    /\ q \in Seq(Nodes)
    /\ \A i, j \in 1 .. Len(q) : q[i] = q[j] => i = j
    /\ \A i \in 0 .. Len(q) : nxt[LinkAt(q, i)] = After(q, i)

NodesOf(q) == {q[i] : i \in 1 .. Len(q)}

Types ==
    /\ work \in [Nodes -> [client : Clients \cup {NULL}, closure : 0 .. MaxSleeps]]
    /\ next \in [Links -> Nodes \cup {NULL}]
    /\ inUse \subseteq Nodes /\ workQueueLast \in Links
    /\ p = workQueue /\ zp \in Links
    /\ live \subseteq 1 .. MaxSleeps
    /\ ignored \subseteq Clients /\ suspended \subseteq Clients /\ marked \subseteq Clients
    /\ state \in [Clients -> {"none", "up", "gone"}]
    /\ pc \in {"Dispatch", "Process", "Establish", "Zombies", "Select"}
    /\ ret \in {"Dispatch", "Establish"}
    /\ closing \in Clients \cup {NULL}
    /\ sleeps \in 0 .. MaxSleeps

\* Where the thread is on the list: the main walk at its head, the inner one
\* past nodes of clients that stay.  The last link is where it should be, but
\* while a walk has still to set it.
Placed(q) ==
    /\ pc = "Zombies" =>
          \E i \in 0 .. Len(q) :
             /\ zp = LinkAt(q, i)
             /\ \A j \in 1 .. i : work[q[j]].client # closing
    /\ pc # "Zombies" /\ (q # <<>> \/ pc # "Process") => workQueueLast = LinkAt(q, Len(q))
    /\ pc = "Establish" \/ (pc = "Zombies" /\ ret = "Establish") =>
          q # <<>> /\ work[q[1]] = Connecting

ListInv == \E q \in Seq(Nodes) : IsList(q, next) /\ NodesOf(q) = inUse /\ Placed(q)

\* The inner walk is there for the one client that is gone.
ClosingInv ==
    /\ pc = "Zombies" <=> closing # NULL
    /\ \A c \in Clients : state[c] = "gone" <=> c = closing

\* A client, or none, has one job: but the one that is closed has another if
\* it is asleep, the last that was put on the list.
OneEach ==
    \A m, n \in inUse :
        work[m].client = work[n].client /\ m # n =>
            /\ closing # NULL /\ work[m].client = closing
            /\ workQueueLast \in {m, n}

Sleepers(s) == {s[i] : i \in 1 .. Len(s)}
Once(s) == \A i, j \in 1 .. Len(s) : s[i].client = s[j].client => i = j

\* Clients that sleep, and their closures.
SleepInv ==
    /\ sleepQueue \in Seq([client : Clients, closure : 1 .. sleeps])
    /\ Once(sleepQueue)
    /\ \A x, y \in Sleepers(sleepQueue) : x.closure = y.closure => x = y
    /\ live = {x.closure : x \in Sleepers(sleepQueue)}
    /\ \A x \in Sleepers(sleepQueue) :
          \/ state[x.client] = "up" /\ x.client \in ignored
          \/ x.client = closing /\ \E n \in inUse : work[n].client = closing

\* Jobs: of clients that sleep, or are closed and sleep no more.
JobsInv ==
    /\ \A n \in inUse : work[n] # Connecting =>
          \/ work[n] \in Sleepers(sleepQueue)
          \/ /\ closing # NULL /\ work[n].client = closing
             /\ \A x \in Sleepers(sleepQueue) : x.client # closing
             /\ work[n].closure \notin live
    /\ pc = "Select" => \A n \in inUse : work[n] # Connecting

\* Who waits for an answer is asleep, and has no job.
SuspendedInv ==
    \A c \in suspended :
        /\ state[c] = "up"
        /\ \E x \in Sleepers(sleepQueue) : x.client = c
        /\ \A n \in inUse : work[n].client # c

IInv ==
    /\ Types /\ ListInv /\ ClosingInv /\ OneEach /\ SleepInv /\ JobsInv /\ SuspendedInv

-----------------------------------------------------------------------------
(* Numbers and sequences. *)

LEMMA Numbers ==
    /\ MaxNodes \in Nat /\ MaxClient \in Nat /\ MaxSleeps \in Nat
    /\ MaxNodes >= MaxClient + 3
    /\ workQueue \notin Nodes /\ NULL \notin Nodes /\ NULL \notin Clients
    /\ workQueue # NULL /\ workQueue \in Links /\ Nodes \subseteq Links
    /\ Nodes \subseteq Nat /\ Clients \subseteq Nat
    /\ \A n \in Nodes : n # NULL
  BY BoundsAssumption DEF workQueue, Nodes, NULL, Links, Clients

LEMMA Least ==
    ASSUME NEW S \in SUBSET Nat, S # {}
    PROVE  \E i \in S : \A j \in S : i <= j
  <1> DEFINE R == OpToRel(<, Nat)
  <1>1. IsWellFoundedOn(R, Nat)
    BY NatLessThanWellFounded
  <1>2. \A i, j \in Nat : i < j => <<i, j>> \in R
    BY DEF OpToRel
  <1> HIDE DEF R
  <1>3. PICK i \in S : \A j \in S : <<j, i>> \notin R
    BY <1>1, WFMin
  <1>4. ASSUME NEW j \in S PROVE i <= j
    <2>1. i \in Nat /\ j \in Nat /\ ~(j < i)
      BY <1>2, <1>3
    <2> QED BY <2>1
  <1> QED BY <1>4

\* The node xalloc gives is one that is free.
LEMMA MinFree ==
    ASSUME NEW S \in SUBSET Nat, S # {}
    PROVE  Min(S) \in S
  BY Least DEF Min

LEMMA TakenOut ==
    ASSUME NEW T, NEW l \in Seq(T), NEW n \in 1 .. Len(l)
    PROVE  /\ RemoveAt(l, n) \in Seq(T) /\ Len(RemoveAt(l, n)) = Len(l) - 1
           /\ \A i \in 1 .. Len(l) - 1 :
                  RemoveAt(l, n)[i] = IF i < n THEN l[i] ELSE l[i + 1]
  <1> DEFINE a == SubSeq(l, 1, n - 1)
             b == SubSeq(l, n + 1, Len(l))
             m == a \o b
  <1>1. n \in 1 .. Len(l) /\ Len(l) \in Nat /\ \A i \in 1 .. Len(l) : l[i] \in T
    OBVIOUS
  <1>2. /\ a \in Seq(T) /\ Len(a) = n - 1
        /\ \A i \in 1 .. n - 1 : a[i] = l[i]
    BY <1>1
  <1>3. /\ b \in Seq(T) /\ Len(b) = Len(l) - n
        /\ \A i \in 1 .. Len(l) - n : b[i] = l[i + n]
    BY <1>1
  <1>0. RemoveAt(l, n) = m
    BY DEF RemoveAt
  <1> HIDE DEF a, b
  <1>4. /\ m \in Seq(T) /\ Len(m) = Len(a) + Len(b)
        /\ \A i \in 1 .. Len(a) + Len(b) :
               m[i] = IF i <= Len(a) THEN a[i] ELSE b[i - Len(a)]
    BY <1>2, <1>3, ConcatProperties
  <1> HIDE DEF m
  <1>5. Len(m) = Len(l) - 1
    BY <1>1, <1>2, <1>3, <1>4
  <1>6. ASSUME NEW i \in 1 .. Len(l) - 1
        PROVE  m[i] = IF i < n THEN l[i] ELSE l[i + 1]
    <2>1. CASE i < n
      <3>1. i <= Len(a) /\ i \in 1 .. n - 1 /\ i \in 1 .. Len(a) + Len(b)
        BY <1>1, <1>2, <1>3, <2>1
      <3>2. m[i] = a[i] /\ a[i] = l[i]
        BY <1>2, <1>4, <3>1
      <3> QED BY <2>1, <3>2
    <2>2. CASE i >= n
      <3> DEFINE k == i - (n - 1)
      <3>1. ~(i <= Len(a)) /\ i \in 1 .. Len(a) + Len(b) /\ i - Len(a) = k
        BY <1>1, <1>2, <1>3, <2>2
      <3>2. k \in 1 .. Len(l) - n /\ k + n = i + 1
        BY <1>1, <2>2
      <3> HIDE DEF k
      <3>3. m[i] = b[k]
        BY <1>4, <3>1
      <3>4. b[k] = l[i + 1]
        BY <1>3, <3>2
      <3> QED BY <1>1, <2>2, <3>3, <3>4
    <2> QED BY <1>1, <2>1, <2>2
  <1> QED BY <1>0, <1>4, <1>5, <1>6

\* Functions on 1 .. n are equal sequences when they agree everywhere.
LEMMA SameSeq ==
    ASSUME NEW T, NEW s \in Seq(T), NEW t \in Seq(T), Len(s) = Len(t),
           \A i \in 1 .. Len(s) : s[i] = t[i]
    PROVE  s = t
  OBVIOUS

\* What is taken out of a sequence without repetition is there no longer.
LEMMA SetWithout ==
    ASSUME NEW T, NEW l \in Seq(T), NEW n \in 1 .. Len(l),
           \A i, j \in 1 .. Len(l) : l[i] = l[j] => i = j
    PROVE  {RemoveAt(l, n)[i] : i \in 1 .. Len(RemoveAt(l, n))}
             = {l[i] : i \in 1 .. Len(l)} \ {l[n]}
  <1> DEFINE m == RemoveAt(l, n)
  <1>0. Len(l) \in Nat
    OBVIOUS
  <1>1. /\ Len(m) = Len(l) - 1 /\ Len(l) \in Nat
        /\ \A i \in 1 .. Len(l) - 1 : m[i] = IF i < n THEN l[i] ELSE l[i + 1]
    <2>1. /\ Len(RemoveAt(l, n)) = Len(l) - 1
          /\ \A i \in 1 .. Len(l) - 1 :
                 RemoveAt(l, n)[i] = IF i < n THEN l[i] ELSE l[i + 1]
      BY TakenOut
    <2> QED BY <1>0, <2>1
  <1> HIDE DEF m
  <1>2. ASSUME NEW i \in 1 .. Len(m)
        PROVE  m[i] \in {l[j] : j \in 1 .. Len(l)} \ {l[n]}
    <2>1. CASE i < n
      <3>1. m[i] = l[i] /\ i \in 1 .. Len(l) /\ i # n
        BY <1>1, <2>1
      <3> QED BY <3>1
    <2>2. CASE i >= n
      <3>1. m[i] = l[i + 1] /\ i + 1 \in 1 .. Len(l) /\ i + 1 # n
        BY <1>1, <2>2
      <3> QED BY <3>1
    <2> QED BY <1>1, <2>1, <2>2
  <1>3. ASSUME NEW i \in 1 .. Len(l), i # n
        PROVE  \E j \in 1 .. Len(m) : m[j] = l[i]
    <2>1. CASE i < n
      <3>1. m[i] = l[i] /\ i \in 1 .. Len(m)
        BY <1>1, <2>1
      <3> QED BY <3>1
    <2>2. CASE i > n
      <3>1. i - 1 \in 1 .. Len(m) /\ ~(i - 1 < n) /\ (i - 1) + 1 = i
        BY <1>1, <2>2
      <3>2. m[i - 1] = l[i]
        BY <1>1, <3>1
      <3> QED BY <3>1, <3>2
    <2> QED BY <1>1, <1>3, <2>1, <2>2
  <1>4. {m[i] : i \in 1 .. Len(m)} \subseteq {l[i] : i \in 1 .. Len(l)} \ {l[n]}
    BY <1>2
  <1>5. ASSUME NEW x \in {l[i] : i \in 1 .. Len(l)} \ {l[n]}
        PROVE  x \in {m[i] : i \in 1 .. Len(m)}
    <2>1. PICK i \in 1 .. Len(l) : x = l[i] /\ i # n
      BY <1>5
    <2>2. PICK j \in 1 .. Len(m) : m[j] = l[i]
      BY <1>3, <2>1
    <2> QED BY <2>1, <2>2
  <1> QED BY <1>4, <1>5 DEF m

-----------------------------------------------------------------------------
(* The list and its links. *)

LEMMA Position ==
    ASSUME NEW q \in Seq(Nodes), NEW i \in 1 .. Len(q)
    PROVE  q[i] \in Nodes /\ q[i] # NULL /\ q[i] # workQueue
  BY Numbers

LEMMA ListLength ==
    ASSUME NEW q, NEW nxt, IsList(q, nxt)
    PROVE  Len(q) <= MaxNodes
  <1>1. q \in Seq(Nodes) /\ Len(q) \in Nat
    BY DEF IsList
  <1>2. q \in Injection(1 .. Len(q), Nodes)
    BY <1>1 DEF IsList, Injection, IsInjective
  <1>3. IsFiniteSet(Nodes) /\ Cardinality(Nodes) = MaxNodes
    BY FS_Interval, Numbers DEF Nodes
  <1>4. Cardinality(1 .. Len(q)) = Len(q)
    BY <1>1, FS_Interval
  <1>5. Cardinality(1 .. Len(q)) <= Cardinality(Nodes)
    BY <1>2, <1>3, FS_Injection
  <1> QED BY <1>3, <1>4, <1>5

\* The links lead through the list, and nowhere else.
LEMMA ListIsReached ==
    ASSUME NEW q, NEW nxt, IsList(q, nxt)
    PROVE  ReachedBy(nxt) = q
  <1> DEFINE step(f, k) == IF k = 0 THEN workQueue
                           ELSE IF f[k - 1] = NULL THEN NULL ELSE nxt[f[k - 1]]
             K == 0 .. MaxNodes + 1
             at == CHOOSE f : f = [k \in K |-> step(f, k)]
             w == [k \in K |-> IF k <= Len(q) THEN LinkAt(q, k) ELSE NULL]
  <1>1. q \in Seq(Nodes) /\ Len(q) \in Nat /\ Len(q) <= MaxNodes
    BY ListLength DEF IsList
  <1>2. \A k \in K : w[k] = step(w, k)
    <2> SUFFICES ASSUME NEW k \in K PROVE w[k] = step(w, k)
      OBVIOUS
    <2>1. CASE k = 0
      BY <1>1, <2>1, Numbers DEF LinkAt
    <2>2. CASE k # 0 /\ k <= Len(q)
      <3>1. k - 1 \in K /\ k - 1 <= Len(q) /\ k - 1 \in 0 .. Len(q) /\ (k - 1) + 1 = k
        BY <1>1, <2>2, Numbers
      <3>2. w[k - 1] = LinkAt(q, k - 1) /\ w[k] = q[k]
        BY <2>2, <3>1 DEF LinkAt
      <3>3. LinkAt(q, k - 1) # NULL
        BY <1>1, <3>1, Position, Numbers DEF LinkAt
      <3>4. nxt[LinkAt(q, k - 1)] = q[k]
        BY <1>1, <2>2, <3>1 DEF IsList, After
      <3> QED BY <2>2, <3>2, <3>3, <3>4
    <2>3. CASE k = Len(q) + 1
      <3>1. k - 1 \in K /\ k - 1 = Len(q) /\ Len(q) \in 0 .. Len(q) /\ k # 0
        BY <1>1, <2>3, Numbers
      <3>2. w[k - 1] = LinkAt(q, Len(q)) /\ w[k] = NULL
        BY <1>1, <2>3, <3>1
      <3>3. nxt[LinkAt(q, Len(q))] = NULL
        BY <1>1, <3>1 DEF IsList, After
      <3> QED BY <3>1, <3>2, <3>3
    <2>4. CASE k > Len(q) + 1
      <3>1. k - 1 \in K /\ ~(k - 1 <= Len(q)) /\ ~(k <= Len(q)) /\ k # 0
        BY <1>1, <2>4, Numbers
      <3>2. w[k - 1] = NULL /\ w[k] = NULL
        BY <3>1
      <3> QED BY <3>1, <3>2
    <2> QED BY <1>1, <2>1, <2>2, <2>3, <2>4, Numbers
  <1>3. w = [k \in K |-> step(w, k)]
    BY <1>2
  <1> HIDE DEF w
  <1>4. at = [k \in K |-> step(at, k)]
    BY <1>3
  <1> HIDE DEF at
  <1>5. \A k \in K : at[k] = w[k]
    <2> DEFINE B == {k \in K : at[k] # w[k]}
    <2> SUFFICES ASSUME B # {} PROVE FALSE
      OBVIOUS
    <2>0. B \in SUBSET Nat
      BY Numbers
    <2>1. PICK k \in B : \A j \in B : k <= j
      <3> HIDE DEF B
      <3> QED BY <2>0, Least
    <2>2. CASE k = 0
      <3>1. at[k] = workQueue
        BY <1>4, <2>2, Numbers
      <3>2. w[k] = workQueue
        BY <1>2, <2>2, Numbers
      <3> QED BY <3>1, <3>2
    <2>3. CASE k # 0
      <3>1. k - 1 \in K /\ k - 1 \notin B
        BY <2>1, <2>3, Numbers
      <3>2. at[k - 1] = w[k - 1]
        BY <3>1
      <3>3. at[k] = step(at, k) /\ w[k] = step(w, k)
        BY <1>2, <1>4
      <3> QED BY <2>3, <3>2, <3>3
    <2> QED BY <2>2, <2>3
  <1>6. ReachedBy(nxt) = [k \in {k \in 1 .. MaxNodes + 1 : at[k] # NULL} |-> at[k]]
    BY DEF ReachedBy, at
  <1>7. \A k \in 1 .. MaxNodes + 1 : at[k] = IF k <= Len(q) THEN q[k] ELSE NULL
    BY <1>1, <1>5, Numbers DEF w, LinkAt
  <1>8. {k \in 1 .. MaxNodes + 1 : at[k] # NULL} = 1 .. Len(q)
    BY <1>1, <1>7, Position, Numbers
  <1>9. ReachedBy(nxt) = [k \in 1 .. Len(q) |-> q[k]]
    BY <1>1, <1>6, <1>7, <1>8, Numbers
  <1> QED BY <1>1, <1>9

LEMMA Linked ==
    ASSUME NEW q \in Seq(Nodes), NEW i \in 0 .. Len(q)
    PROVE  LinkAt(q, i) \in Links /\ (i > 0 => LinkAt(q, i) \in NodesOf(q))
  <1>1. CASE i = 0
    BY <1>1, Numbers DEF LinkAt
  <1>2. CASE i # 0
    <2>1. i \in 1 .. Len(q) /\ LinkAt(q, i) = q[i]
      BY <1>2 DEF LinkAt
    <2>2. q[i] \in NodesOf(q)
      BY <2>1 DEF NodesOf
    <2> QED BY <2>1, <2>2, Position, Numbers
  <1> QED BY <1>1, <1>2

\* Links differ when their places do.
LEMMA LinksDiffer ==
    ASSUME NEW q, NEW nxt, IsList(q, nxt), NEW i \in 0 .. Len(q), NEW j \in 0 .. Len(q),
           LinkAt(q, i) = LinkAt(q, j)
    PROVE  i = j
  <1>1. q \in Seq(Nodes)
    BY DEF IsList
  <1>2. \A k \in 1 .. Len(q) : q[k] # workQueue
    BY <1>1, Position
  <1>3. \A k, l \in 1 .. Len(q) : q[k] = q[l] => k = l
    BY DEF IsList
  <1> QED BY <1>2, <1>3 DEF LinkAt

\* A node is put behind the last link.
LEMMA Appended ==
    ASSUME NEW q, NEW nxt \in [Links -> Nodes \cup {NULL}], IsList(q, nxt),
           NEW n \in Nodes, n \notin NodesOf(q)
    PROVE  /\ IsList(Append(q, n), [nxt EXCEPT ![n] = NULL, ![LinkAt(q, Len(q))] = n])
           /\ NodesOf(Append(q, n)) = NodesOf(q) \cup {n}
  <1> DEFINE r == Append(q, n)
             last == LinkAt(q, Len(q))
             new == [nxt EXCEPT ![n] = NULL, ![last] = n]
  <1>1. q \in Seq(Nodes) /\ Len(q) \in Nat /\ Len(q) \in 0 .. Len(q)
    BY DEF IsList
  <1>2. /\ r \in Seq(Nodes) /\ Len(r) = Len(q) + 1 /\ r[Len(q) + 1] = n
        /\ \A i \in 1 .. Len(q) : r[i] = q[i]
    BY <1>1
  <1> HIDE DEF r
  <1>3. \A i \in 1 .. Len(q) : q[i] # n
    BY DEF NodesOf
  <1>4. \A i, j \in 1 .. Len(r) : r[i] = r[j] => i = j
    <2> SUFFICES ASSUME NEW i \in 1 .. Len(r), NEW j \in 1 .. Len(r), r[i] = r[j]
                 PROVE  i = j
      OBVIOUS
    <2>1. CASE i \in 1 .. Len(q) /\ j \in 1 .. Len(q)
      BY <1>2, <2>1 DEF IsList
    <2>2. CASE i = Len(q) + 1 \/ j = Len(q) + 1
      BY <1>1, <1>2, <1>3, <2>2
    <2> QED BY <1>1, <1>2, <2>1, <2>2
  <1>5. last \in Links /\ n \in Links /\ last # n
    BY <1>1, <1>3, Linked, Numbers DEF LinkAt
  <1>6. /\ new[last] = n /\ new[n] = NULL
        /\ \A l \in Links : l # last /\ l # n => new[l] = nxt[l]
    BY <1>5
  <1>7. \A i \in 0 .. Len(r) : new[LinkAt(r, i)] = After(r, i)
    <2> SUFFICES ASSUME NEW i \in 0 .. Len(r) PROVE new[LinkAt(r, i)] = After(r, i)
      OBVIOUS
    <2>1. CASE i < Len(q)
      <3>1. i \in 0 .. Len(q) /\ i + 1 \in 1 .. Len(q)
        BY <1>1, <2>1
      <3>2. LinkAt(r, i) = LinkAt(q, i) /\ After(r, i) = After(q, i)
        BY <1>1, <1>2, <2>1, <3>1 DEF LinkAt, After
      <3>3. LinkAt(q, i) \in Links /\ LinkAt(q, i) # last
        BY <1>1, <2>1, <3>1, Linked, LinksDiffer
      <3>4. LinkAt(q, i) # n
        BY <1>3, <3>1, Numbers DEF LinkAt
      <3>5. nxt[LinkAt(q, i)] = After(q, i)
        BY <3>1 DEF IsList
      <3> QED BY <1>6, <3>2, <3>3, <3>4, <3>5
    <2>2. CASE i = Len(q)
      <3>1. LinkAt(r, i) = last /\ After(r, i) = n
        BY <1>1, <1>2, <2>2 DEF LinkAt, After
      <3> QED BY <1>6, <3>1
    <2>3. CASE i = Len(q) + 1
      <3>1. LinkAt(r, i) = n /\ After(r, i) = NULL
        BY <1>1, <1>2, <2>3 DEF LinkAt, After
      <3> QED BY <1>6, <3>1
    <2> QED BY <1>1, <1>2, <2>1, <2>2, <2>3
  <1>8. NodesOf(r) = NodesOf(q) \cup {n}
    <2>1. \A i \in 1 .. Len(r) : r[i] \in NodesOf(q) \cup {n}
      BY <1>1, <1>2 DEF NodesOf
    <2>2. \A i \in 1 .. Len(q) : i \in 1 .. Len(r) /\ r[i] = q[i]
      BY <1>1, <1>2
    <2>3. Len(q) + 1 \in 1 .. Len(r)
      BY <1>1, <1>2
    <2> QED BY <1>2, <2>1, <2>2, <2>3 DEF NodesOf
  <1> QED BY <1>2, <1>4, <1>7, <1>8 DEF IsList, r

\* A node is taken out behind the link of place i.
LEMMA Taken ==
    ASSUME NEW q, NEW nxt \in [Links -> Nodes \cup {NULL}], IsList(q, nxt),
           NEW i \in 0 .. Len(q) - 1
    PROVE  LET n == q[i + 1]
               r == RemoveAt(q, i + 1)
               new == [nxt EXCEPT ![LinkAt(q, i)] = nxt[n], ![n] = NULL]
           IN  IsList(r, new) /\ NodesOf(r) = NodesOf(q) \ {n}
  <1> DEFINE n == q[i + 1]
             r == RemoveAt(q, i + 1)
             link == LinkAt(q, i)
             new == [nxt EXCEPT ![link] = nxt[n], ![n] = NULL]
  <1>1. q \in Seq(Nodes) /\ Len(q) \in Nat /\ i + 1 \in 1 .. Len(q) /\ i \in 0 .. Len(q)
    BY DEF IsList
  <1>2. /\ r \in Seq(Nodes) /\ Len(r) = Len(q) - 1
        /\ \A j \in 1 .. Len(q) - 1 : r[j] = IF j < i + 1 THEN q[j] ELSE q[j + 1]
    BY <1>1, TakenOut
  <1>3. NodesOf(r) = NodesOf(q) \ {n}
    BY <1>1, SetWithout DEF NodesOf, IsList
  <1> HIDE DEF r
  <1>4. \A j, k \in 1 .. Len(r) : r[j] = r[k] => j = k
    <2> SUFFICES ASSUME NEW j \in 1 .. Len(r), NEW k \in 1 .. Len(r), r[j] = r[k]
                 PROVE  j = k
      OBVIOUS
    <2> DEFINE J == IF j < i + 1 THEN j ELSE j + 1
               K == IF k < i + 1 THEN k ELSE k + 1
    <2>1. J \in 1 .. Len(q) /\ K \in 1 .. Len(q) /\ q[J] = r[j] /\ q[K] = r[k]
      BY <1>1, <1>2
    <2>2. J = K
      <3> HIDE DEF J, K
      <3> QED BY <2>1 DEF IsList
    <2> QED BY <1>1, <1>2, <2>2
  <1>5. /\ link \in Links /\ n \in Nodes /\ n \in Links /\ n = LinkAt(q, i + 1)
        /\ i + 1 \in 0 .. Len(q) /\ i # i + 1
    BY <1>1, Linked, Position, Numbers DEF LinkAt
  <1>6. link # n
    BY <1>1, <1>5, LinksDiffer
  <1>7. nxt[n] = After(q, i + 1)
    BY <1>5 DEF IsList
  <1>8. /\ new[link] = After(q, i + 1)
        /\ \A l \in Links : l # link /\ l # n => new[l] = nxt[l]
    BY <1>5, <1>6, <1>7
  <1>9. \A j \in 0 .. Len(r) : new[LinkAt(r, j)] = After(r, j)
    <2> SUFFICES ASSUME NEW j \in 0 .. Len(r) PROVE new[LinkAt(r, j)] = After(r, j)
      OBVIOUS
    <2>1. CASE j < i
      <3>1. /\ j \in 0 .. Len(q) /\ j + 1 < i + 1 /\ j + 1 \in 1 .. Len(q) - 1
            /\ j < Len(r) /\ j < Len(q) /\ (j # 0 => j \in 1 .. Len(q) - 1 /\ j < i + 1)
        BY <1>1, <1>2, <2>1
      <3>2. LinkAt(r, j) = LinkAt(q, j) /\ After(r, j) = After(q, j)
        BY <1>2, <3>1 DEF LinkAt, After
      <3>3. LinkAt(q, j) \in Links /\ LinkAt(q, j) # link /\ LinkAt(q, j) # n
        BY <1>1, <1>5, <2>1, <3>1, Linked, LinksDiffer
      <3>4. nxt[LinkAt(q, j)] = After(q, j)
        BY <3>1 DEF IsList
      <3> QED BY <1>8, <3>2, <3>3, <3>4
    <2>2. CASE j = i
      <3>1. j # 0 => j \in 1 .. Len(q) - 1 /\ j < i + 1
        BY <1>1, <1>2, <2>2
      <3>2. LinkAt(r, j) = link
        BY <1>2, <2>2, <3>1 DEF LinkAt
      <3>3. CASE i < Len(q) - 1
        <4>1. /\ j < Len(r) /\ j + 1 \in 1 .. Len(q) - 1 /\ ~(j + 1 < i + 1)
              /\ (j + 1) + 1 = (i + 1) + 1 /\ i + 1 < Len(q)
          BY <1>1, <1>2, <2>2, <3>3
        <4>2. After(r, j) = After(q, i + 1)
          BY <1>2, <4>1 DEF After
        <4> QED BY <1>8, <3>2, <4>2
      <3>4. CASE i = Len(q) - 1
        <4>1. ~(j < Len(r)) /\ ~(i + 1 < Len(q))
          BY <1>1, <1>2, <2>2, <3>4
        <4>2. After(r, j) = After(q, i + 1)
          BY <4>1 DEF After
        <4> QED BY <1>8, <3>2, <4>2
      <3> QED BY <1>1, <3>3, <3>4
    <2>3. CASE j > i
      <3>1. /\ j \in 1 .. Len(q) - 1 /\ ~(j < i + 1) /\ j + 1 \in 0 .. Len(q)
            /\ j # 0 /\ j + 1 # 0 /\ j + 1 # i /\ j + 1 # i + 1 /\ j \in Nat
        BY <1>1, <1>2, <2>3
      <3>2. LinkAt(r, j) = LinkAt(q, j + 1)
        BY <1>2, <3>1 DEF LinkAt
      <3>3. After(r, j) = After(q, j + 1)
        <4>1. CASE j < Len(r)
          <5>1. /\ j + 1 \in 1 .. Len(q) - 1 /\ ~(j + 1 < i + 1) /\ j + 1 < Len(q)
            BY <1>1, <1>2, <2>3, <4>1
          <5>2. r[j + 1] = q[(j + 1) + 1]
            BY <1>2, <5>1
          <5> QED BY <4>1, <5>1, <5>2 DEF After
        <4>2. CASE ~(j < Len(r))
          <5>1. ~(j + 1 < Len(q))
            BY <1>1, <1>2, <3>1, <4>2
          <5> QED BY <4>2, <5>1 DEF After
        <4> QED BY <4>1, <4>2
      <3>4. LinkAt(q, j + 1) \in Links /\ LinkAt(q, j + 1) # link /\ LinkAt(q, j + 1) # n
        BY <1>1, <1>5, <3>1, Linked, LinksDiffer
      <3>5. nxt[LinkAt(q, j + 1)] = After(q, j + 1)
        BY <3>1 DEF IsList
      <3> QED BY <1>8, <3>2, <3>3, <3>4, <3>5
    <2> QED BY <1>1, <1>2, <2>1, <2>2, <2>3
  <1> QED BY <1>2, <1>3, <1>4, <1>9 DEF IsList, r

-----------------------------------------------------------------------------
(* What the operations of the list do to it. *)

Job == [client : Clients \cup {NULL}, closure : 0 .. MaxSleeps]
Entry(k) == [client : Clients, closure : 1 .. k]

ListTypes ==
    /\ work \in [Nodes -> Job] /\ next \in [Links -> Nodes \cup {NULL}]
    /\ inUse \subseteq Nodes /\ workQueueLast \in Links

\* There is a node for the next job: the clients and "none" have one each.
LEMMA NodeFree ==
    ASSUME Types, OneEach
    PROVE  inUse # Nodes
  <1> DEFINE S == inUse \ {workQueueLast}
             f == [n \in S |-> work[n].client]
  <1> SUFFICES ASSUME inUse = Nodes PROVE FALSE
    OBVIOUS
  <1>1. IsFiniteSet(Nodes) /\ Cardinality(Nodes) = MaxNodes
    BY FS_Interval, Numbers DEF Nodes
  <1>2. IsFiniteSet(0 .. MaxClient) /\ Cardinality(0 .. MaxClient) = MaxClient + 1
    BY FS_Interval, Numbers
  <1>3. f \in Injection(S, 0 .. MaxClient)
    <2>1. \A n \in S : work[n].client \in 0 .. MaxClient
      BY Numbers DEF Types, Clients, NULL
    <2>2. \A m, n \in S : work[m].client = work[n].client => m = n
      BY DEF OneEach
    <2> QED BY <2>1, <2>2 DEF Injection, IsInjective
  <1>4. Cardinality(S) <= MaxClient + 1
    BY <1>2, <1>3, FS_Injection
  <1>5. Cardinality(S) >= MaxNodes - 1
    <2>1. Cardinality(Nodes \ {workQueueLast}) =
            IF workQueueLast \in Nodes THEN MaxNodes - 1 ELSE MaxNodes
      BY <1>1, FS_RemoveElement
    <2> QED BY <2>1, Numbers
  <1>6. Cardinality(S) \in Nat
    BY <1>1, FS_RemoveElement, FS_CardinalityType
  <1> HIDE DEF S
  <1> QED BY <1>4, <1>5, <1>6, Numbers

\* A job is put on list q in node n.
Queued(q, n, job) ==
    /\ n \in Nodes /\ n \notin inUse /\ inUse' = inUse \cup {n}
    /\ work' = [work EXCEPT ![n] = job]
    /\ IsList(Append(q, n), next') /\ NodesOf(Append(q, n)) = inUse'
    /\ workQueueLast' = n
    /\ ListTypes'

LEMMA Queueing ==
    ASSUME Types, NEW q, IsList(q, next), NodesOf(q) = inUse, inUse # Nodes,
           workQueueLast = LinkAt(q, Len(q)),
           NEW job \in Job, QueueWorkProc(job)
    PROVE  \E n \in Nodes : Queued(q, n, job)
  <1> DEFINE n == Min(Nodes \ inUse)
  <1>1. Nodes \ inUse \in SUBSET Nat /\ Nodes \ inUse # {}
    BY Numbers DEF Types
  <1>2. n \in Nodes \ inUse
    BY <1>1, MinFree
  <1>3. /\ inUse' = inUse \cup {n} /\ work' = [work EXCEPT ![n] = job]
        /\ next' = [next EXCEPT ![n] = NULL, ![workQueueLast] = n]
        /\ workQueueLast' = n
    BY DEF QueueWorkProc
  <1> HIDE DEF n
  <1>4. /\ IsList(Append(q, n), next')
        /\ NodesOf(Append(q, n)) = NodesOf(q) \cup {n}
    <2>1. next \in [Links -> Nodes \cup {NULL}] /\ n \notin NodesOf(q)
      BY <1>2 DEF Types
    <2> QED BY <1>2, <1>3, <2>1, Appended
  <1>5. ListTypes'
    BY <1>2, <1>3, Numbers DEF Types, ListTypes, Job
  <1> QED BY <1>2, <1>3, <1>4, <1>5 DEF Queued

\* The node behind place i of q is taken out.
Unlinked(q, i) ==
    /\ q[i + 1] \in inUse /\ inUse' = inUse \ {q[i + 1]}
    /\ work' = [work EXCEPT ![q[i + 1]] = Connecting]
    /\ IsList(RemoveAt(q, i + 1), next') /\ NodesOf(RemoveAt(q, i + 1)) = inUse'
    /\ workQueueLast' = workQueueLast
    /\ ListTypes'

LEMMA Unlinking ==
    ASSUME Types, NEW q, IsList(q, next), NodesOf(q) = inUse,
           NEW i \in 0 .. Len(q) - 1, Unlink(LinkAt(q, i))
    PROVE  next[LinkAt(q, i)] = q[i + 1] /\ Unlinked(q, i)
  <1> DEFINE n == q[i + 1]
  <1>1. q \in Seq(Nodes) /\ i \in 0 .. Len(q) /\ i + 1 \in 1 .. Len(q)
    BY DEF IsList
  <1>2. next[LinkAt(q, i)] = n
    BY <1>1 DEF IsList, After
  <1>3. n \in Nodes /\ n \in NodesOf(q) /\ LinkAt(q, i) \in Links
    BY <1>1, Position, Linked DEF NodesOf
  <1>4. /\ next' = [next EXCEPT ![LinkAt(q, i)] = next[n], ![n] = NULL]
        /\ inUse' = inUse \ {n} /\ work' = [work EXCEPT ![n] = Connecting]
        /\ workQueueLast' = workQueueLast
    BY <1>2 DEF Unlink
  <1>5. /\ IsList(RemoveAt(q, i + 1), next')
        /\ NodesOf(RemoveAt(q, i + 1)) = NodesOf(q) \ {n}
    <2>1. next \in [Links -> Nodes \cup {NULL}]
      BY DEF Types
    <2> QED BY <1>4, <2>1, Taken
  <1>6. ListTypes'
    <2>1. n \in Links /\ next[n] \in Nodes \cup {NULL}
      BY <1>3, Numbers DEF Types
    <2>2. Connecting \in Job
      BY Numbers DEF Connecting, Job
    <2> HIDE DEF n
    <2> QED BY <1>3, <1>4, <2>1, <2>2 DEF Types, ListTypes, Job
  <1> QED BY <1>2, <1>3, <1>4, <1>5, <1>6 DEF Unlinked

-----------------------------------------------------------------------------
(* What the operations of the sleeping clients do to them. *)

LEMMA AsleepIs ==
    ASSUME NEW T, sleepQueue \in Seq(T), NEW c
    PROVE  Asleep(c) <=> \E x \in Sleepers(sleepQueue) : x.client = c
  BY DEF Asleep, Sleepers

\* The entry that is found is the only one of the client.
LEMMA EntryFound ==
    ASSUME NEW T, sleepQueue \in Seq(T), Once(sleepQueue),
           NEW e \in Sleepers(sleepQueue)
    PROVE  /\ SleepEntry(e.client) \in 1 .. Len(sleepQueue)
           /\ sleepQueue[SleepEntry(e.client)] = e
  <1>1. PICK i \in 1 .. Len(sleepQueue) : sleepQueue[i] = e
    BY DEF Sleepers
  <1>2. DOMAIN sleepQueue = 1 .. Len(sleepQueue) /\ Len(sleepQueue) \in Nat
    OBVIOUS
  <1>3. \A j \in 1 .. i - 1 : sleepQueue[j].client # e.client
    BY <1>1, <1>2 DEF Once
  <1>4. /\ SleepEntry(e.client) \in DOMAIN sleepQueue
        /\ sleepQueue[SleepEntry(e.client)].client = e.client
    BY <1>1, <1>2, <1>3 DEF SleepEntry
  <1> QED BY <1>1, <1>2, <1>4 DEF Once

\* Who wakes up leaves the others where they are.
LEMMA Awoken ==
    ASSUME NEW T, sleepQueue \in Seq(T), Once(sleepQueue),
           NEW e \in Sleepers(sleepQueue)
    PROVE  LET s == RemoveAt(sleepQueue, SleepEntry(e.client))
           IN  /\ s \in Seq(T) /\ Once(s)
               /\ Sleepers(s) = Sleepers(sleepQueue) \ {e}
  <1> DEFINE k == SleepEntry(e.client)
             s == RemoveAt(sleepQueue, k)
  <1>1. k \in 1 .. Len(sleepQueue) /\ sleepQueue[k] = e
    BY EntryFound
  <1> HIDE DEF k
  <1>2. /\ s \in Seq(T) /\ Len(s) = Len(sleepQueue) - 1
        /\ \A i \in 1 .. Len(sleepQueue) - 1 :
               s[i] = IF i < k THEN sleepQueue[i] ELSE sleepQueue[i + 1]
    BY <1>1, TakenOut
  <1>3. \A i, j \in 1 .. Len(sleepQueue) : sleepQueue[i] = sleepQueue[j] => i = j
    BY DEF Once
  <1>4. Sleepers(s) = Sleepers(sleepQueue) \ {e}
    BY <1>1, <1>3, SetWithout DEF Sleepers
  <1> HIDE DEF s
  <1>5. Once(s)
    <2> SUFFICES ASSUME NEW i \in 1 .. Len(s), NEW j \in 1 .. Len(s),
                        s[i].client = s[j].client
                 PROVE  i = j
      BY DEF Once
    <2> DEFINE I == IF i < k THEN i ELSE i + 1
               J == IF j < k THEN j ELSE j + 1
    <2>1. /\ I \in 1 .. Len(sleepQueue) /\ J \in 1 .. Len(sleepQueue)
          /\ sleepQueue[I] = s[i] /\ sleepQueue[J] = s[j]
      BY <1>1, <1>2
    <2>2. I = J
      <3> HIDE DEF I, J
      <3> QED BY <2>1 DEF Once
    <2> QED BY <1>1, <1>2, <2>2
  <1> QED BY <1>2, <1>4, <1>5 DEF s, k

\* Who goes to sleep is put in front.
LEMMA Slept ==
    ASSUME NEW T, NEW s \in Seq(T), Once(s), NEW e \in T,
           \A x \in Sleepers(s) : x.client # e.client
    PROVE  /\ <<e>> \o s \in Seq(T) /\ Once(<<e>> \o s)
           /\ Sleepers(<<e>> \o s) = Sleepers(s) \cup {e}
  <1> DEFINE t == <<e>> \o s
  <1>1. /\ t \in Seq(T) /\ Len(t) = Len(s) + 1 /\ Len(s) \in Nat /\ t[1] = e
        /\ \A i \in 2 .. Len(s) + 1 : t[i] = s[i - 1]
    OBVIOUS
  <1> HIDE DEF t
  <1>2. \A i \in 2 .. Len(t) : i - 1 \in 1 .. Len(s)
    BY <1>1
  <1>3. \A i \in 2 .. Len(t) : t[i] \in Sleepers(s)
    BY <1>1, <1>2 DEF Sleepers
  <1>4. Once(t)
    <2> SUFFICES ASSUME NEW i \in 1 .. Len(t), NEW j \in 1 .. Len(t),
                        t[i].client = t[j].client
                 PROVE  i = j
      BY DEF Once
    <2>1. CASE i = 1 \/ j = 1
      BY <1>1, <1>3, <2>1
    <2>2. CASE i # 1 /\ j # 1
      <3>1. i - 1 \in 1 .. Len(s) /\ j - 1 \in 1 .. Len(s)
        BY <1>2, <2>2
      <3>2. s[i - 1].client = s[j - 1].client
        BY <1>1, <2>2
      <3>3. i - 1 = j - 1
        BY <3>1, <3>2 DEF Once
      <3> QED BY <3>3
    <2> QED BY <2>1, <2>2
  <1>5. Sleepers(t) = Sleepers(s) \cup {e}
    <2>1. ASSUME NEW i \in 1 .. Len(t) PROVE t[i] \in Sleepers(s) \cup {e}
      BY <1>1, <1>3
    <2>2. ASSUME NEW i \in 1 .. Len(s) PROVE s[i] \in Sleepers(t)
      <3>1. i + 1 \in 1 .. Len(t) /\ t[i + 1] = s[i]
        BY <1>1
      <3> QED BY <3>1 DEF Sleepers
    <2>3. e \in Sleepers(t)
      BY <1>1 DEF Sleepers
    <2>4. Sleepers(t) \subseteq Sleepers(s) \cup {e}
      BY <2>1 DEF Sleepers
    <2>5. Sleepers(s) \subseteq Sleepers(t)
      BY <2>2 DEF Sleepers
    <2> QED BY <2>3, <2>4, <2>5
  <1> QED BY <1>1, <1>4, <1>5 DEF t

\* The request of a client that sleeps is done with.
Woke(e) ==
    /\ sleepQueue' \in Seq(Entry(sleeps)) /\ Once(sleepQueue')
    /\ Sleepers(sleepQueue') = Sleepers(sleepQueue) \ {e}
    /\ live' = live \ {e.closure} /\ suspended' = suspended

LEMMA RunAsleep ==
    ASSUME SleepInv, NEW e \in Sleepers(sleepQueue), ClientWakeup(e.client),
           live' = live \ {e.closure}, suspended' = suspended
    PROVE  /\ Woke(e)
           /\ ignored' = IF state[e.client] = "gone" THEN ignored ELSE ignored \ {e.client}
  <1>1. sleepQueue \in Seq(Entry(sleeps)) /\ Once(sleepQueue)
    BY DEF SleepInv, Entry
  <1>2. Asleep(e.client)
    BY <1>1, AsleepIs
  <1>3. sleepQueue' = RemoveAt(sleepQueue, SleepEntry(e.client))
    BY <1>2 DEF ClientWakeup
  <1>4. /\ sleepQueue' \in Seq(Entry(sleeps)) /\ Once(sleepQueue')
        /\ Sleepers(sleepQueue') = Sleepers(sleepQueue) \ {e}
    BY <1>1, <1>3, Awoken
  <1> QED BY <1>2, <1>4 DEF Woke, ClientWakeup

\* What remains true of those who sleep.
LEMMA WokeSound ==
    ASSUME SleepInv, NEW e \in Sleepers(sleepQueue), Woke(e)
    PROVE  /\ \A x, y \in Sleepers(sleepQueue') : x.closure = y.closure => x = y
           /\ live' = {x.closure : x \in Sleepers(sleepQueue')}
           /\ \A x \in Sleepers(sleepQueue') :
                 x \in Sleepers(sleepQueue) /\ x.client # e.client
  <1>1. /\ \A x, y \in Sleepers(sleepQueue) : x.closure = y.closure => x = y
        /\ live = {x.closure : x \in Sleepers(sleepQueue)}
    BY DEF SleepInv
  <1>2. Sleepers(sleepQueue') = Sleepers(sleepQueue) \ {e} /\ live' = live \ {e.closure}
    BY DEF Woke
  <1>3. live' = {x.closure : x \in Sleepers(sleepQueue')}
    BY <1>1, <1>2
  <1>4. \A x, y \in Sleepers(sleepQueue) : x.client = y.client => x = y
    BY DEF SleepInv, Once, Sleepers
  <1> QED BY <1>1, <1>2, <1>3, <1>4

LEMMA EntryTypes ==
    ASSUME SleepInv, NEW e \in Sleepers(sleepQueue)
    PROVE  /\ e \in Entry(sleeps) /\ e.client \in Clients
           /\ e.client # NULL /\ e # Connecting
           /\ e = FontJob(e.client, e.closure)
  <1>1. sleepQueue \in Seq(Entry(sleeps))
    BY DEF SleepInv, Entry
  <1>2. e \in Entry(sleeps)
    BY <1>1 DEF Sleepers
  <1> QED BY <1>2, Numbers DEF Entry, Connecting, FontJob

-----------------------------------------------------------------------------
(* The invariant holds at first, and each step keeps it. *)

LEMMA Initially == Init => IInv
  <1> SUFFICES ASSUME Init PROVE IInv
    OBVIOUS
  <1>1. Types
    BY Numbers DEF Init, Types, Connecting
  <1>2. ListInv
    <2>1. << >> \in Seq(Nodes) /\ Len(<< >>) = 0
      OBVIOUS
    <2>2. IsList(<< >>, next)
      BY <2>1, Numbers DEF Init, IsList, LinkAt, After
    <2>3. NodesOf(<< >>) = inUse
      BY <2>1 DEF Init, NodesOf
    <2>4. Placed(<< >>)
      BY <2>1 DEF Init, Placed, LinkAt
    <2> QED BY <2>1, <2>2, <2>3, <2>4 DEF ListInv
  <1>3. sleepQueue \in Seq([client : Clients, closure : 1 .. sleeps])
        /\ Once(sleepQueue) /\ Sleepers(sleepQueue) = {}
    BY DEF Init, Once, Sleepers
  <1>4. SleepInv
    BY <1>3 DEF Init, SleepInv
  <1>5. ClosingInv /\ OneEach /\ JobsInv /\ SuspendedInv
    BY Numbers DEF Init, ClosingInv, OneEach, JobsInv, SuspendedInv
  <1> QED BY <1>1, <1>2, <1>4, <1>5 DEF IInv

\* A client is closed: what it sleeps on is put on the list.
LEMMA CloseStep ==
    ASSUME IInv, pc \in {"Dispatch", "Establish"},
           NEW c \in Clients, state[c] = "up", CloseDownClient(c)
    PROVE  IInv'
  <1>0. Types /\ ListInv /\ ClosingInv /\ OneEach /\ SleepInv /\ JobsInv /\ SuspendedInv
    BY DEF IInv
  <1>1. /\ closing = NULL /\ closing' = c /\ ret' = pc /\ pc' = "Zombies"
        /\ zp' = workQueue /\ p' = p /\ c # NULL
        /\ state' = [state EXCEPT ![c] = "gone"] /\ suspended' = suspended \ {c}
        /\ UNCHANGED <<sleepQueue, ignored, live, marked, sleeps>>
    BY <1>0, Numbers DEF CloseDownClient, ClosingInv, countVars
  <1>2. PICK q \in Seq(Nodes) : IsList(q, next) /\ NodesOf(q) = inUse /\ Placed(q)
    BY <1>0 DEF ListInv
  <1>3. workQueueLast = LinkAt(q, Len(q))
    BY <1>2 DEF Placed
  <1>4. /\ \A x \in Sleepers(sleepQueue) : state[x.client] = "up" /\ x.client \in ignored
        /\ \A n \in inUse : work[n] # Connecting => work[n] \in Sleepers(sleepQueue)
        /\ \A m, n \in inUse : work[m].client = work[n].client => m = n
        /\ \A d \in Clients : state[d] # "gone"
    <2>1. \A x \in Sleepers(sleepQueue) : state[x.client] = "up" /\ x.client \in ignored
      BY <1>0, <1>1, EntryTypes DEF SleepInv
    <2>2. \A n \in inUse : work[n] # Connecting => work[n] \in Sleepers(sleepQueue)
      BY <1>0, <1>1 DEF JobsInv
    <2>3. \A m, n \in inUse : work[m].client = work[n].client => m = n
      BY <1>0, <1>1 DEF OneEach
    <2>4. \A d \in Clients : state[d] # "gone"
      BY <1>0, <1>1, Numbers DEF ClosingInv
    <2> QED BY <2>1, <2>2, <2>3, <2>4
  <1>5. ClosingInv'
    BY <1>0, <1>1, <1>4 DEF ClosingInv, Types
  <1>s. SuspendedInv' <=> \A d \in suspended' : \A n \in inUse' : work'[n].client # d
    BY <1>0, <1>1, EntryTypes DEF SuspendedInv, Types
  <1>6. CASE Asleep(c)
    <2>1. PICK e \in Sleepers(sleepQueue) : e.client = c
      BY <1>0, <1>6, AsleepIs DEF SleepInv
    <2>2. sleepQueue[SleepEntry(c)] = e
      BY <1>0, <2>1, EntryFound DEF SleepInv
    <2>3. /\ e \in Job /\ e # Connecting /\ QueueWorkProc(e)
          /\ e \in Entry(sleeps)
      <3>1. QueueWorkProc(FontJob(c, e.closure))
        BY <1>6, <2>2 DEF CloseDownClient, ClientSignal
      <3>2. e \in Entry(sleeps) /\ e = FontJob(c, e.closure) /\ e # Connecting
        BY <1>0, <2>1, EntryTypes
      <3>3. e \in Job
        BY <1>0, <3>2, Numbers DEF Entry, Job, Types
      <3> QED BY <3>1, <3>2, <3>3
    <2>4. PICK n \in Nodes : Queued(q, n, e)
      BY <1>0, <1>2, <1>3, <2>3, Queueing, NodeFree
    <2>5. /\ n \notin inUse /\ inUse' = inUse \cup {n} /\ work'[n] = e
          /\ \A m \in inUse : work'[m] = work[m]
          /\ workQueueLast' = n
      BY <1>0, <2>4 DEF Queued, Types
    <2>6. Types'
      BY <1>0, <1>1, <2>4, Numbers DEF Types, Queued, ListTypes, Job
    <2>7. ListInv'
      <3> DEFINE r == Append(q, n)
      <3>1. r \in Seq(Nodes) /\ IsList(r, next') /\ NodesOf(r) = inUse'
        BY <2>4 DEF Queued
      <3>2. ret' = "Establish" => r # <<>> /\ work'[r[1]] = Connecting
        <4> SUFFICES ASSUME ret' = "Establish" PROVE r # <<>> /\ work'[r[1]] = Connecting
          OBVIOUS
        <4>1. q # <<>> /\ work[q[1]] = Connecting
          BY <1>1, <1>2 DEF Placed
        <4>2. 1 \in 1 .. Len(q) /\ r[1] = q[1] /\ r # <<>>
          BY <4>1
        <4>3. q[1] \in inUse
          BY <1>2, <4>2 DEF NodesOf
        <4> QED BY <2>5, <4>1, <4>2, <4>3
      <3>3. 0 \in 0 .. Len(r) /\ zp' = LinkAt(r, 0)
        BY <1>1, <3>1 DEF LinkAt
      <3>4. Placed(r)'
        <4> HIDE DEF r
        <4> QED BY <1>1, <3>2, <3>3 DEF Placed
      <3> QED BY <3>1, <3>4 DEF ListInv
    <2>8. OneEach'
      BY <1>1, <1>4, <2>1, <2>5 DEF OneEach
    <2>9. SleepInv'
      <3>1. \A x \in Sleepers(sleepQueue) :
               \/ state'[x.client] = "up" /\ x.client \in ignored
               \/ x.client = c /\ work'[n].client = c
        BY <1>0, <1>1, <1>4, <2>1, <2>5, EntryTypes DEF Types
      <3> QED BY <1>0, <1>1, <2>5, <3>1 DEF SleepInv
    <2>10. JobsInv'
      BY <1>1, <1>4, <2>5 DEF JobsInv
    <2>11. SuspendedInv'
      BY <1>0, <1>1, <1>s, <2>1, <2>5 DEF SuspendedInv
    <2> QED BY <1>5, <2>6, <2>7, <2>8, <2>9, <2>10, <2>11 DEF IInv
  <1>7. CASE ~Asleep(c)
    <2>1. UNCHANGED <<work, next, inUse, workQueueLast>>
      BY <1>7 DEF CloseDownClient, listVars
    <2>2. \A x \in Sleepers(sleepQueue) : x.client # c
      BY <1>0, <1>7, AsleepIs DEF SleepInv
    <2>3. Types'
      BY <1>0, <1>1, <2>1, Numbers DEF Types
    <2>4. ListInv'
      <3>1. 0 \in 0 .. Len(q) /\ zp' = LinkAt(q, 0)
        BY <1>1, <1>2 DEF LinkAt
      <3>2. ret' = "Establish" => q # <<>> /\ work'[q[1]] = Connecting
        BY <1>1, <1>2, <2>1 DEF Placed
      <3>3. Placed(q)'
        BY <1>1, <3>1, <3>2 DEF Placed
      <3> QED BY <1>2, <2>1, <3>3 DEF ListInv
    <2>5. OneEach'
      BY <1>4, <2>1 DEF OneEach
    <2>6. SleepInv'
      <3>1. \A x \in Sleepers(sleepQueue) : state'[x.client] = "up" /\ x.client \in ignored
        BY <1>0, <1>1, <1>4, <2>2, EntryTypes DEF Types
      <3> QED BY <1>0, <1>1, <3>1 DEF SleepInv
    <2>7. JobsInv'
      BY <1>1, <1>4, <2>1 DEF JobsInv
    <2>8. SuspendedInv'
      BY <1>0, <1>1, <1>s, <2>1 DEF SuspendedInv
    <2> QED BY <1>5, <2>3, <2>4, <2>5, <2>6, <2>7, <2>8 DEF IInv
  <1> QED BY <1>6, <1>7

\* The inner walk calls the job of the client that is closed, or passes one.
LEMMA ZombiesStep == ASSUME IInv, Zombies PROVE IInv'
  <1>0. Types /\ ListInv /\ ClosingInv /\ OneEach /\ SleepInv /\ JobsInv /\ SuspendedInv
    BY DEF IInv
  <1>1. /\ pc = "Zombies" /\ pc' = pc /\ p' = p /\ closing' = closing /\ ret' = ret
        /\ state' = state /\ marked' = marked /\ sleeps' = sleeps
        /\ next[zp] # NULL
    BY DEF Zombies, clientVars, countVars
  <1>2. PICK q \in Seq(Nodes) : IsList(q, next) /\ NodesOf(q) = inUse /\ Placed(q)
    BY <1>0 DEF ListInv
  <1>3. PICK i \in 0 .. Len(q) :
            zp = LinkAt(q, i) /\ \A j \in 1 .. i : work[q[j]].client # closing
    BY <1>1, <1>2 DEF Placed
  <1>4. next[zp] = After(q, i)
    BY <1>2, <1>3 DEF IsList
  <1>5. /\ i \in 0 .. Len(q) - 1 /\ i + 1 \in 1 .. Len(q) /\ i + 1 \in 0 .. Len(q)
        /\ next[zp] = q[i + 1] /\ Len(q) \in Nat
    BY <1>1, <1>4 DEF After
  <1> DEFINE n == q[i + 1]
  <1>6. n \in Nodes /\ n \in inUse /\ n # NULL
    BY <1>2, <1>5, Position DEF NodesOf
  <1>7. closing \in Clients /\ closing # NULL /\ state[closing] = "gone"
    BY <1>0, <1>1 DEF ClosingInv, Types
  <1>8. ClosingInv'
    BY <1>0, <1>1 DEF ClosingInv
  <1>9. ZombieJob(n) <=> work[n].client = closing
    BY <1>0, <1>6, <1>7, Numbers DEF ZombieJob, ClosingInv, Types
  <1>10. CASE ZombieJob(n) /\ RunFont(work[n]) /\ Unlink(zp) /\ UNCHANGED zp
    <2> DEFINE r == RemoveAt(q, i + 1)
    <2>1. Unlinked(q, i)
      BY <1>0, <1>2, <1>3, <1>5, <1>10, Unlinking
    <2>2. /\ inUse' = inUse \ {n} /\ \A m \in inUse' : m \in inUse /\ work'[m] = work[m]
          /\ workQueueLast' = workQueueLast
      BY <1>0, <2>1 DEF Unlinked, Types
    <2>3. work[n].client = closing /\ work[n] # Connecting
      BY <1>7, <1>9, <1>10, Numbers DEF Connecting
    <2>4. /\ ClientWakeup(closing) /\ live' = live \ {work[n].closure}
          /\ UNCHANGED suspended
      BY <1>7, <1>10, <2>3 DEF RunFont
    <2>5. ignored' = ignored
      BY <1>7, <2>4 DEF ClientWakeup
    <2>6. Types'
      <3>1. zp' = zp /\ live' \subseteq live
        BY <1>10, <2>4
      <3> QED BY <1>0, <1>1, <2>1, <2>4, <2>5, <3>1
            DEF Types, Unlinked, ListTypes, Job
    <2>7. ListInv'
      <3>1. r \in Seq(Nodes) /\ IsList(r, next') /\ NodesOf(r) = inUse'
        BY <2>1 DEF Unlinked, IsList
      <3>2. /\ Len(r) = Len(q) - 1
            /\ \A j \in 1 .. Len(q) - 1 : r[j] = IF j < i + 1 THEN q[j] ELSE q[j + 1]
        BY <1>5, TakenOut
      <3> HIDE DEF r
      <3>3. i \in 0 .. Len(r) /\ \A j \in 1 .. i : r[j] = q[j] /\ j \in 1 .. Len(r)
        BY <1>5, <3>2
      <3>4. zp' = LinkAt(r, i)
        BY <1>3, <1>10, <3>3 DEF LinkAt
      <3>5. \A j \in 1 .. i : work'[r[j]].client # closing'
        <4> SUFFICES ASSUME NEW j \in 1 .. i PROVE work'[r[j]].client # closing'
          OBVIOUS
        <4>1. r[j] \in inUse'
          BY <3>1, <3>3 DEF NodesOf
        <4> QED BY <1>1, <1>3, <2>2, <3>3, <4>1
      <3>6. ret = "Establish" => r # <<>> /\ work'[r[1]] = Connecting
        <4> SUFFICES ASSUME ret = "Establish" PROVE r # <<>> /\ work'[r[1]] = Connecting
          OBVIOUS
        <4>1. q # <<>> /\ work[q[1]] = Connecting
          BY <1>1, <1>2 DEF Placed
        <4>2. i # 0
          BY <2>3, <4>1
        <4>3. 1 \in 1 .. i /\ r[1] = q[1] /\ 1 \in 1 .. Len(r)
          BY <3>3, <4>2
        <4>4. r # <<>> /\ r[1] \in inUse'
          BY <3>1, <4>3 DEF NodesOf
        <4> QED BY <2>2, <4>1, <4>3, <4>4
      <3>7. Placed(r)'
        BY <1>1, <3>3, <3>4, <3>5, <3>6 DEF Placed
      <3> QED BY <3>1, <3>7 DEF ListInv
    <2>8. OneEach'
      BY <1>0, <1>1, <2>2 DEF OneEach
    <2>9. CASE work[n] \in Sleepers(sleepQueue)
      <3>1. Woke(work[n])
        BY <1>0, <2>3, <2>4, <2>9, RunAsleep
      <3>2. /\ \A x, y \in Sleepers(sleepQueue') : x.closure = y.closure => x = y
            /\ live' = {x.closure : x \in Sleepers(sleepQueue')}
            /\ \A x \in Sleepers(sleepQueue') :
                  x \in Sleepers(sleepQueue) /\ x.client # closing
        BY <1>0, <2>3, <2>9, <3>1, WokeSound
      <3>3. SleepInv'
        BY <1>0, <1>1, <2>5, <3>1, <3>2 DEF SleepInv, Woke, Entry
      <3>4. JobsInv'
        <4>1. ASSUME NEW m \in inUse', work'[m] # Connecting,
                     work'[m] \notin Sleepers(sleepQueue')
              PROVE  work'[m].client = closing /\ work'[m].closure \notin live'
          <5>1. m \in inUse /\ work'[m] = work[m] /\ live' = live \ {work[n].closure}
            BY <2>2, <2>4
          <5>2. CASE work[m] \in Sleepers(sleepQueue)
            <6>1. work[m] = work[n]
              BY <3>1, <4>1, <5>1, <5>2 DEF Woke
            <6> QED BY <2>3, <5>1, <6>1
          <5>3. CASE work[m] \notin Sleepers(sleepQueue)
            BY <1>0, <4>1, <5>1, <5>3 DEF JobsInv
          <5> QED BY <5>2, <5>3
        <4> QED BY <1>1, <1>7, <3>2, <4>1 DEF JobsInv
      <3>5. SuspendedInv'
        <4> SUFFICES ASSUME NEW c \in suspended
                     PROVE  /\ state[c] = "up"
                            /\ \E x \in Sleepers(sleepQueue') : x.client = c
                            /\ \A m \in inUse' : work'[m].client # c
          BY <1>1, <2>4 DEF SuspendedInv
        <4>1. PICK x \in Sleepers(sleepQueue) : x.client = c
          BY <1>0 DEF SuspendedInv
        <4>2. state[c] = "up" /\ \A m \in inUse : work[m].client # c
          BY <1>0 DEF SuspendedInv
        <4>3. x \in Sleepers(sleepQueue')
          BY <1>6, <3>1, <4>1, <4>2 DEF Woke
        <4> QED BY <2>2, <4>1, <4>2, <4>3
      <3> QED BY <1>8, <2>6, <2>7, <2>8, <3>3, <3>4, <3>5 DEF IInv
    <2>10. CASE work[n] \notin Sleepers(sleepQueue)
      <3>1. /\ \A x \in Sleepers(sleepQueue) : x.client # closing
            /\ work[n].closure \notin live
        BY <1>0, <1>6, <2>3, <2>10 DEF JobsInv
      <3>2. ~Asleep(closing)
        BY <1>0, <3>1, AsleepIs DEF SleepInv
      <3>3. sleepQueue' = sleepQueue /\ live' = live
        BY <2>4, <3>1, <3>2 DEF ClientWakeup
      <3>4. SleepInv'
        BY <1>0, <1>1, <2>5, <3>1, <3>3 DEF SleepInv
      <3>5. JobsInv'
        BY <1>0, <1>1, <2>2, <3>3 DEF JobsInv
      <3>6. SuspendedInv'
        BY <1>0, <1>1, <2>2, <2>4, <3>3 DEF SuspendedInv
      <3> QED BY <1>8, <2>6, <2>7, <2>8, <3>4, <3>5, <3>6 DEF IInv
    <2> QED BY <2>9, <2>10
  <1>11. CASE ~ZombieJob(n) /\ zp' = n /\ UNCHANGED <<listVars, sleepVars>>
    <2>1. UNCHANGED <<work, next, inUse, workQueueLast, sleepQueue, ignored, suspended, live>>
      BY <1>11 DEF listVars, sleepVars
    <2>2. Types'
      BY <1>0, <1>1, <1>6, <1>11, <2>1, Numbers DEF Types
    <2>3. ListInv'
      <3>1. zp' = LinkAt(q, i + 1)
        BY <1>5, <1>11 DEF LinkAt
      <3>2. \A j \in 1 .. i + 1 : work[q[j]].client # closing
        BY <1>3, <1>9, <1>11
      <3>3. Placed(q)'
        BY <1>1, <1>2, <1>5, <2>1, <3>1, <3>2 DEF Placed
      <3> QED BY <1>2, <2>1, <3>3 DEF ListInv
    <2>4. OneEach' /\ SleepInv'
      BY <1>0, <1>1, <2>1 DEF OneEach, SleepInv
    <2>5. JobsInv' /\ SuspendedInv'
      BY <1>0, <1>1, <2>1 DEF JobsInv, SuspendedInv
    <2> QED BY <1>8, <2>2, <2>3, <2>4, <2>5 DEF IInv
  <1> QED BY <1>5, <1>10, <1>11 DEF Zombies

LEMMA ZombiesEndStep == ASSUME IInv, ZombiesEnd PROVE IInv'
  <1>0. Types /\ ListInv /\ ClosingInv /\ OneEach /\ SleepInv /\ JobsInv /\ SuspendedInv
    BY DEF IInv
  <1>1. /\ pc = "Zombies" /\ next[zp] = NULL /\ workQueueLast' = zp
        /\ state' = [state EXCEPT ![closing] = "none"]
        /\ marked' = marked \ {closing} /\ ignored' = ignored \ {closing}
        /\ pc' = ret /\ closing' = NULL /\ zp' = workQueue
        /\ UNCHANGED <<work, next, inUse, sleepQueue, suspended, live, p, ret, sleeps>>
    BY DEF ZombiesEnd, countVars
  <1>2. PICK q \in Seq(Nodes) : IsList(q, next) /\ NodesOf(q) = inUse /\ Placed(q)
    BY <1>0 DEF ListInv
  <1>3. PICK i \in 0 .. Len(q) :
            zp = LinkAt(q, i) /\ \A j \in 1 .. i : work[q[j]].client # closing
    BY <1>1, <1>2 DEF Placed
  <1>4. i = Len(q)
    <2> SUFFICES ASSUME i < Len(q) PROVE FALSE
      BY <1>3
    <2>1. next[zp] = q[i + 1] /\ i + 1 \in 1 .. Len(q)
      BY <1>2, <1>3 DEF IsList, After
    <2> QED BY <1>1, <2>1, Position
  <1>5. closing \in Clients /\ closing # NULL /\ state[closing] = "gone"
    BY <1>0, <1>1 DEF ClosingInv, Types
  <1>6. \A n \in inUse : work[n].client # closing
    BY <1>2, <1>3, <1>4 DEF NodesOf
  <1>7. ret \in {"Dispatch", "Establish"}
    BY <1>0 DEF Types
  <1>8. Types'
    BY <1>0, <1>1, <1>7, Numbers DEF Types
  <1>9. ListInv'
    <2>1. ret = "Establish" => q # <<>> /\ work[q[1]] = Connecting
      BY <1>1, <1>2 DEF Placed
    <2>2. Placed(q)'
      BY <1>1, <1>3, <1>4, <1>7, <2>1 DEF Placed
    <2> QED BY <1>1, <1>2, <2>2 DEF ListInv
  <1>10. ClosingInv'
    BY <1>0, <1>1, <1>7, Numbers DEF ClosingInv, Types
  <1>11. OneEach'
    BY <1>0, <1>1, <1>6 DEF OneEach
  <1>12. \A x \in Sleepers(sleepQueue) :
             /\ x.client \in Clients /\ x.client # closing
             /\ state[x.client] = "up" /\ x.client \in ignored
    <2> SUFFICES ASSUME NEW x \in Sleepers(sleepQueue)
                 PROVE  /\ x.client \in Clients /\ x.client # closing
                        /\ state[x.client] = "up" /\ x.client \in ignored
      OBVIOUS
    <2>1. x.client \in Clients
      BY <1>0, EntryTypes
    <2>2. state[x.client] = "up" /\ x.client \in ignored
      BY <1>0, <1>6 DEF SleepInv
    <2> QED BY <1>5, <2>1, <2>2
  <1>13. SleepInv'
    <2>1. \A x \in Sleepers(sleepQueue) : state'[x.client] = "up" /\ x.client \in ignored'
      BY <1>0, <1>1, <1>12 DEF Types
    <2> QED BY <1>0, <1>1, <2>1 DEF SleepInv
  <1>14. JobsInv'
    BY <1>0, <1>1, <1>6, <1>7 DEF JobsInv
  <1>15. SuspendedInv'
    <2>1. \A c \in suspended : c \in Clients /\ c # closing /\ state[c] = "up"
      BY <1>0, <1>5 DEF SuspendedInv, Types
    <2> QED BY <1>0, <1>1, <2>1 DEF SuspendedInv, Types
  <1> QED BY <1>8, <1>9, <1>10, <1>11, <1>13, <1>14, <1>15 DEF IInv

\* The main walk and the main loop: nobody is being closed.
LEMMA Outside ==
    ASSUME IInv, pc # "Zombies"
    PROVE  /\ closing = NULL
           /\ \A x \in Sleepers(sleepQueue) : state[x.client] = "up" /\ x.client \in ignored
           /\ \A n \in inUse : work[n] # Connecting => work[n] \in Sleepers(sleepQueue)
           /\ \A m, n \in inUse : work[m].client = work[n].client => m = n
           /\ \A c \in Clients : state[c] # "gone"
  <1>0. ClosingInv /\ OneEach /\ SleepInv /\ JobsInv
    BY DEF IInv
  <1>1. closing = NULL
    BY <1>0 DEF ClosingInv
  <1>2. \A x \in Sleepers(sleepQueue) : state[x.client] = "up" /\ x.client \in ignored
    BY <1>0, <1>1, EntryTypes DEF SleepInv
  <1>3. \A n \in inUse : work[n] # Connecting => work[n] \in Sleepers(sleepQueue)
    BY <1>0, <1>1 DEF JobsInv
  <1>4. \A m, n \in inUse : work[m].client = work[n].client => m = n
    BY <1>0, <1>1 DEF OneEach
  <1>5. \A c \in Clients : state[c] # "gone"
    BY <1>0, <1>1, Numbers DEF ClosingInv
  <1> QED BY <1>1, <1>2, <1>3, <1>4, <1>5

\* The list without its head, which leaves the last link where it is.
LEMMA HeadTaken ==
    ASSUME IInv, pc \in {"Process", "Establish"},
           NEW q \in Seq(Nodes), IsList(q, next), NodesOf(q) = inUse, Placed(q),
           q # <<>>, Unlinked(q, 0), pc' = "Process"
    PROVE  ListInv'
  <1> DEFINE r == RemoveAt(q, 1)
  <1>1. r \in Seq(Nodes) /\ IsList(r, next') /\ NodesOf(r) = inUse'
    BY DEF Unlinked, IsList
  <1>2. Len(q) \in Nat /\ 1 \in 1 .. Len(q)
    OBVIOUS
  <1>3. /\ Len(r) = Len(q) - 1
        /\ \A j \in 1 .. Len(q) - 1 : r[j] = IF j < 1 THEN q[j] ELSE q[j + 1]
    BY <1>2, TakenOut
  <1> HIDE DEF r
  <1>4. r # <<>> => workQueueLast' = LinkAt(r, Len(r))
    <2> SUFFICES ASSUME r # <<>> PROVE workQueueLast' = LinkAt(r, Len(r))
      OBVIOUS
    <2>1. Len(r) \in 1 .. Len(q) - 1 /\ ~(Len(r) < 1) /\ Len(r) + 1 = Len(q)
      BY <1>1, <1>2, <1>3
    <2>2. r[Len(r)] = q[Len(q)]
      BY <1>3, <2>1
    <2>3. workQueueLast = q[Len(q)]
      BY <1>2 DEF Placed, LinkAt
    <2> QED BY <1>2, <2>1, <2>2, <2>3 DEF Unlinked, LinkAt
  <1>5. Placed(r)'
    BY <1>4 DEF Placed
  <1> QED BY <1>1, <1>5 DEF ListInv

LEMMA ProcessFontStep == ASSUME IInv, ProcessFont PROVE IInv'
  <1>0. Types /\ ListInv /\ ClosingInv /\ OneEach /\ SleepInv /\ JobsInv /\ SuspendedInv
    BY DEF IInv
  <1>1. /\ pc = "Process" /\ next[p] # NULL /\ p = workQueue /\ work[next[p]] # Connecting
        /\ RunFont(work[next[p]]) /\ Unlink(p)
        /\ UNCHANGED <<state, marked, pc, p, zp, closing, ret, sleeps>>
    BY <1>0 DEF ProcessFont, clientVars, threadVars, countVars, Types
  <1>2. PICK q \in Seq(Nodes) : IsList(q, next) /\ NodesOf(q) = inUse /\ Placed(q)
    BY <1>0 DEF ListInv
  <1>3. /\ q # <<>> /\ 0 \in 0 .. Len(q) - 1 /\ 0 + 1 = 1 /\ 1 \in 1 .. Len(q)
        /\ p = LinkAt(q, 0) /\ next[p] = q[1]
    BY <1>1, <1>2 DEF IsList, LinkAt, After
  <1> DEFINE n == q[1]
  <1>4. Unlinked(q, 0)
    BY <1>0, <1>1, <1>2, <1>3, Unlinking
  <1>5. n \in Nodes /\ n \in inUse
    BY <1>2, <1>3, Position DEF NodesOf
  <1> DEFINE e == work[n]
  <1>6. /\ inUse' = inUse \ {n} /\ \A m \in inUse' : m \in inUse /\ work'[m] = work[m]
    BY <1>0, <1>3, <1>4 DEF Unlinked, Types
  <1>7. /\ e # Connecting /\ RunFont(e)
    BY <1>1, <1>3
  <1>8. /\ closing = NULL
        /\ \A x \in Sleepers(sleepQueue) : state[x.client] = "up" /\ x.client \in ignored
        /\ \A m \in inUse : work[m] # Connecting => work[m] \in Sleepers(sleepQueue)
        /\ \A m, k \in inUse : work[m].client = work[k].client => m = k
    BY <1>1, Outside
  <1>9. e \in Sleepers(sleepQueue) /\ state[e.client] = "up" /\ e.client \in Clients
    BY <1>0, <1>5, <1>7, <1>8, EntryTypes
  <1>10. \A m \in inUse' : work'[m].client # e.client
    BY <1>5, <1>6, <1>8
  <1>11. ListInv'
    BY <1>1, <1>2, <1>3, <1>4, HeadTaken
  <1>12. ClosingInv' /\ OneEach'
    BY <1>0, <1>1, <1>6, <1>8 DEF ClosingInv, OneEach
  <1>13. pc' # "Select"
    BY <1>1
  <1> HIDE DEF e
  <1>14. CASE /\ suspended' = suspended \cup {e.client}
              /\ UNCHANGED <<sleepQueue, ignored, live>>
    <2>1. Types'
      BY <1>0, <1>1, <1>4, <1>9, <1>14 DEF Types, Unlinked, ListTypes, Job
    <2>2. SleepInv'
      BY <1>0, <1>1, <1>8, <1>14 DEF SleepInv
    <2>3. JobsInv'
      BY <1>6, <1>8, <1>13, <1>14 DEF JobsInv
    <2>4. SuspendedInv'
      BY <1>0, <1>1, <1>6, <1>9, <1>10, <1>14 DEF SuspendedInv
    <2> QED BY <1>11, <1>12, <2>1, <2>2, <2>3, <2>4 DEF IInv
  <1>15. CASE /\ ClientWakeup(e.client) /\ live' = live \ {e.closure}
              /\ suspended' = suspended
    <2>1. Woke(e) /\ ignored' = ignored \ {e.client}
      BY <1>0, <1>9, <1>15, RunAsleep
    <2>2. /\ \A x, y \in Sleepers(sleepQueue') : x.closure = y.closure => x = y
          /\ live' = {x.closure : x \in Sleepers(sleepQueue')}
          /\ \A x \in Sleepers(sleepQueue') :
                x \in Sleepers(sleepQueue) /\ x.client # e.client
      BY <1>0, <1>9, <2>1, WokeSound
    <2>3. Types'
      BY <1>0, <1>1, <1>4, <1>15, <2>1 DEF Types, Unlinked, ListTypes, Job
    <2>4. SleepInv'
      BY <1>1, <1>8, <2>1, <2>2 DEF SleepInv, Woke, Entry
    <2>5. JobsInv'
      <3>1. ASSUME NEW m \in inUse', work'[m] # Connecting
            PROVE  work'[m] \in Sleepers(sleepQueue')
        BY <1>6, <1>8, <1>10, <2>1, <3>1 DEF Woke
      <3> QED BY <1>13, <3>1 DEF JobsInv
    <2>6. SuspendedInv'
      <3> SUFFICES ASSUME NEW c \in suspended
                   PROVE  /\ state[c] = "up"
                          /\ \E x \in Sleepers(sleepQueue') : x.client = c
                          /\ \A m \in inUse' : work'[m].client # c
        BY <1>1, <1>15 DEF SuspendedInv
      <3>1. /\ state[c] = "up" /\ \A m \in inUse : work[m].client # c
            /\ \E x \in Sleepers(sleepQueue) : x.client = c
        BY <1>0 DEF SuspendedInv
      <3>2. e.client # c
        BY <1>5, <3>1 DEF e
      <3> QED BY <1>6, <2>1, <3>1, <3>2 DEF Woke
    <2> QED BY <1>11, <1>12, <2>3, <2>4, <2>5, <2>6 DEF IInv
  <1> QED BY <1>7, <1>14, <1>15 DEF RunFont

\* A connection is accepted: its job is at the head of the list.
LEMMA AcceptStep == ASSUME IInv, Accept PROVE IInv'
  <1>0. Types /\ ListInv /\ ClosingInv /\ OneEach /\ SleepInv /\ JobsInv /\ SuspendedInv
    BY DEF IInv
  <1>1. /\ pc = "Establish" /\ pc' = "Process" /\ p = workQueue /\ Unlink(p)
        /\ UNCHANGED <<sleepQueue, ignored, suspended, live, marked, p, zp, closing,
                       ret, sleeps>>
    BY <1>0 DEF Accept, sleepVars, countVars, Types
  <1>2. PICK q \in Seq(Nodes) : IsList(q, next) /\ NodesOf(q) = inUse /\ Placed(q)
    BY <1>0 DEF ListInv
  <1>3. /\ q # <<>> /\ 0 \in 0 .. Len(q) - 1 /\ 0 + 1 = 1 /\ 1 \in 1 .. Len(q)
        /\ p = LinkAt(q, 0)
    BY <1>1, <1>2 DEF Placed, LinkAt
  <1>4. Unlinked(q, 0)
    BY <1>0, <1>1, <1>2, <1>3, Unlinking
  <1>5. /\ inUse' = inUse \ {q[1]}
        /\ \A m \in inUse' : m \in inUse /\ work'[m] = work[m]
    BY <1>0, <1>3, <1>4 DEF Unlinked, Types
  <1>6. /\ state' \in [Clients -> {"none", "up", "gone"}]
        /\ \A c \in Clients : state[c] # "none" => state'[c] = state[c]
        /\ \A c \in Clients : state'[c] = "gone" => state[c] = "gone"
    <2>1. CASE \E c \in Clients : state[c] = "none"
      <3> DEFINE new == CHOOSE c \in Clients :
                          /\ state[c] = "none"
                          /\ \A d \in 1 .. c - 1 : state[d] # "none"
      <3>1. state' = [state EXCEPT ![new] = "up"]
        BY <2>1 DEF Accept
      <3>2. new \in Clients /\ state[new] = "none"
        <4> DEFINE S == {c \in Clients : state[c] = "none"}
        <4>1. S \in SUBSET Nat /\ S # {}
          BY <2>1, Numbers
        <4>2. PICK c \in S : \A d \in S : c <= d
          <5> HIDE DEF S
          <5> QED BY <4>1, Least
        <4>3. \A d \in 1 .. c - 1 : d \in Clients /\ d \in Nat /\ ~(c <= d)
          BY BoundsAssumption DEF Clients
        <4>4. \A d \in 1 .. c - 1 : state[d] # "none"
          BY <4>2, <4>3
        <4> QED BY <4>2, <4>4
      <3> HIDE DEF new
      <3> QED BY <1>0, <3>1, <3>2 DEF Types
    <2>2. CASE ~\E c \in Clients : state[c] = "none"
      <3>1. state' = state
        BY <2>2 DEF Accept
      <3> QED BY <1>0, <3>1 DEF Types
    <2> QED BY <2>1, <2>2
  <1>7. /\ closing = NULL
        /\ \A x \in Sleepers(sleepQueue) : state[x.client] = "up" /\ x.client \in ignored
        /\ \A m \in inUse : work[m] # Connecting => work[m] \in Sleepers(sleepQueue)
        /\ \A m, k \in inUse : work[m].client = work[k].client => m = k
        /\ \A c \in Clients : state[c] # "gone"
    BY <1>1, Outside
  <1>8. Types'
    BY <1>0, <1>1, <1>4, <1>6 DEF Types, Unlinked, ListTypes, Job
  <1>9. ListInv'
    BY <1>1, <1>2, <1>3, <1>4, HeadTaken
  <1>10. ClosingInv' /\ OneEach'
    <2>1. \A c \in Clients : state'[c] # "gone" /\ c # NULL
      BY <1>6, <1>7, Numbers
    <2>2. ClosingInv'
      BY <1>1, <1>7, <2>1 DEF ClosingInv
    <2>3. OneEach'
      BY <1>5, <1>7 DEF OneEach
    <2> QED BY <2>2, <2>3
  <1>11. SleepInv'
    <2>1. \A x \in Sleepers(sleepQueue) : state'[x.client] = "up" /\ x.client \in ignored
      BY <1>0, <1>6, <1>7, EntryTypes
    <2> QED BY <1>0, <1>1, <2>1 DEF SleepInv
  <1>12. JobsInv'
    BY <1>1, <1>5, <1>7 DEF JobsInv
  <1>13. SuspendedInv'
    <2>1. \A c \in suspended : c \in Clients /\ state'[c] = "up"
      BY <1>0, <1>6 DEF SuspendedInv, Types
    <2> QED BY <1>0, <1>1, <1>5, <2>1 DEF SuspendedInv
  <1> QED BY <1>8, <1>9, <1>10, <1>11, <1>12, <1>13 DEF IInv

\* Steps that leave list and sleepers alone, between two places of the thread.
LEMMA MoveStep ==
    ASSUME IInv, pc # "Zombies",
           UNCHANGED <<listVars, sleepVars, clientVars, zp, closing, ret, sleeps>>,
           p' = workQueue,
           \/ pc = "Dispatch" /\ pc' = "Process"
           \/ pc = "Process" /\ pc' = "Establish" /\ next[workQueue] # NULL
                             /\ work[next[workQueue]] = Connecting
    PROVE  IInv'
  <1>0. Types /\ ListInv /\ ClosingInv /\ OneEach /\ SleepInv /\ JobsInv /\ SuspendedInv
    BY DEF IInv
  <1>1. UNCHANGED <<work, next, inUse, workQueueLast, sleepQueue, ignored, suspended,
                    live, state, marked, zp, closing, ret, sleeps>>
    BY DEF listVars, sleepVars, clientVars
  <1>2. PICK q \in Seq(Nodes) : IsList(q, next) /\ NodesOf(q) = inUse /\ Placed(q)
    BY <1>0 DEF ListInv
  <1>3. pc' \in {"Process", "Establish"}
    OBVIOUS
  <1>4. Types'
    BY <1>0, <1>1, <1>3 DEF Types
  <1>5. pc' = "Establish" => q # <<>> /\ work[q[1]] = Connecting
    <2> SUFFICES ASSUME pc' = "Establish" PROVE q # <<>> /\ work[q[1]] = Connecting
      OBVIOUS
    <2>1. next[workQueue] = After(q, 0)
      BY <1>2 DEF IsList, LinkAt
    <2>2. 0 < Len(q) /\ After(q, 0) = q[1]
      BY <2>1 DEF After
    <2> QED BY <2>1, <2>2
  <1>6. Placed(q)'
    <2>1. q # <<>> => workQueueLast = LinkAt(q, Len(q))
      BY <1>2 DEF Placed
    <2>2. pc' = "Establish" => workQueueLast = LinkAt(q, Len(q))
      BY <1>5, <2>1
    <2> QED BY <1>1, <1>3, <1>5, <2>1, <2>2 DEF Placed
  <1>7. ListInv'
    BY <1>1, <1>2, <1>6 DEF ListInv
  <1>8. ClosingInv' /\ OneEach' /\ SleepInv'
    BY <1>0, <1>1, <1>3 DEF ClosingInv, OneEach, SleepInv
  <1>9. JobsInv' /\ SuspendedInv'
    BY <1>0, <1>1, <1>3 DEF JobsInv, SuspendedInv
  <1> QED BY <1>4, <1>7, <1>8, <1>9 DEF IInv

LEMMA ProcessEndStep == ASSUME IInv, ProcessEnd PROVE IInv'
  <1>0. Types /\ ListInv /\ ClosingInv /\ OneEach /\ SleepInv /\ JobsInv /\ SuspendedInv
    BY DEF IInv
  <1>1. /\ pc = "Process" /\ next[p] = NULL /\ p = workQueue /\ workQueueLast' = p
        /\ pc' = "Select"
        /\ UNCHANGED <<work, next, inUse, sleepQueue, ignored, suspended, live, state,
                       marked, p, zp, closing, ret, sleeps>>
    BY <1>0 DEF ProcessEnd, sleepVars, clientVars, countVars, Types
  <1>2. PICK q \in Seq(Nodes) : IsList(q, next) /\ NodesOf(q) = inUse /\ Placed(q)
    BY <1>0 DEF ListInv
  <1>3. Len(q) = 0
    <2> SUFFICES ASSUME Len(q) # 0 PROVE FALSE
      OBVIOUS
    <2>1. 1 \in 1 .. Len(q) /\ next[p] = q[1]
      BY <1>1, <1>2 DEF IsList, LinkAt, After
    <2> QED BY <1>1, <2>1, Position
  <1>4. inUse = {}
    BY <1>2, <1>3 DEF NodesOf
  <1>5. Types'
    BY <1>0, <1>1, Numbers DEF Types
  <1>6. ListInv'
    <2>1. Placed(q)'
      BY <1>1, <1>3 DEF Placed, LinkAt
    <2> QED BY <1>1, <1>2, <2>1 DEF ListInv
  <1>7. ClosingInv' /\ OneEach' /\ SleepInv'
    BY <1>0, <1>1 DEF ClosingInv, OneEach, SleepInv
  <1>8. JobsInv' /\ SuspendedInv'
    BY <1>0, <1>1, <1>4 DEF JobsInv, SuspendedInv
  <1> QED BY <1>5, <1>6, <1>7, <1>8 DEF IInv

\* The server of a client's font answers: the client is signalled.
LEMMA AnswerStep == ASSUME IInv, NEW c \in Clients, Answer(c) PROVE IInv'
  <1>0. Types /\ ListInv /\ ClosingInv /\ OneEach /\ SleepInv /\ JobsInv /\ SuspendedInv
    BY DEF IInv
  <1>1. /\ pc = "Select" /\ c \in suspended /\ ClientSignal(c)
        /\ suspended' = suspended \ {c}
        /\ UNCHANGED <<sleepQueue, ignored, live, state, marked, pc, p, zp, closing,
                       ret, sleeps>>
    BY DEF Answer, clientVars, threadVars
  <1>2. PICK q \in Seq(Nodes) : IsList(q, next) /\ NodesOf(q) = inUse /\ Placed(q)
    BY <1>0 DEF ListInv
  <1>3. workQueueLast = LinkAt(q, Len(q))
    BY <1>1, <1>2 DEF Placed
  <1>4. PICK e \in Sleepers(sleepQueue) : e.client = c
    BY <1>0, <1>1 DEF SuspendedInv
  <1>5. sleepQueue[SleepEntry(c)] = e
    BY <1>0, <1>4, EntryFound DEF SleepInv
  <1>6. /\ e \in Job /\ e # Connecting /\ QueueWorkProc(e)
    <2>1. QueueWorkProc(FontJob(c, e.closure))
      BY <1>1, <1>5 DEF ClientSignal
    <2>2. e \in Entry(sleeps) /\ e = FontJob(c, e.closure) /\ e # Connecting
      BY <1>0, <1>4, EntryTypes
    <2>3. e \in Job
      BY <1>0, <2>2, Numbers DEF Entry, Job, Types
    <2> QED BY <2>1, <2>2, <2>3
  <1>7. PICK n \in Nodes : Queued(q, n, e)
    BY <1>0, <1>2, <1>3, <1>6, Queueing, NodeFree
  <1>8. /\ n \notin inUse /\ inUse' = inUse \cup {n} /\ work'[n] = e
        /\ \A m \in inUse : work'[m] = work[m]
        /\ workQueueLast' = n
    BY <1>0, <1>7 DEF Queued, Types
  <1>9. /\ closing = NULL
        /\ \A x \in Sleepers(sleepQueue) : state[x.client] = "up" /\ x.client \in ignored
        /\ \A m \in inUse : work[m] # Connecting => work[m] \in Sleepers(sleepQueue)
        /\ \A m, k \in inUse : work[m].client = work[k].client => m = k
    BY <1>1, Outside
  <1>10. \A m \in inUse : work[m].client # c /\ work[m] # Connecting
    BY <1>0, <1>1 DEF SuspendedInv, JobsInv
  <1>11. Types'
    BY <1>0, <1>1, <1>7 DEF Types, Queued, ListTypes, Job
  <1>12. ListInv'
    <2> DEFINE r == Append(q, n)
    <2>1. r \in Seq(Nodes) /\ IsList(r, next') /\ NodesOf(r) = inUse'
      BY <1>7 DEF Queued
    <2>2. LinkAt(r, Len(r)) = n
      BY <1>2 DEF LinkAt
    <2>3. Placed(r)'
      <3> HIDE DEF r
      <3> QED BY <1>1, <1>8, <2>2 DEF Placed
    <2> QED BY <2>1, <2>3 DEF ListInv
  <1>13. ClosingInv'
    BY <1>0, <1>1 DEF ClosingInv
  <1>14. OneEach'
    BY <1>4, <1>8, <1>9, <1>10 DEF OneEach
  <1>15. SleepInv'
    BY <1>0, <1>1, <1>9 DEF SleepInv
  <1>16. JobsInv'
    BY <1>1, <1>6, <1>8, <1>9, <1>10 DEF JobsInv
  <1>17. SuspendedInv'
    BY <1>0, <1>1, <1>4, <1>8 DEF SuspendedInv
  <1> QED BY <1>11, <1>12, <1>13, <1>14, <1>15, <1>16, <1>17 DEF IInv

LEMMA SelectStep == ASSUME IInv, Select PROVE IInv'
  <1>0. Types /\ ListInv /\ ClosingInv /\ OneEach /\ SleepInv /\ JobsInv /\ SuspendedInv
    BY DEF IInv
  <1>1. /\ pc = "Select" /\ pc' \in {"Dispatch", "Process"} /\ p' = workQueue
        /\ UNCHANGED <<sleepQueue, ignored, suspended, live, state, marked, zp, closing,
                       ret, sleeps>>
    BY <1>0 DEF Select, sleepVars, clientVars, Types
  <1>2. PICK q \in Seq(Nodes) : IsList(q, next) /\ NodesOf(q) = inUse /\ Placed(q)
    BY <1>0 DEF ListInv
  <1>3. workQueueLast = LinkAt(q, Len(q))
    BY <1>1, <1>2 DEF Placed
  <1>4. /\ closing = NULL
        /\ \A x \in Sleepers(sleepQueue) : state[x.client] = "up" /\ x.client \in ignored
        /\ \A m \in inUse : work[m] # Connecting => work[m] \in Sleepers(sleepQueue)
        /\ \A m, k \in inUse : work[m].client = work[k].client => m = k
    BY <1>1, Outside
  <1>5. ClosingInv' /\ SleepInv'
    BY <1>0, <1>1, <1>4 DEF ClosingInv, SleepInv
  <1>6. CASE UNCHANGED listVars
    <2>1. UNCHANGED <<work, next, inUse, workQueueLast>>
      BY <1>6 DEF listVars
    <2>2. Types'
      BY <1>0, <1>1, <2>1 DEF Types
    <2>3. ListInv'
      <3>1. Placed(q)'
        BY <1>1, <1>3, <2>1 DEF Placed
      <3> QED BY <1>2, <2>1, <3>1 DEF ListInv
    <2>4. OneEach' /\ JobsInv' /\ SuspendedInv'
      BY <1>0, <1>1, <2>1 DEF OneEach, JobsInv, SuspendedInv
    <2> QED BY <1>5, <2>2, <2>3, <2>4 DEF IInv
  <1>7. CASE QueueWorkProc(Connecting)
    <2>1. Connecting \in Job
      BY Numbers DEF Connecting, Job
    <2>2. PICK n \in Nodes : Queued(q, n, Connecting)
      BY <1>0, <1>2, <1>3, <1>7, <2>1, Queueing, NodeFree
    <2>3. /\ n \notin inUse /\ inUse' = inUse \cup {n} /\ work'[n] = Connecting
          /\ \A m \in inUse : work'[m] = work[m]
          /\ workQueueLast' = n
      BY <1>0, <2>2 DEF Queued, Types
    <2>4. \A m \in inUse : work[m].client # NULL
      <3>1. \A m \in inUse : work[m] \in Sleepers(sleepQueue)
        BY <1>0, <1>1, <1>4 DEF JobsInv
      <3> QED BY <1>0, <3>1, EntryTypes
    <2>5. Types'
      BY <1>0, <1>1, <2>2 DEF Types, Queued, ListTypes, Job
    <2>6. ListInv'
      <3> DEFINE r == Append(q, n)
      <3>1. r \in Seq(Nodes) /\ IsList(r, next') /\ NodesOf(r) = inUse'
        BY <2>2 DEF Queued
      <3>2. LinkAt(r, Len(r)) = n
        BY <1>2 DEF LinkAt
      <3>3. Placed(r)'
        <4> HIDE DEF r
        <4> QED BY <1>1, <2>3, <3>2 DEF Placed
      <3> QED BY <3>1, <3>3 DEF ListInv
    <2>7. OneEach'
      <3>1. work'[n].client = NULL
        BY <2>3 DEF Connecting
      <3> QED BY <1>4, <2>3, <2>4, <3>1 DEF OneEach
    <2>8. JobsInv'
      BY <1>1, <1>4, <2>3 DEF JobsInv
    <2>9. SuspendedInv'
      <3>1. \A c \in suspended : c # NULL
        BY <1>0, Numbers DEF Types
      <3> QED BY <1>0, <1>1, <2>3, <3>1 DEF SuspendedInv, Connecting
    <2> QED BY <1>5, <2>5, <2>6, <2>7, <2>8, <2>9 DEF IInv
  <1> QED BY <1>6, <1>7 DEF Select

\* A request waits for its font server.
LEMMA RequestStep == ASSUME IInv, NEW c \in Clients, Request(c) PROVE IInv'
  <1>0. Types /\ ListInv /\ ClosingInv /\ OneEach /\ SleepInv /\ JobsInv /\ SuspendedInv
    BY DEF IInv
  <1> DEFINE e == [client |-> c, closure |-> sleeps + 1]
             s == <<e>> \o sleepQueue
  <1>1. /\ pc = "Dispatch" /\ state[c] = "up" /\ c \notin ignored /\ sleeps < MaxSleeps
        /\ sleeps' = sleeps + 1 /\ live' = live \cup {sleeps + 1}
        /\ sleepQueue' = s /\ ignored' = ignored \cup {c} /\ suspended' = suspended \cup {c}
        /\ UNCHANGED <<work, next, inUse, workQueueLast, state, marked, pc, p, zp, closing,
                       ret>>
    BY DEF Request, listVars, clientVars, threadVars
  <1>2. /\ closing = NULL
        /\ \A x \in Sleepers(sleepQueue) : state[x.client] = "up" /\ x.client \in ignored
        /\ \A m \in inUse : work[m] # Connecting => work[m] \in Sleepers(sleepQueue)
    BY <1>1, Outside
  <1>3. e \in Entry(sleeps + 1) /\ sleeps \in Nat /\ sleeps + 1 \in 1 .. MaxSleeps
    BY <1>0, <1>1, Numbers DEF Entry, Types
  <1>4. sleepQueue \in Seq(Entry(sleeps + 1)) /\ Once(sleepQueue)
    <2>1. sleepQueue \in Seq(Entry(sleeps)) /\ Once(sleepQueue)
      BY <1>0 DEF SleepInv, Entry
    <2>2. Entry(sleeps) \subseteq Entry(sleeps + 1)
      BY <1>3 DEF Entry
    <2> QED BY <2>1, <2>2
  <1>5. \A x \in Sleepers(sleepQueue) : x.client # e.client
    BY <1>1, <1>2
  <1>6. s \in Seq(Entry(sleeps + 1)) /\ Once(s) /\ Sleepers(s) = Sleepers(sleepQueue) \cup {e}
    <2> HIDE DEF e
    <2> QED BY <1>3, <1>4, <1>5, Slept
  <1>7. e.client = c /\ e.closure = sleeps + 1
    OBVIOUS
  <1> HIDE DEF s, e
  <1>8. Types'
    BY <1>0, <1>1, <1>3 DEF Types
  <1>9. ListInv' /\ ClosingInv' /\ OneEach'
    <2>1. PICK q \in Seq(Nodes) : IsList(q, next) /\ NodesOf(q) = inUse /\ Placed(q)
      BY <1>0 DEF ListInv
    <2>2. Placed(q)'
      BY <1>1, <2>1 DEF Placed
    <2> QED BY <1>0, <1>1, <2>1, <2>2 DEF ListInv, ClosingInv, OneEach
  <1>10. SleepInv'
    <2>1. \A x \in Sleepers(sleepQueue) : x.closure # sleeps + 1
      <3>1. \A x \in Sleepers(sleepQueue) : x.closure \in 1 .. sleeps
        BY <1>0, EntryTypes DEF Entry
      <3> QED BY <1>3, <3>1
    <2>2. \A x, y \in Sleepers(s) : x.closure = y.closure => x = y
      BY <1>0, <1>6, <1>7, <2>1 DEF SleepInv
    <2>3. live' = {x.closure : x \in Sleepers(s)}
      BY <1>0, <1>1, <1>6, <1>7 DEF SleepInv
    <2>4. \A x \in Sleepers(s) : state[x.client] = "up" /\ x.client \in ignored'
      BY <1>1, <1>2, <1>6, <1>7
    <2> QED BY <1>1, <1>6, <2>2, <2>3, <2>4 DEF SleepInv, Entry
  <1>11. JobsInv'
    BY <1>1, <1>2, <1>6 DEF JobsInv
  <1>12. SuspendedInv'
    <2>1. \A m \in inUse : work[m].client # c
      <3> SUFFICES ASSUME NEW m \in inUse PROVE work[m].client # c
        OBVIOUS
      <3>1. CASE work[m] = Connecting
        BY <3>1, Numbers DEF Connecting
      <3>2. CASE work[m] # Connecting
        BY <1>2, <1>5, <1>7, <3>2
      <3> QED BY <3>1, <3>2
    <2> QED BY <1>0, <1>1, <1>6, <1>7, <2>1 DEF SuspendedInv
  <1> QED BY <1>8, <1>9, <1>10, <1>11, <1>12 DEF IInv

\* Steps that change nothing the invariant is about.
LEMMA MarkStep ==
    ASSUME IInv, marked' \subseteq Clients,
           UNCHANGED <<listVars, sleepVars, state, threadVars, sleeps>>
    PROVE  IInv'
  <1>0. Types /\ ListInv /\ ClosingInv /\ OneEach /\ SleepInv /\ JobsInv /\ SuspendedInv
    BY DEF IInv
  <1>1. UNCHANGED <<work, next, inUse, workQueueLast, sleepQueue, ignored, suspended, live,
                    state, pc, p, zp, closing, ret, sleeps>>
    BY DEF listVars, sleepVars, threadVars
  <1>2. Types'
    BY <1>0, <1>1 DEF Types
  <1>3. ListInv'
    <2>1. PICK q \in Seq(Nodes) : IsList(q, next) /\ NodesOf(q) = inUse /\ Placed(q)
      BY <1>0 DEF ListInv
    <2>2. Placed(q)'
      BY <1>1, <2>1 DEF Placed
    <2> QED BY <1>1, <2>1, <2>2 DEF ListInv
  <1>4. ClosingInv' /\ OneEach' /\ SleepInv'
    BY <1>0, <1>1 DEF ClosingInv, OneEach, SleepInv
  <1>5. JobsInv' /\ SuspendedInv'
    BY <1>0, <1>1 DEF JobsInv, SuspendedInv
  <1> QED BY <1>2, <1>3, <1>4, <1>5 DEF IInv

LEMMA Inductive == IInv /\ [Next]_vars => IInv'
  <1> SUFFICES ASSUME IInv, [Next]_vars PROVE IInv'
    OBVIOUS
  <1>0. Types
    BY DEF IInv
  <1>1. CASE Zombies
    BY <1>1, ZombiesStep
  <1>2. CASE ZombiesEnd
    BY <1>2, ZombiesEndStep
  <1>3. CASE WaitForSomething
    BY <1>3, MoveStep DEF WaitForSomething, countVars
  <1>4. CASE ProcessFont
    BY <1>4, ProcessFontStep
  <1>5. CASE ProcessConnecting
    BY <1>0, <1>5, MoveStep DEF ProcessConnecting, countVars, Types
  <1>6. CASE ProcessEnd
    BY <1>6, ProcessEndStep
  <1>7. ASSUME NEW c \in Clients, Straggler(c) PROVE IInv'
    BY <1>7, CloseStep DEF Straggler
  <1>8. CASE Accept
    BY <1>8, AcceptStep
  <1>9. CASE Select
    BY <1>9, SelectStep
  <1>10. ASSUME NEW c \in Clients, Request(c) PROVE IInv'
    BY <1>10, RequestStep
  <1>11. ASSUME NEW c \in Clients, MarkClientException(c) PROVE IInv'
    BY <1>0, <1>11, MarkStep DEF MarkClientException, countVars, Types
  <1>12. ASSUME NEW c \in Clients, Kill(c) PROVE IInv'
    BY <1>12, CloseStep DEF Kill
  <1>13. ASSUME NEW c \in Clients, Answer(c) PROVE IInv'
    BY <1>13, AnswerStep
  <1>14. CASE UNCHANGED vars
    <2>1. /\ marked' = marked
          /\ UNCHANGED <<listVars, sleepVars, state, threadVars, sleeps>>
      BY <1>14 DEF vars, clientVars, countVars
    <2> QED BY <1>0, <2>1, MarkStep DEF Types
  <1> QED
    BY <1>1, <1>2, <1>3, <1>4, <1>5, <1>6, <1>7, <1>8, <1>9, <1>10, <1>11, <1>12, <1>13,
       <1>14 DEF Next, Thread

LEMMA Invariant == Spec => []IInv
  BY Initially, Inductive, PTL DEF Spec

-----------------------------------------------------------------------------
(* Who sleeps is there, with its closure and at most one job. *)

LEMMA InvSound == IInv => SleepersSound
  <1> SUFFICES ASSUME IInv PROVE SleepersSound
    OBVIOUS
  <1>0. Types /\ ListInv /\ ClosingInv /\ OneEach /\ SleepInv /\ JobsInv
    BY DEF IInv
  <1>1. DOMAIN sleepQueue = 1 .. Len(sleepQueue)
    BY <1>0 DEF SleepInv
  <1>2. TypeOK
    <2>1. inUse # Nodes
      BY <1>0, NodeFree
    <2> QED BY <1>0, <2>1, Numbers DEF Types, TypeOK
  <1>3. \A x \in Sleepers(sleepQueue) : state[x.client] # "none"
    <2>1. \A c \in Clients : c = closing => state[c] = "gone"
      BY <1>0 DEF ClosingInv
    <2> QED BY <1>0, <2>1, EntryTypes DEF SleepInv
  <1>4. NoZombies
    <2>1. ASSUME NEW n \in inUse, work[n].client # NULL PROVE state[work[n].client] # "none"
      <3>1. CASE work[n] \in Sleepers(sleepQueue)
        BY <1>3, <3>1
      <3>2. CASE closing # NULL /\ work[n].client = closing
        BY <1>0, <3>2 DEF ClosingInv, Types
      <3>3. work[n] # Connecting
        BY <2>1 DEF Connecting
      <3> QED BY <1>0, <3>1, <3>2, <3>3 DEF JobsInv
    <2>2. \A i \in DOMAIN sleepQueue : state[sleepQueue[i].client] # "none"
      BY <1>1, <1>3 DEF Sleepers
    <2> QED BY <2>1, <2>2 DEF NoZombies
  <1>5. ClosuresFreed
    <2>1. live = {x.closure : x \in Sleepers(sleepQueue)}
      BY <1>0 DEF SleepInv
    <2>2. {x.closure : x \in Sleepers(sleepQueue)}
            = {sleepQueue[i].closure : i \in 1 .. Len(sleepQueue)}
      BY DEF Sleepers
    <2> QED BY <1>1, <2>1, <2>2 DEF ClosuresFreed
  <1>6. SignalledOnce
    <2> SUFFICES ASSUME NEW n \in inUse, work[n].client # NULL,
                        state[work[n].client] = "up"
                 PROVE  /\ \E i \in DOMAIN sleepQueue : sleepQueue[i] = work[n]
                        /\ \A m \in inUse : work[m].client = work[n].client => m = n
      BY DEF SignalledOnce
    <2>1. ~(closing # NULL /\ work[n].client = closing)
      BY <1>0 DEF ClosingInv, Types
    <2>2. work[n] # Connecting
      BY DEF Connecting
    <2>3. work[n] \in Sleepers(sleepQueue)
      BY <1>0, <2>1, <2>2 DEF JobsInv
    <2>4. \E i \in DOMAIN sleepQueue : sleepQueue[i] = work[n]
      BY <1>1, <2>3 DEF Sleepers
    <2>5. \A m \in inUse : work[m].client = work[n].client => m = n
      BY <1>0, <2>1 DEF OneEach
    <2> QED BY <2>4, <2>5
  <1> QED BY <1>2, <1>4, <1>5, <1>6 DEF SleepersSound

\* Whoever is closed and whatever answers come, in any order: clients on the
\* two lists are there, the closures that are allocated are those of clients
\* that sleep, and who stays has at most one job, which is the one it sleeps
\* for (dix/dixutils.c:569-711, dix/dispatch.c:3593-3640).
THEOREM SleepersKept == Spec => []SleepersSound
  BY Invariant, InvSound, PTL

-----------------------------------------------------------------------------
(* The list implements the queue. *)

JobsOf(q, wk) == [k \in 1 .. Len(q) |-> wk[q[k]]]

LEMMA QueueIs ==
    ASSUME NEW q, IsList(q, next)
    PROVE  Queue = JobsOf(q, work)
  <1>1. ReachedBy(next) = q
    BY ListIsReached
  <1>2. DOMAIN q = 1 .. Len(q)
    BY DEF IsList
  <1> QED BY <1>1, <1>2 DEF Queue, JobsOf

LEMMA QueueIsNext ==
    ASSUME NEW q, IsList(q, next')
    PROVE  Queue' = JobsOf(q, work')
  <1>1. ReachedBy(next') = q
    BY ListIsReached
  <1>2. DOMAIN q = 1 .. Len(q)
    BY DEF IsList
  <1> QED BY <1>1, <1>2 DEF Queue, JobsOf

LEMMA JobsTyped ==
    ASSUME NEW q \in Seq(Nodes), NEW wk \in [Nodes -> Job]
    PROVE  /\ JobsOf(q, wk) \in Seq(Job) /\ Len(JobsOf(q, wk)) = Len(q)
           /\ \A k \in 1 .. Len(q) : JobsOf(q, wk)[k] = wk[q[k]]
  <1> DEFINE t == JobsOf(q, wk)
  <1>1. Len(q) \in Nat /\ \A k \in 1 .. Len(q) : wk[q[k]] \in Job
    OBVIOUS
  <1>2. t = [k \in 1 .. Len(q) |-> wk[q[k]]]
    BY DEF JobsOf
  <1> HIDE DEF t
  <1>3. t \in Seq(Job) /\ Len(t) = Len(q)
    BY <1>1, <1>2
  <1>4. \A k \in 1 .. Len(q) : t[k] = wk[q[k]]
    BY <1>2
  <1> QED BY <1>3, <1>4 DEF t

LEMMA InUseFinite ==
    ASSUME Types
    PROVE  IsFiniteSet(inUse) /\ Cardinality(inUse) \in Nat
  <1>1. IsFiniteSet(Nodes)
    BY FS_Interval, Numbers DEF Nodes
  <1> QED BY <1>1, FS_Subset, FS_CardinalityType DEF Types

\* What is put on the list is put behind the queue.
LEMMA PutMaps ==
    ASSUME Types, NEW q \in Seq(Nodes), IsList(q, next), NodesOf(q) = inUse,
           NEW n, NEW job \in Job, Queued(q, n, job)
    PROVE  Jobs!Put
  <1> DEFINE J == JobsOf(q, work)
             r == Append(q, n)
             K == JobsOf(r, work')
  <1>1. Queue = J /\ Queue' = K
    BY QueueIs, QueueIsNext DEF Queued
  <1>2. /\ n \in Nodes /\ work' = [work EXCEPT ![n] = job]
        /\ \A i \in 1 .. Len(q) : q[i] # n
    BY DEF Queued, NodesOf
  <1>3. work \in [Nodes -> Job] /\ work' \in [Nodes -> Job] /\ r \in Seq(Nodes)
    BY <1>2 DEF Types, Job, Queued, ListTypes
  <1>4. /\ Len(q) \in Nat /\ Len(r) = Len(q) + 1 /\ r[Len(q) + 1] = n
        /\ \A i \in 1 .. Len(q) : r[i] = q[i] /\ q[i] \in Nodes
    BY <1>2
  <1>5. /\ J \in Seq(Job) /\ Len(J) = Len(q) /\ \A k \in 1 .. Len(q) : J[k] = work[q[k]]
    BY <1>3, JobsTyped
  <1>6. /\ K \in Seq(Job) /\ Len(K) = Len(r) /\ \A k \in 1 .. Len(r) : K[k] = work'[r[k]]
    BY <1>3, JobsTyped
  <1> HIDE DEF J, K, r
  <1>7. \A k \in 1 .. Len(q) : K[k] = J[k]
    BY <1>2, <1>3, <1>4, <1>5, <1>6
  <1>8. Front(K) = J
    <2> DEFINE F == SubSeq(K, 1, Len(K) - 1)
    <2>1. F \in Seq(Job) /\ Len(F) = Len(q) /\ \A k \in 1 .. Len(q) : F[k] = K[k]
      BY <1>4, <1>6
    <2> HIDE DEF F
    <2>2. F = J
      BY <1>5, <1>7, <2>1, SameSeq
    <2> QED BY <2>2 DEF Front, F
  <1>9. Cardinality(inUse') = Cardinality(inUse) + 1
    <2>1. inUse' = inUse \cup {n} /\ n \notin inUse
      BY DEF Queued
    <2>2. Cardinality(inUse \cup {n}) =
            IF n \in inUse THEN Cardinality(inUse) ELSE Cardinality(inUse) + 1
      BY InUseFinite, FS_AddElement
    <2> QED BY <2>1, <2>2
  <1>10. Len(Queue') = Len(Queue) + 1 /\ Front(Queue') = Queue
    BY <1>1, <1>4, <1>5, <1>6, <1>8
  <1>11. Jobs!Front(Queue') = Front(Queue')
    BY DEF Jobs!Front, Front
  <1> QED BY <1>9, <1>10, <1>11 DEF Jobs!Put

\* What is taken out of the list is the head of the queue, or of a client that
\* is going.
LEMMA TakeMaps ==
    ASSUME Types, NEW q \in Seq(Nodes), IsList(q, next), NodesOf(q) = inUse,
           NEW i \in 0 .. Len(q) - 1, Unlinked(q, i),
           i = 0 \/ (work[q[i + 1]].client \in Clients /\ state[work[q[i + 1]].client] = "gone")
    PROVE  Jobs!Call
  <1> DEFINE J == JobsOf(q, work)
             r == RemoveAt(q, i + 1)
             K == JobsOf(r, work')
  <1>1. Queue = J /\ Queue' = K
    BY QueueIs, QueueIsNext DEF Unlinked
  <1>2. Len(q) \in Nat /\ i + 1 \in 1 .. Len(q)
    OBVIOUS
  <1>3. /\ work \in [Nodes -> Job] /\ work' \in [Nodes -> Job] /\ r \in Seq(Nodes)
        /\ NodesOf(r) = NodesOf(q) \ {q[i + 1]}
        /\ work' = [work EXCEPT ![q[i + 1]] = Connecting]
    BY DEF Types, Job, Unlinked, ListTypes, IsList
  <1>4. /\ Len(r) = Len(q) - 1
        /\ \A k \in 1 .. Len(q) - 1 : r[k] = IF k < i + 1 THEN q[k] ELSE q[k + 1]
    BY <1>2, TakenOut
  <1>5. /\ J \in Seq(Job) /\ Len(J) = Len(q) /\ \A k \in 1 .. Len(q) : J[k] = work[q[k]]
    BY <1>3, JobsTyped
  <1>6. /\ K \in Seq(Job) /\ Len(K) = Len(r) /\ \A k \in 1 .. Len(r) : K[k] = work'[r[k]]
    BY <1>3, JobsTyped
  <1> HIDE DEF J, K, r
  <1>7. \A k \in 1 .. Len(r) : r[k] \in Nodes /\ r[k] # q[i + 1]
    <2>1. \A k \in 1 .. Len(r) : r[k] \in NodesOf(r)
      BY DEF NodesOf
    <2> QED BY <1>3, <2>1
  <1>8. \A k \in 1 .. Len(r) : K[k] = work[r[k]]
    BY <1>3, <1>6, <1>7
  <1> DEFINE M == RemoveAt(J, i + 1)
  <1>9. /\ M \in Seq(Job) /\ Len(M) = Len(J) - 1
        /\ \A k \in 1 .. Len(J) - 1 : M[k] = IF k < i + 1 THEN J[k] ELSE J[k + 1]
    BY <1>2, <1>5, TakenOut
  <1> HIDE DEF M
  <1>10. ASSUME NEW k \in 1 .. Len(K) PROVE K[k] = M[k]
    <2>1. k \in 1 .. Len(q) - 1 /\ K[k] = work[r[k]]
      BY <1>2, <1>4, <1>6, <1>8
    <2>2. CASE k < i + 1
      <3>1. k \in 1 .. Len(q) /\ r[k] = q[k] /\ M[k] = J[k]
        BY <1>4, <1>5, <1>9, <2>1, <2>2
      <3> QED BY <1>5, <2>1, <3>1
    <2>3. CASE ~(k < i + 1)
      <3>1. k + 1 \in 1 .. Len(q) /\ r[k] = q[k + 1] /\ M[k] = J[k + 1]
        BY <1>2, <1>4, <1>5, <1>9, <2>1, <2>3
      <3> QED BY <1>5, <2>1, <3>1
    <2> QED BY <2>2, <2>3
  <1>11. K = M
    BY <1>4, <1>5, <1>6, <1>9, <1>10, SameSeq
  <1>12. Cardinality(inUse') = Cardinality(inUse) - 1
    <2>1. inUse' = inUse \ {q[i + 1]} /\ q[i + 1] \in inUse
      BY DEF Unlinked
    <2>2. Cardinality(inUse \ {q[i + 1]}) =
            IF q[i + 1] \in inUse THEN Cardinality(inUse) - 1 ELSE Cardinality(inUse)
      BY InUseFinite, FS_RemoveElement
    <2> QED BY <2>1, <2>2
  <1>13. i + 1 \in DOMAIN J /\ J[i + 1] = work[q[i + 1]]
    BY <1>2, <1>5
  <1>14. i + 1 = 1 \/ J[i + 1].client \in {c \in Clients : state[c] = "gone"}
    BY <1>13
  <1>15. \E k \in DOMAIN Queue :
            /\ k = 1 \/ Queue[k].client \in {c \in Clients : state[c] = "gone"}
            /\ Queue' = RemoveAt(Queue, k)
    BY <1>1, <1>11, <1>13, <1>14 DEF M
  <1>16. \A k : Jobs!RemoveAt(Queue, k) = RemoveAt(Queue, k)
    BY DEF Jobs!RemoveAt, RemoveAt
  <1> QED BY <1>12, <1>15, <1>16 DEF Jobs!Call

\* No step but these changes the list.
LEMMA SameMaps ==
    ASSUME UNCHANGED <<work, next, inUse>>
    PROVE  Jobs!Next
  <1>1. Queue' = Queue /\ Cardinality(inUse') = Cardinality(inUse)
    BY DEF Queue
  <1> QED BY <1>1 DEF Jobs!Next

LEMMA CloseMaps ==
    ASSUME IInv, pc \in {"Dispatch", "Establish"}, NEW c \in Clients, CloseDownClient(c)
    PROVE  Jobs!Next
  <1>0. Types /\ ListInv /\ OneEach /\ SleepInv
    BY DEF IInv
  <1>1. CASE Asleep(c)
    <2>1. PICK q \in Seq(Nodes) : IsList(q, next) /\ NodesOf(q) = inUse /\ Placed(q)
      BY <1>0 DEF ListInv
    <2>2. workQueueLast = LinkAt(q, Len(q))
      BY <2>1 DEF Placed
    <2>3. PICK e \in Sleepers(sleepQueue) : e.client = c
      BY <1>0, <1>1, AsleepIs DEF SleepInv
    <2>4. sleepQueue[SleepEntry(c)] = e
      BY <1>0, <2>3, EntryFound DEF SleepInv
    <2>5. e \in Job /\ QueueWorkProc(e)
      <3>1. QueueWorkProc(FontJob(c, e.closure))
        BY <1>1, <2>4 DEF CloseDownClient, ClientSignal
      <3>2. e \in Entry(sleeps) /\ e = FontJob(c, e.closure)
        BY <1>0, <2>3, EntryTypes
      <3> QED BY <1>0, <3>1, <3>2, Numbers DEF Entry, Job, Types
    <2>6. PICK n \in Nodes : Queued(q, n, e)
      BY <1>0, <2>1, <2>2, <2>5, Queueing, NodeFree
    <2> QED BY <1>0, <2>1, <2>5, <2>6, PutMaps DEF Jobs!Next
  <1>2. CASE ~Asleep(c)
    BY <1>2, SameMaps DEF CloseDownClient, listVars
  <1> QED BY <1>1, <1>2

LEMMA StepMaps == IInv /\ [Next]_vars => [Jobs!Next]_(Jobs!vars)
  <1> SUFFICES ASSUME IInv, [Next]_vars PROVE Jobs!Next
    OBVIOUS
  <1>0. Types /\ ListInv /\ ClosingInv /\ OneEach /\ SleepInv /\ JobsInv /\ SuspendedInv
    BY DEF IInv
  <1>1. PICK q \in Seq(Nodes) : IsList(q, next) /\ NodesOf(q) = inUse /\ Placed(q)
    BY <1>0 DEF ListInv
  <1>2. CASE Zombies
    <2>1. pc = "Zombies" /\ next[zp] # NULL
      BY <1>2 DEF Zombies
    <2>2. PICK i \in 0 .. Len(q) : zp = LinkAt(q, i)
      BY <1>1, <2>1 DEF Placed
    <2>3. i \in 0 .. Len(q) - 1 /\ next[zp] = q[i + 1] /\ q[i + 1] \in Nodes
      BY <1>1, <2>1, <2>2, Position DEF IsList, After
    <2>4. CASE ZombieJob(next[zp]) /\ Unlink(zp)
      <3>1. Unlinked(q, i)
        BY <1>0, <1>1, <2>2, <2>3, <2>4, Unlinking
      <3>2. work[q[i + 1]].client \in Clients /\ state[work[q[i + 1]].client] = "gone"
        BY <1>0, <2>3, <2>4 DEF ZombieJob, Types
      <3> QED BY <1>0, <1>1, <2>3, <3>1, <3>2, TakeMaps DEF Jobs!Next
    <2>5. CASE UNCHANGED listVars
      BY <2>5, SameMaps DEF listVars
    <2> QED BY <1>2, <2>4, <2>5 DEF Zombies
  <1>3. CASE ProcessFont \/ Accept
    <2>1. /\ Unlink(p) /\ p = LinkAt(q, 0)
          /\ pc = "Establish" \/ next[p] # NULL
      BY <1>0, <1>3 DEF ProcessFont, Accept, Types, LinkAt
    <2>2. 0 \in 0 .. Len(q) - 1
      BY <1>1, <2>1 DEF Placed, IsList, After
    <2>3. Unlinked(q, 0)
      BY <1>0, <1>1, <2>1, <2>2, Unlinking
    <2> QED BY <1>0, <1>1, <2>2, <2>3, TakeMaps DEF Jobs!Next
  <1>4. CASE Select
    <2>1. CASE UNCHANGED listVars
      BY <2>1, SameMaps DEF listVars
    <2>2. CASE QueueWorkProc(Connecting)
      <3>1. workQueueLast = LinkAt(q, Len(q))
        BY <1>1, <1>4 DEF Placed, Select
      <3>2. Connecting \in Job
        BY Numbers DEF Connecting, Job
      <3>3. PICK n \in Nodes : Queued(q, n, Connecting)
        BY <1>0, <1>1, <2>2, <3>1, <3>2, Queueing, NodeFree
      <3> QED BY <1>0, <1>1, <3>2, <3>3, PutMaps DEF Jobs!Next
    <2> QED BY <1>4, <2>1, <2>2 DEF Select
  <1>5. ASSUME NEW c \in Clients, Answer(c) PROVE Jobs!Next
    <2>1. workQueueLast = LinkAt(q, Len(q)) /\ c \in suspended
      BY <1>1, <1>5 DEF Placed, Answer
    <2>2. PICK e \in Sleepers(sleepQueue) : e.client = c
      BY <1>0, <2>1 DEF SuspendedInv
    <2>3. sleepQueue[SleepEntry(c)] = e
      BY <1>0, <2>2, EntryFound DEF SleepInv
    <2>4. e \in Job /\ QueueWorkProc(e)
      <3>1. QueueWorkProc(FontJob(c, e.closure))
        BY <1>5, <2>3 DEF Answer, ClientSignal
      <3>2. e \in Entry(sleeps) /\ e = FontJob(c, e.closure)
        BY <1>0, <2>2, EntryTypes
      <3> QED BY <1>0, <3>1, <3>2, Numbers DEF Entry, Job, Types
    <2>5. PICK n \in Nodes : Queued(q, n, e)
      BY <1>0, <1>1, <2>1, <2>4, Queueing, NodeFree
    <2> QED BY <1>0, <1>1, <2>4, <2>5, PutMaps DEF Jobs!Next
  <1>6. ASSUME NEW c \in Clients, Straggler(c) \/ Kill(c) PROVE Jobs!Next
    BY <1>6, CloseMaps DEF Straggler, Kill
  <1>7. CASE \/ ZombiesEnd \/ WaitForSomething \/ ProcessConnecting \/ ProcessEnd
             \/ UNCHANGED vars
             \/ \E c \in Clients : Request(c) \/ MarkClientException(c)
    <2>1. UNCHANGED <<work, next, inUse>>
      BY <1>7 DEF ZombiesEnd, WaitForSomething, ProcessConnecting, ProcessEnd, vars,
                  Request, MarkClientException, listVars
    <2> QED BY <2>1, SameMaps
  <1> QED BY <1>2, <1>3, <1>4, <1>5, <1>6, <1>7 DEF Next, Thread

LEMMA InitMaps == Init => Jobs!Init
  <1> SUFFICES ASSUME Init PROVE Jobs!Init
    OBVIOUS
  <1>1. PICK q \in Seq(Nodes) : IsList(q, next) /\ NodesOf(q) = inUse
    BY Initially DEF IInv, ListInv
  <1>2. Len(q) = 0
    <2>1. \A i \in 1 .. Len(q) : q[i] \in inUse
      BY <1>1 DEF NodesOf
    <2> QED BY <2>1 DEF Init
  <1>3. Queue = JobsOf(q, work)
    BY <1>1, QueueIs
  <1>4. Queue = <<>>
    BY <1>2, <1>3 DEF JobsOf
  <1>5. Cardinality(inUse) = 0
    BY FS_EmptySet DEF Init
  <1>6. {c \in Clients : state[c] = "gone"} = {}
    BY DEF Init
  <1> QED BY <1>4, <1>5, <1>6 DEF Jobs!Init

\* The list is a queue: a job that QueueWorkProc puts on it is called once and
\* in order, or with its client that is closed down, although the inner walk
\* takes nodes out while the outer one stands in the list
\* (dix/dixutils.c:569-637).
THEOREM ListIsQueue == Spec => ImplementsJobs
  <1>1. Init => Jobs!Init
    BY InitMaps
  <1>2. IInv /\ [Next]_vars => [Jobs!Next]_(Jobs!vars)
    BY StepMaps
  <1> QED BY <1>1, <1>2, Invariant, PTL DEF Spec, ImplementsJobs, Jobs!Spec
=============================================================================
