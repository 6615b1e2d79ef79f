---------------------------- MODULE TimeoutProof ----------------------------
(***************************************************************************)
(* Proofs about what WaitForSomething keeps time for.                      *)
(*                                                                         *)
(* OsTimer, for any timers, delays and width of the clock: the list is     *)
(* sound across the wrap of the clock and after it was set back; until     *)
(* then the server does not sleep past an expiry and runs no callback      *)
(* early.  Times are compared through their offsets from the clock, which  *)
(* add up like integers as long as they stay below half the range.         *)
(*                                                                         *)
(* Xdmcp, whose block and wakeup handlers set its own timeout, for any     *)
(* managers, limits and losses: the connection that a session is known by  *)
(* is open, and a session ends only with the main loop.                    *)
(***************************************************************************)
EXTENDS OsTimer, MCXdmcp, WellFoundedInduction, SequenceTheorems, TLAPS

Clock == 0 .. W - 1

Lag == IF MaxLag >= MaxCheck THEN MaxLag ELSE MaxCheck

\* b is how far the clock c may still be set back.
Near(e, c, b) ==
    /\ -Lag <= Signed(e.expires - c)
    /\ Signed(e.expires - c) <= e.delta + MaxBack - b

InOrder(l) ==
    \A i, j \in DOMAIN l : i < j =>
        l[i].t # l[j].t /\ NotLater(l[i].expires, l[j].expires)

Good(l, c, b) ==
    l \in Seq(Entries) /\ InOrder(l) /\ \A i \in DOMAIN l : Near(l[i], c, b)

\* Time taken from now to a turn of CheckAllTimers.
CheckInv ==
    pc = "check" => /\ back < MaxBack
                    /\ -(MaxBack - back) <= Signed(clock - now)
                    /\ Signed(clock - now) <= MaxCheck

SleepInv ==
    pc = "sleep" =>
        /\ timeout = Forever => timers = <<>>
        /\ timeout > 0 =>
             \A i \in DOMAIN timers :
                 timeout - (IF back = MaxBack THEN 0 ELSE MaxCheck)
                     <= Signed(timers[i].expires - clock)

\* What is due at the time taken is due on the clock, which is not far from it.
RunInv ==
    pc = "run" /\ back = MaxBack =>
        \A i \in DOMAIN timers :
            NotLater(timers[i].expires, now) =>
                /\ 0 <= Signed(clock - now)
                /\ Signed(clock - now) <= -Signed(timers[i].expires - clock)

IInv == TypeOK /\ Good(timers, clock, back) /\ CheckInv /\ SleepInv /\ RunInv

-----------------------------------------------------------------------------
(* Differences of times.                                                   *)

LEMMA Width == Half \in Nat /\ W = 2 * Half /\ Half > 0
  <1>1. W \in Nat /\ W % 2 = 0
    BY TimerAssumption
  <1>2. Half \in Nat /\ W = 2 * Half
    BY <1>1 DEF Half
  <1>3. PICK d \in Delays : d + MaxCheck + MaxBack < Half
    BY TimerAssumption
  <1>4. d \in Nat /\ MaxCheck \in Nat /\ MaxBack \in Nat
    BY TimerAssumption
  <1> QED BY <1>2, <1>3, <1>4

LEMMA ModCases ==
    ASSUME NEW x \in Int, -W <= x, x < 2 * W
    PROVE  /\ 0 <= x /\ x < W => x % W = x
           /\ x < 0 => x % W = x + W
           /\ W <= x => x % W = x - W
  <1>1. W \in Nat /\ W > 0
    BY Width
  <1>2. ASSUME 0 <= x, x < W PROVE x % W = x
    BY <1>1, <1>2
  <1>3. ASSUME x < 0 PROVE x % W = x + W
    BY <1>1, <1>3
  <1>4. ASSUME W <= x PROVE x % W = x - W
    BY <1>1, <1>4
  <1> QED BY <1>2, <1>3, <1>4

LEMMA SignedCases ==
    ASSUME NEW x \in Int, -W <= x, x <= W
    PROVE  /\ Signed(x) \in Int /\ -Half <= Signed(x) /\ Signed(x) < Half
           /\ -Half <= x /\ x < Half => Signed(x) = x
           /\ x >= Half => Signed(x) = x - W
           /\ x < -Half => Signed(x) = x + W
           /\ Signed(x) >= 0 => x % W = Signed(x)
  <1> DEFINE m == x % W
  <1>1. W \in Nat /\ Half \in Nat /\ W = 2 * Half /\ Half > 0
    BY Width
  <1>2. /\ 0 <= x /\ x < W => m = x
        /\ x < 0 => m = x + W
        /\ W <= x => m = x - W
    BY <1>1, ModCases
  <1> HIDE DEF m
  <1>3. Signed(x) = IF m < Half THEN m ELSE m - W
    BY DEF Signed, m
  <1>4. /\ Signed(x) \in Int /\ -Half <= Signed(x) /\ Signed(x) < Half
        /\ -Half <= x /\ x < Half => Signed(x) = x
        /\ x >= Half => Signed(x) = x - W
        /\ x < -Half => Signed(x) = x + W
        /\ Signed(x) >= 0 => m = Signed(x)
    BY <1>1, <1>2, <1>3
  <1> QED BY <1>4 DEF m

\* Offsets add up.
LEMMA OffsetsAdd ==
    ASSUME NEW a \in Clock, NEW b \in Clock, NEW c \in Clock
    PROVE  /\ Signed(a - b) \in Int /\ -Half <= Signed(a - b) /\ Signed(a - b) < Half
           /\ Signed(a - a) = 0
           /\ Signed(a - b) > -Half => Signed(b - a) = -Signed(a - b)
           /\ /\ -Half <= Signed(a - b) + Signed(b - c)
              /\ Signed(a - b) + Signed(b - c) < Half
              => Signed(a - c) = Signed(a - b) + Signed(b - c)
           /\ /\ -Half <= Signed(a - c) - Signed(b - c)
              /\ Signed(a - c) - Signed(b - c) < Half
              => Signed(a - b) = Signed(a - c) - Signed(b - c)
           /\ Signed(a - b) >= 0 => (a - b) % W = Signed(a - b)
  <1>1. W \in Nat /\ Half \in Nat /\ W = 2 * Half /\ Half > 0
    BY Width
  <1>2. /\ a \in Int /\ b \in Int /\ c \in Int
        /\ 0 <= a /\ 0 <= b /\ 0 <= c /\ a < W /\ b < W /\ c < W
    BY <1>1 DEF Clock
  <1> DEFINE cases(x) == /\ Signed(x) \in Int /\ -Half <= Signed(x) /\ Signed(x) < Half
                         /\ -Half <= x /\ x < Half => Signed(x) = x
                         /\ x >= Half => Signed(x) = x - W
                         /\ x < -Half => Signed(x) = x + W
  <1>3. cases(a - b) /\ cases(b - a) /\ cases(b - c) /\ cases(a - c) /\ cases(a - a)
    BY <1>1, <1>2, SignedCases
  <1>4. Signed(a - b) >= 0 => (a - b) % W = Signed(a - b)
    BY <1>1, <1>2, SignedCases
  <1> DEFINE ab == Signed(a - b)
             ba == Signed(b - a)
             bc == Signed(b - c)
             ac == Signed(a - c)
             aa == Signed(a - a)
  <1>5. /\ ab \in Int /\ ba \in Int /\ bc \in Int /\ ac \in Int /\ aa \in Int
        /\ -Half <= ab /\ ab < Half /\ -Half <= ba /\ ba < Half
        /\ -Half <= bc /\ bc < Half /\ -Half <= ac /\ ac < Half
        /\ ab = a - b \/ ab = a - b - W \/ ab = a - b + W
        /\ ba = b - a \/ ba = b - a - W \/ ba = b - a + W
        /\ bc = b - c \/ bc = b - c - W \/ bc = b - c + W
        /\ ac = a - c \/ ac = a - c - W \/ ac = a - c + W
        /\ aa = 0
    BY <1>1, <1>2, <1>3
  <1> HIDE DEF ab, ba, bc, ac, aa, cases
  <1>6. /\ ab > -Half => ba = -ab
        /\ -Half <= ab + bc /\ ab + bc < Half => ac = ab + bc
        /\ -Half <= ac - bc /\ ac - bc < Half => ab = ac - bc
    BY <1>1, <1>2, <1>5
  <1> QED BY <1>4, <1>5, <1>6 DEF ab, ba, bc, ac, aa

\* The clock moves forward and back.
LEMMA ClockMoves ==
    ASSUME NEW c \in Clock, NEW n \in Nat, n < Half
    PROVE  /\ (c + n) % W \in Clock /\ Signed(((c + n) % W) - c) = n
           /\ (c - n) % W \in Clock /\ Signed(((c - n) % W) - c) = -n
  <1>1. W \in Nat /\ Half \in Nat /\ W = 2 * Half /\ Half > 0
    BY Width
  <1>2. c \in Int /\ 0 <= c /\ c < W
    BY <1>1 DEF Clock
  <1> DEFINE f == (c + n) % W
             g == (c - n) % W
  <1>3. (f = c + n /\ c + n < W) \/ (f = c + n - W /\ c + n >= W)
    BY <1>1, <1>2, ModCases
  <1>4. (g = c - n /\ c - n >= 0) \/ (g = c - n + W /\ c - n < 0)
    BY <1>1, <1>2, ModCases
  <1> HIDE DEF f, g
  <1>5. f \in Int /\ 0 <= f /\ f < W /\ g \in Int /\ 0 <= g /\ g < W
    BY <1>1, <1>2, <1>3, <1>4
  <1>6. f \in Clock /\ g \in Clock
    BY <1>1, <1>5 DEF Clock
  <1>7. Signed(f - c) = n
    <2>1. f - c \in Int /\ -W <= f - c /\ f - c <= W
      BY <1>1, <1>2, <1>5
    <2>2. (f - c = n /\ n < Half) \/ (f - c = n - W /\ n - W < -Half)
      BY <1>1, <1>2, <1>3
    <2> DEFINE x == f - c
    <2>3. /\ -Half <= x /\ x < Half => Signed(x) = x
          /\ x < -Half => Signed(x) = x + W
      BY <2>1, SignedCases
    <2> HIDE DEF x
    <2>4. (x = n /\ n < Half) \/ (x = n - W /\ n - W < -Half)
      BY <2>2 DEF x
    <2>5. Signed(x) = n
      BY <1>1, <2>3, <2>4
    <2> QED BY <2>5 DEF x
  <1>8. Signed(g - c) = -n
    <2>1. g - c \in Int /\ -W <= g - c /\ g - c <= W
      BY <1>1, <1>2, <1>5
    <2>2. (g - c = -n /\ -n > -Half) \/ (g - c = W - n /\ W - n > Half)
      BY <1>1, <1>2, <1>4
    <2> DEFINE x == g - c
    <2>3. /\ -Half <= x /\ x < Half => Signed(x) = x
          /\ x >= Half => Signed(x) = x - W
      BY <2>1, SignedCases
    <2> HIDE DEF x
    <2>4. (x = -n /\ -n > -Half) \/ (x = W - n /\ W - n > Half)
      BY <2>2 DEF x
    <2>5. Signed(x) = -n
      BY <1>1, <2>3, <2>4
    <2> QED BY <2>5 DEF x
  <1> QED BY <1>6, <1>7, <1>8 DEF f, g

\* The guard of Tick looks at the clock before it wraps around.
LEMMA NextTick ==
    ASSUME NEW c \in Clock, NEW a \in Clock
    PROVE  Signed(c + 1 - a) = Signed(((c + 1) % W) - a)
  <1>1. W \in Nat /\ Half \in Nat /\ W = 2 * Half /\ Half > 0
    BY Width
  <1>2. /\ c \in Int /\ 0 <= c /\ c < W
        /\ a \in Int /\ 0 <= a /\ a < W
    BY <1>1 DEF Clock
  <1>3. CASE c + 1 < W
    <2>1. (c + 1) % W = c + 1
      BY <1>1, <1>2, <1>3, ModCases
    <2>2. c + 1 - a = ((c + 1) % W) - a
      BY <1>1, <1>2, <2>1
    <2> QED BY <2>2, Zenon
  <1>4. CASE c + 1 = W
    <2>1. (c + 1) % W = 0
      BY <1>1, <1>2, <1>4, ModCases
    <2> DEFINE x == W - a
               y == 0 - a
    <2>2. /\ -Half <= x /\ x < Half => Signed(x) = x
          /\ x >= Half => Signed(x) = x - W
          /\ -Half <= y /\ y < Half => Signed(y) = y
          /\ y < -Half => Signed(y) = y + W
      BY <1>1, <1>2, SignedCases
    <2>3. x \in Int /\ y = x - W /\ x > 0 /\ x <= W
      BY <1>1, <1>2
    <2> HIDE DEF x, y
    <2>4. Signed(x) = Signed(y)
      BY <1>1, <2>2, <2>3
    <2>5. c + 1 - a = x
      BY <1>2, <1>4 DEF x
    <2>6. ((c + 1) % W) - a = y
      BY <2>1 DEF y
    <2> QED BY <2>4, <2>5, <2>6, Zenon
  <1> QED BY <1>1, <1>2, <1>3, <1>4

\* The bounds the assumption gives.
LEMMA Bounds ==
    /\ MaxLag \in Nat /\ MaxCheck \in Nat /\ MaxBack \in Nat /\ SLACK \in Nat
    /\ Lag \in Nat /\ MaxLag <= Lag /\ MaxCheck <= Lag
    /\ Lag + MaxBack + 1 < Half
    /\ \A d \in Delays : d \in Nat /\ d > 0 /\ d + Lag + MaxBack < Half
  <1>1. /\ MaxLag \in Nat /\ MaxCheck \in Nat /\ MaxBack \in Nat /\ SLACK \in Nat
    BY TimerAssumption
  <1>2. Half \in Nat
    BY Width
  <1>3. Lag \in Nat /\ MaxLag <= Lag /\ MaxCheck <= Lag /\ (Lag = MaxLag \/ Lag = MaxCheck)
    BY <1>1 DEF Lag
  <1>4. ASSUME NEW d \in Delays
        PROVE  d \in Nat /\ d > 0 /\ d + Lag + MaxBack < Half
    <2>1. /\ d \in Nat /\ d > 0 /\ d + MaxLag + MaxBack + SLACK < Half
          /\ d + MaxCheck + MaxBack < Half
      BY TimerAssumption
    <2> QED BY <1>1, <1>2, <1>3, <2>1
  <1>5. Lag + MaxBack + 1 < Half
    <2>1. PICK d \in Delays : d \in Nat /\ d > 0 /\ d + Lag + MaxBack < Half
      BY <1>4, TimerAssumption
    <2> QED BY <1>1, <1>2, <1>3, <2>1
  <1> QED BY <1>1, <1>3, <1>4, <1>5

-----------------------------------------------------------------------------
(* The list.                                                               *)

LEMMA Least ==
    ASSUME NEW S \in SUBSET Nat, S # {}
    PROVE  \E i \in S : \A j \in S : i <= j
  <1> DEFINE R == OpToRel(<, Nat)
  <1>1. IsWellFoundedOn(R, Nat)
    BY NatLessThanWellFounded
  <1>2. \A i, j \in Nat : i < j => <<i, j>> \in R
    BY DEF OpToRel
  <1> HIDE DEF R
  <1>3. PICK i \in S : \A j \in S : <<j, i>> \notin R
    BY <1>1, WFMin
  <1>4. ASSUME NEW j \in S PROVE i <= j
    <2>1. i \in Nat /\ j \in Nat /\ ~(j < i)
      BY <1>2, <1>3
    <2> QED BY <2>1
  <1> QED BY <1>4

\* An entry is taken out, and one is put in.
LEMMA TakenOut ==
    ASSUME NEW T, NEW l \in Seq(T), NEW n \in DOMAIN l
    PROVE  LET m == SubSeq(l, 1, n - 1) \o SubSeq(l, n + 1, Len(l))
           IN  /\ m \in Seq(T) /\ Len(m) = Len(l) - 1
               /\ \A i \in DOMAIN m :
                      /\ i < n => i \in DOMAIN l /\ m[i] = l[i]
                      /\ i >= n => i + 1 \in DOMAIN l /\ m[i] = l[i + 1]
  <1> DEFINE a == SubSeq(l, 1, n - 1)
             b == SubSeq(l, n + 1, Len(l))
             m == a \o b
  <1>1. n \in 1 .. Len(l) /\ Len(l) \in Nat /\ \A i \in 1 .. Len(l) : l[i] \in T
    OBVIOUS
  <1>2. /\ a \in Seq(T) /\ Len(a) = n - 1
        /\ \A i \in 1 .. n - 1 : a[i] = l[i]
    BY <1>1
  <1>3. /\ b \in Seq(T) /\ Len(b) = Len(l) - n
        /\ \A i \in 1 .. Len(l) - n : b[i] = l[i + n]
    BY <1>1
  <1> HIDE DEF a, b
  <1>4. /\ m \in Seq(T) /\ Len(m) = Len(a) + Len(b)
        /\ \A i \in 1 .. Len(a) + Len(b) :
               m[i] = IF i <= Len(a) THEN a[i] ELSE b[i - Len(a)]
    BY <1>2, <1>3, ConcatProperties
  <1> HIDE DEF m
  <1>5. Len(m) = Len(l) - 1 /\ DOMAIN m = 1 .. Len(l) - 1
    BY <1>1, <1>2, <1>3, <1>4
  <1>6. ASSUME NEW i \in DOMAIN m
        PROVE  /\ i < n => i \in DOMAIN l /\ m[i] = l[i]
               /\ i >= n => i + 1 \in DOMAIN l /\ m[i] = l[i + 1]
    <2>1. i \in 1 .. Len(l) - 1 /\ DOMAIN l = 1 .. Len(l)
      BY <1>5
    <2>2. CASE i < n
      <3>1. i <= Len(a) /\ i \in 1 .. n - 1 /\ i \in 1 .. Len(a) + Len(b)
        BY <1>1, <1>2, <1>3, <2>1, <2>2
      <3>2. m[i] = a[i] /\ a[i] = l[i]
        BY <1>2, <1>4, <3>1
      <3> QED BY <1>1, <2>1, <2>2, <3>2
    <2>3. CASE i >= n
      <3> DEFINE k == i - (n - 1)
      <3>1. ~(i <= Len(a)) /\ i \in 1 .. Len(a) + Len(b) /\ i - Len(a) = k
        BY <1>1, <1>2, <1>3, <2>1, <2>3
      <3>2. k \in 1 .. Len(l) - n /\ k + n = i + 1
        BY <1>1, <2>1, <2>3
      <3> HIDE DEF k
      <3>3. m[i] = b[k]
        BY <1>4, <3>1
      <3>4. b[k] = l[i + 1]
        BY <1>3, <3>2
      <3> QED BY <1>1, <2>1, <2>3, <3>3, <3>4
    <2> QED BY <1>1, <2>1, <2>2, <2>3
  <1> QED BY <1>4, <1>5, <1>6 DEF m, a, b

With(l, n, e) == SubSeq(l, 1, n - 1) \o <<e>> \o SubSeq(l, n, Len(l))

LEMMA PutIn ==
    ASSUME NEW T, NEW l \in Seq(T), NEW e \in T, NEW n \in DOMAIN l
    PROVE  LET m == With(l, n, e)
           IN  /\ m \in Seq(T) /\ Len(m) = Len(l) + 1
               /\ m[n] = e
               /\ \A i \in DOMAIN m :
                      /\ i < n => i \in DOMAIN l /\ m[i] = l[i]
                      /\ i > n => i - 1 \in DOMAIN l /\ m[i] = l[i - 1]
  <1> DEFINE a == SubSeq(l, 1, n - 1)
             c == a \o <<e>>
             b == SubSeq(l, n, Len(l))
             m == c \o b
  <1>1. n \in 1 .. Len(l) /\ Len(l) \in Nat /\ \A i \in 1 .. Len(l) : l[i] \in T
    OBVIOUS
  <1>2. /\ a \in Seq(T) /\ Len(a) = n - 1
        /\ \A i \in 1 .. n - 1 : a[i] = l[i]
    BY <1>1
  <1>3. /\ b \in Seq(T) /\ Len(b) = Len(l) - n + 1
        /\ \A i \in 1 .. Len(l) - n + 1 : b[i] = l[i + n - 1]
    <2>1. \A i \in n .. Len(l) : l[i] \in T
      BY <1>1
    <2> QED BY <1>1, <2>1, SubSeqProperties
  <1> HIDE DEF a, b
  <1>4. <<e>> \in Seq(T) /\ Len(<<e>>) = 1 /\ <<e>>[1] = e
    OBVIOUS
  <1>5. /\ c \in Seq(T) /\ Len(c) = n
        /\ \A i \in 1 .. n - 1 : c[i] = l[i]
        /\ c[n] = e
    <2>1. /\ c \in Seq(T) /\ Len(c) = Len(a) + 1
          /\ \A i \in 1 .. Len(a) + 1 :
                 c[i] = IF i <= Len(a) THEN a[i] ELSE <<e>>[i - Len(a)]
      BY <1>2, <1>4, ConcatProperties
    <2> HIDE DEF c
    <2>2. Len(c) = n /\ n \in 1 .. Len(a) + 1 /\ ~(n <= Len(a)) /\ n - Len(a) = 1
      <3>1. n \in Int /\ 1 <= n /\ Len(a) = n - 1 /\ Len(c) = Len(a) + 1
        BY <1>1, <1>2, <2>1
      <3> DEFINE k == Len(a)
                 q == Len(c)
      <3>2. n \in Int /\ 1 <= n /\ k = n - 1 /\ q = k + 1
        BY <3>1
      <3> HIDE DEF k, q
      <3>3. q = n
        BY <3>2
      <3>4. n \in 1 .. k + 1
        BY <3>2
      <3>5. ~(n <= k)
        BY <3>2
      <3>6. n - k = 1
        BY <3>2
      <3> QED BY <3>3, <3>4, <3>5, <3>6 DEF k, q
    <2>3. c[n] = e
      BY <1>4, <2>1, <2>2
    <2>4. \A i \in 1 .. n - 1 : c[i] = l[i]
      BY <1>1, <1>2, <2>1
    <2> QED BY <2>1, <2>2, <2>3, <2>4
  <1> HIDE DEF c
  <1>6. /\ m \in Seq(T) /\ Len(m) = Len(c) + Len(b)
        /\ \A i \in 1 .. Len(c) + Len(b) :
               m[i] = IF i <= Len(c) THEN c[i] ELSE b[i - Len(c)]
    BY <1>3, <1>5, ConcatProperties
  <1> HIDE DEF m
  <1>7. Len(m) = Len(l) + 1 /\ DOMAIN m = 1 .. Len(l) + 1
    BY <1>1, <1>3, <1>5, <1>6
  <1>8. m[n] = e
    <2>1. n <= Len(c) /\ n \in 1 .. Len(c) + Len(b)
      BY <1>1, <1>3, <1>5
    <2> QED BY <1>5, <1>6, <2>1
  <1>9. ASSUME NEW i \in DOMAIN m
        PROVE  /\ i < n => i \in DOMAIN l /\ m[i] = l[i]
               /\ i > n => i - 1 \in DOMAIN l /\ m[i] = l[i - 1]
    <2>1. i \in 1 .. Len(l) + 1 /\ DOMAIN l = 1 .. Len(l)
      BY <1>7
    <2>2. CASE i < n
      <3>1. i <= Len(c) /\ i \in 1 .. n - 1 /\ i \in 1 .. Len(c) + Len(b)
        BY <1>1, <1>3, <1>5, <2>1, <2>2
      <3>2. m[i] = c[i] /\ c[i] = l[i]
        BY <1>5, <1>6, <3>1
      <3> QED BY <1>1, <2>1, <2>2, <3>2
    <2>3. CASE i > n
      <3> DEFINE k == i - n
      <3>1. ~(i <= Len(c)) /\ i \in 1 .. Len(c) + Len(b) /\ i - Len(c) = k
        BY <1>1, <1>3, <1>5, <2>1, <2>3
      <3>2. k \in 1 .. Len(l) - n + 1 /\ k + n - 1 = i - 1
        BY <1>1, <2>1, <2>3
      <3> HIDE DEF k
      <3>3. m[i] = b[k]
        BY <1>6, <3>1
      <3>4. b[k] = l[i - 1]
        BY <1>3, <3>2
      <3> QED BY <1>1, <2>1, <2>3, <3>3, <3>4
    <2>4. CASE i = n
      BY <1>1, <2>4
    <2> QED BY <1>1, <2>1, <2>2, <2>3, <2>4
  <1> QED BY <1>6, <1>7, <1>8, <1>9 DEF m, c, a, b, With

\* Entries near the clock compare like their offsets from it.
LEMMA Comparable ==
    ASSUME NEW c \in Clock, NEW b \in 0 .. MaxBack,
           NEW e \in Entries, NEW f \in Entries, Near(e, c, b), Near(f, c, b)
    PROVE  NotLater(e.expires, f.expires)
             <=> Signed(e.expires - c) <= Signed(f.expires - c)
  <1> DEFINE x == e.expires
             y == f.expires
             ex == Signed(x - c)
             fx == Signed(y - c)
             ef == Signed(x - y)
  <1>1. x \in Clock /\ y \in Clock /\ e.delta \in Delays /\ f.delta \in Delays
    BY DEF Entries, Clock
  <1>2. /\ ex \in Int /\ fx \in Int /\ ef \in Int
        /\ -Half <= ex - fx /\ ex - fx < Half => ef = ex - fx
    BY <1>1, OffsetsAdd
  <1>3. /\ -Lag <= ex /\ ex <= e.delta + MaxBack - b
        /\ -Lag <= fx /\ fx <= f.delta + MaxBack - b
    BY DEF Near
  <1> DEFINE ed == e.delta
             fd == f.delta
  <1>4. /\ ed \in Nat /\ fd \in Nat /\ Lag \in Nat /\ MaxBack \in Nat /\ Half \in Nat
        /\ ed + Lag + MaxBack < Half /\ fd + Lag + MaxBack < Half
        /\ b \in Int /\ 0 <= b
    BY <1>1, Bounds, Width
  <1>5. /\ -Lag <= ex /\ ex <= ed + MaxBack - b
        /\ -Lag <= fx /\ fx <= fd + MaxBack - b
    BY <1>3
  <1> HIDE DEF ex, fx, ef, ed, fd
  <1>6. -Half <= ex - fx /\ ex - fx < Half
    BY <1>2, <1>4, <1>5
  <1>7. ef <= 0 <=> ex <= fx
    BY <1>2, <1>6
  <1> QED BY <1>7 DEF NotLater, ef, ex, fx

LEMMA OrderedOffsets ==
    ASSUME NEW c \in Clock, NEW b \in 0 .. MaxBack, NEW l, Good(l, c, b)
    PROVE  \A i, j \in DOMAIN l :
             i < j => Signed(l[i].expires - c) <= Signed(l[j].expires - c)
  <1> SUFFICES ASSUME NEW i \in DOMAIN l, NEW j \in DOMAIN l, i < j
               PROVE  Signed(l[i].expires - c) <= Signed(l[j].expires - c)
    OBVIOUS
  <1>1. l[i] \in Entries /\ l[j] \in Entries /\ Near(l[i], c, b) /\ Near(l[j], c, b)
    BY DEF Good
  <1>2. NotLater(l[i].expires, l[j].expires)
    BY DEF Good, InOrder
  <1> QED BY <1>1, <1>2, Comparable

LEMMA Unlinked ==
    ASSUME NEW c \in Clock, NEW b \in 0 .. MaxBack, NEW l, Good(l, c, b), NEW t
    PROVE  /\ Good(Unlink(l, t), c, b)
           /\ t \notin Listed(Unlink(l, t))
           /\ \A i \in DOMAIN Unlink(l, t) : \E j \in DOMAIN l : Unlink(l, t)[i] = l[j]
  <1>0. l \in Seq(Entries) /\ InOrder(l) /\ \A i \in DOMAIN l : Near(l[i], c, b)
    BY DEF Good
  <1>1. CASE t \notin Listed(l)
    <2>1. Unlink(l, t) = l
      BY <1>1 DEF Unlink
    <2> QED BY <1>1, <2>1
  <1>2. CASE t \in Listed(l)
    <2> DEFINE n == CHOOSE i \in DOMAIN l : l[i].t = t
               m == SubSeq(l, 1, n - 1) \o SubSeq(l, n + 1, Len(l))
    <2>1. Unlink(l, t) = m
      BY <1>2 DEF Unlink
    <2>2. n \in DOMAIN l /\ l[n].t = t
      BY <1>2 DEF Listed
    <2> HIDE DEF n
    <2>3. /\ m \in Seq(Entries) /\ Len(m) = Len(l) - 1
          /\ \A i \in DOMAIN m :
                /\ i < n => i \in DOMAIN l /\ m[i] = l[i]
                /\ i >= n => i + 1 \in DOMAIN l /\ m[i] = l[i + 1]
      BY <1>0, <2>2, TakenOut
    <2> HIDE DEF m
    <2> DEFINE at(i) == IF i < n THEN i ELSE i + 1
    <2>4. /\ \A i \in DOMAIN m : at(i) \in DOMAIN l /\ m[i] = l[at(i)] /\ at(i) # n
          /\ \A i, j \in DOMAIN m : i < j => at(i) < at(j)
      <3>1. n \in Int /\ \A i \in DOMAIN m : i \in Int
        BY <1>0, <2>2, <2>3
      <3> QED BY <2>3, <3>1
    <2> HIDE DEF at
    <2>5. InOrder(m)
      BY <1>0, <2>4 DEF InOrder
    <2>6. \A i \in DOMAIN m : Near(m[i], c, b)
      BY <1>0, <2>4
    <2>7. ASSUME NEW i \in DOMAIN m PROVE m[i].t # t
      <3>1. at(i) \in DOMAIN l /\ m[i] = l[at(i)] /\ at(i) # n
        BY <2>4
      <3>2. at(i) < n \/ n < at(i)
        BY <1>0, <2>2, <3>1
      <3>3. l[at(i)].t # l[n].t
        BY <1>0, <2>2, <3>1, <3>2 DEF InOrder
      <3> QED BY <2>2, <3>1, <3>3
    <2>8. t \notin Listed(m)
      BY <2>7 DEF Listed
    <2>9. \A i \in DOMAIN m : \E j \in DOMAIN l : m[i] = l[j]
      BY <2>4
    <2> QED BY <2>1, <2>3, <2>5, <2>6, <2>8, <2>9 DEF Good
  <1> QED BY <1>1, <1>2

LEMMA InsertedAt ==
    ASSUME NEW c \in Clock, NEW b \in 0 .. MaxBack, NEW l, Good(l, c, b),
           NEW e \in Entries, Near(e, c, b), e.t \notin Listed(l),
           NEW n \in DOMAIN l, ~NotLater(l[n].expires, e.expires),
           \A i \in DOMAIN l : i < n => NotLater(l[i].expires, e.expires)
    PROVE  /\ Good(With(l, n, e), c, b)
           /\ \A i \in DOMAIN With(l, n, e) :
                 With(l, n, e)[i] = e \/ \E j \in DOMAIN l : With(l, n, e)[i] = l[j]
  <1> DEFINE m == With(l, n, e)
  <1>0. l \in Seq(Entries) /\ InOrder(l) /\ \A i \in DOMAIN l : Near(l[i], c, b)
    BY DEF Good
  <1>1. \A i \in DOMAIN l : l[i].t # e.t /\ l[i] \in Entries
    BY <1>0 DEF Listed
  <1>2. /\ ~NotLater(l[n].expires, e.expires)
        /\ \A i \in DOMAIN l : i < n => NotLater(l[i].expires, e.expires)
    OBVIOUS
  <1>3. /\ m \in Seq(Entries) /\ Len(m) = Len(l) + 1
        /\ m[n] = e
        /\ \A i \in DOMAIN m :
              /\ i < n => i \in DOMAIN l /\ m[i] = l[i]
              /\ i > n => i - 1 \in DOMAIN l /\ m[i] = l[i - 1]
    BY <1>0, PutIn
  <1> HIDE DEF m
  <1>4. n \in Int /\ (\A i \in DOMAIN m : i \in Int) /\ \A i \in DOMAIN l : i \in Int
    BY <1>0, <1>2, <1>3
  <1>5. \A i \in DOMAIN m :
          \/ i = n /\ m[i] = e
          \/ i < n /\ i \in DOMAIN l /\ m[i] = l[i]
          \/ i > n /\ i - 1 \in DOMAIN l /\ m[i] = l[i - 1]
    BY <1>3, <1>4
  <1>6. \A i \in DOMAIN l : i >= n => NotLater(e.expires, l[i].expires)
    <2> SUFFICES ASSUME NEW i \in DOMAIN l, i >= n
                 PROVE  NotLater(e.expires, l[i].expires)
      OBVIOUS
    <2> DEFINE off(f) == Signed(f.expires - c)
    <2>1. /\ l[n] \in Entries /\ Near(l[n], c, b) /\ l[i] \in Entries
          /\ Near(l[i], c, b)
      BY <1>0, <1>1, <1>2
    <2>2. off(e) \in Int /\ off(l[n]) \in Int /\ off(l[i]) \in Int
      <3>1. /\ e.expires \in Clock /\ l[n].expires \in Clock
            /\ l[i].expires \in Clock
        BY <2>1 DEF Entries, Clock
      <3> QED BY <3>1, OffsetsAdd
    <2>3. ~(off(l[n]) <= off(e))
      BY <1>2, <2>1, Comparable
    <2>4. off(l[n]) <= off(l[i])
      <3>1. CASE i = n
        <4>1. off(l[n]) <= off(l[n])
          BY <2>2
        <4> QED BY <3>1, <4>1
      <3>2. CASE n < i
        BY <1>2, <3>2, OrderedOffsets
      <3> QED BY <1>4, <3>1, <3>2
    <2>5. off(e) <= off(l[i])
      BY <2>2, <2>3, <2>4
    <2> QED BY <2>1, <2>5, Comparable
  <1>7. ASSUME NEW i \in DOMAIN m, NEW j \in DOMAIN m, i < j
        PROVE  m[i].t # m[j].t /\ NotLater(m[i].expires, m[j].expires)
    <2>1. i \in Int /\ j \in Int
      BY <1>4
    <2>2. CASE i = n /\ m[i] = e
      <3>1. j > n /\ j - 1 \in DOMAIN l /\ m[j] = l[j - 1] /\ j - 1 >= n
        BY <1>4, <1>5, <1>7, <2>1, <2>2
      <3>2. NotLater(e.expires, l[j - 1].expires) /\ l[j - 1].t # e.t
        BY <1>1, <1>6, <3>1
      <3> QED BY <2>2, <3>1, <3>2
    <2>3. CASE i < n /\ i \in DOMAIN l /\ m[i] = l[i]
      <3>1. CASE j = n /\ m[j] = e
        BY <1>1, <1>2, <2>3, <3>1
      <3>2. CASE j < n /\ j \in DOMAIN l /\ m[j] = l[j]
        BY <1>0, <1>7, <2>3, <3>2 DEF InOrder
      <3>3. CASE j > n /\ j - 1 \in DOMAIN l /\ m[j] = l[j - 1]
        <4>1. i < j - 1
          BY <1>4, <2>1, <2>3, <3>3
        <4> QED BY <1>0, <2>3, <3>3, <4>1 DEF InOrder
      <3> QED BY <1>5, <3>1, <3>2, <3>3
    <2>4. CASE i > n /\ i - 1 \in DOMAIN l /\ m[i] = l[i - 1]
      <3>1. j - 1 \in DOMAIN l /\ m[j] = l[j - 1] /\ i - 1 < j - 1
        BY <1>4, <1>5, <1>7, <2>1, <2>4
      <3> QED BY <1>0, <2>4, <3>1 DEF InOrder
    <2> QED BY <1>5, <2>2, <2>3, <2>4
  <1>8. \A i \in DOMAIN m : Near(m[i], c, b)
    BY <1>0, <1>5
  <1>9. \A i \in DOMAIN m : m[i] = e \/ \E j \in DOMAIN l : m[i] = l[j]
    BY <1>5
  <1> QED BY <1>3, <1>7, <1>8, <1>9 DEF Good, InOrder, m

LEMMA Inserted ==
    ASSUME NEW c \in Clock, NEW b \in 0 .. MaxBack, NEW l, Good(l, c, b),
           NEW e \in Entries, Near(e, c, b), e.t \notin Listed(l)
    PROVE  /\ Good(Insert(l, e), c, b)
           /\ \A i \in DOMAIN Insert(l, e) :
                 Insert(l, e)[i] = e \/ \E j \in DOMAIN l : Insert(l, e)[i] = l[j]
  <1>0. l \in Seq(Entries) /\ InOrder(l) /\ \A i \in DOMAIN l : Near(l[i], c, b)
    BY DEF Good
  <1>1. \A i \in DOMAIN l : l[i].t # e.t /\ l[i] \in Entries
    BY <1>0 DEF Listed
  <1> DEFINE later == {i \in DOMAIN l : ~NotLater(l[i].expires, e.expires)}
             n == CHOOSE i \in later : \A j \in later : i <= j
  <1>2. Insert(l, e) = IF later = {} THEN Append(l, e)
                       ELSE With(l, n, e)
    BY DEF Insert, With
  <1>3. CASE later = {}
    <2> DEFINE m == Append(l, e)
    <2>1. /\ m \in Seq(Entries) /\ DOMAIN m = 1 .. Len(l) + 1 /\ m[Len(l) + 1] = e
          /\ DOMAIN l = 1 .. Len(l) /\ Len(l) \in Nat
          /\ \A i \in DOMAIN l : m[i] = l[i]
      BY <1>0
    <2> HIDE DEF m
    <2>2. \A i \in DOMAIN m : i \in DOMAIN l \/ i = Len(l) + 1
      BY <2>1
    <2>3. ASSUME NEW i \in DOMAIN m, NEW j \in DOMAIN m, i < j
          PROVE  m[i].t # m[j].t /\ NotLater(m[i].expires, m[j].expires)
      <3>1. i \in DOMAIN l
        BY <2>1, <2>3
      <3>2. CASE j \in DOMAIN l
        BY <1>0, <2>1, <2>3, <3>1, <3>2 DEF InOrder
      <3>3. CASE j = Len(l) + 1
        <4>1. m[i] = l[i] /\ m[j] = e
          BY <2>1, <3>1, <3>3
        <4>2. NotLater(l[i].expires, e.expires)
          BY <1>3, <3>1
        <4> QED BY <1>1, <3>1, <4>1, <4>2
      <3> QED BY <2>2, <3>2, <3>3
    <2>4. \A i \in DOMAIN m : Near(m[i], c, b)
      BY <1>0, <2>1, <2>2
    <2>5. \A i \in DOMAIN m : m[i] = e \/ \E j \in DOMAIN l : m[i] = l[j]
      BY <2>1, <2>2
    <2>6. Insert(l, e) = m
      BY <1>2, <1>3 DEF m
    <2> QED BY <2>1, <2>3, <2>4, <2>5, <2>6 DEF Good, InOrder
  <1>4. CASE later # {}
    <2> DEFINE m == With(l, n, e)
    <2>1. n \in later /\ \A j \in later : n <= j
      <3>1. later \in SUBSET Nat
        BY <1>0
      <3>2. \E i \in later : \A j \in later : i <= j
        BY <1>4, <3>1, Least
      <3> HIDE DEF later
      <3> QED BY <3>2
    <2>2. /\ n \in DOMAIN l /\ ~NotLater(l[n].expires, e.expires)
          /\ \A i \in DOMAIN l : i < n => NotLater(l[i].expires, e.expires)
      <3>1. n \in Int /\ \A i \in DOMAIN l : i \in Int
        BY <1>0, <2>1
      <3> HIDE DEF n
      <3>2. \A i \in DOMAIN l : i < n => i \notin later
        BY <2>1, <3>1
      <3> QED BY <2>1, <3>2
    <2>3. Insert(l, e) = m
      BY <1>2, <1>4
    <2> HIDE DEF n, later
    <2>4. Good(m, c, b) /\ \A i \in DOMAIN m : m[i] = e \/ \E j \in DOMAIN l : m[i] = l[j]
      BY <2>2, InsertedAt
    <2> QED BY <2>3, <2>4
  <1> QED BY <1>3, <1>4

\* A timer set at the time c.
JustSet(e, c) == e.delta \in Delays /\ e.expires = (c + e.delta) % W

KeptOrSet(l, m, c) ==
    \A i \in DOMAIN m : JustSet(m[i], c) \/ \E j \in DOMAIN l : m[i] = l[j]

LEMMA TimerSetHolds ==
    ASSUME clock \in Clock, back \in 0 .. MaxBack, NEW l, Good(l, clock, back),
           NEW t \in Timers, NEW d \in Delays \cup {0}
    PROVE  /\ Good(TimerSet(l, t, d), clock, back)
           /\ KeptOrSet(l, TimerSet(l, t, d), clock)
  <1> DEFINE u == Unlink(l, t)
             e == [t |-> t, expires |-> (clock + d) % W, delta |-> d]
             m == Insert(u, e)
  <1>1. /\ Good(u, clock, back) /\ t \notin Listed(u)
        /\ \A i \in DOMAIN u : \E j \in DOMAIN l : u[i] = l[j]
    BY Unlinked
  <1> HIDE DEF u
  <1>2. CASE d = 0
    <2>1. TimerSet(l, t, d) = u
      BY <1>2 DEF TimerSet, u
    <2> QED BY <1>1, <2>1 DEF KeptOrSet
  <1>3. CASE d \in Delays
    <2>1. /\ d \in Nat /\ d > 0 /\ d + Lag + MaxBack < Half /\ Lag \in Nat
          /\ MaxBack \in Nat /\ Half \in Nat
      BY <1>3, Bounds, Width
    <2>2. TimerSet(l, t, d) = m
      BY <2>1 DEF TimerSet, u
    <2>3. (clock + d) % W \in Clock /\ Signed(((clock + d) % W) - clock) = d
      BY <2>1, ClockMoves
    <2>4. /\ e \in Entries /\ e.t = t /\ e.delta = d /\ e.expires = (clock + d) % W
      BY <1>3, <2>3 DEF Entries, Clock
    <2> HIDE DEF e
    <2>5. Near(e, clock, back)
      BY <2>1, <2>3, <2>4 DEF Near
    <2>6. /\ Good(m, clock, back)
          /\ \A i \in DOMAIN m : m[i] = e \/ \E j \in DOMAIN u : m[i] = u[j]
      BY <1>1, <2>4, <2>5, Inserted
    <2> HIDE DEF m
    <2>7. KeptOrSet(l, m, clock)
      BY <1>1, <1>3, <2>4, <2>6 DEF KeptOrSet, JustSet
    <2> QED BY <2>2, <2>6, <2>7
  <1> QED BY <1>2, <1>3

LEMMA DoTimerHolds ==
    ASSUME clock \in Clock, back \in 0 .. MaxBack, NEW l, Good(l, clock, back),
           NEW t \in Timers, NEW m \in DoTimer(l, t)
    PROVE  Good(m, clock, back) /\ KeptOrSet(l, m, clock)
  <1> DEFINE u == Unlink(l, t)
  <1>1. Good(u, clock, back) /\ KeptOrSet(l, u, clock)
    BY Unlinked DEF KeptOrSet
  <1>2. PICK n \in Callback(u) :
          m = n \/ \E d \in Delays : m = TimerSet(n, t, d)
    BY DEF DoTimer
  <1> HIDE DEF u
  <1>3. Good(n, clock, back) /\ KeptOrSet(l, n, clock)
    <2>1. CASE n = u
      BY <1>1, <2>1
    <2>2. ASSUME NEW x \in Timers, NEW d \in Delays \cup {0}, n = TimerSet(u, x, d)
          PROVE  Good(n, clock, back) /\ KeptOrSet(l, n, clock)
      <3>1. Good(n, clock, back) /\ KeptOrSet(u, n, clock)
        BY <1>1, <2>2, TimerSetHolds
      <3> QED BY <1>1, <3>1 DEF KeptOrSet
    <2>3. n \in {u} \cup {TimerSet(u, x, d) : x \in Timers, d \in Delays \cup {0}}
      BY DEF Callback
    <2> QED BY <2>1, <2>2, <2>3
  <1>4. CASE m = n
    BY <1>3, <1>4
  <1>5. ASSUME NEW d \in Delays, m = TimerSet(n, t, d)
        PROVE  Good(m, clock, back) /\ KeptOrSet(l, m, clock)
    <2>1. d \in Delays \cup {0}
      OBVIOUS
    <2>2. Good(m, clock, back) /\ KeptOrSet(n, m, clock)
      BY <1>3, <1>5, <2>1, TimerSetHolds
    <2> QED BY <1>3, <2>2 DEF KeptOrSet
  <1> QED BY <1>2, <1>4, <1>5

-----------------------------------------------------------------------------
(* The steps.                                                              *)

LEMMA EntryBounds ==
    ASSUME NEW c \in Clock, NEW b \in 0 .. MaxBack, NEW l, Good(l, c, b),
           NEW i \in DOMAIN l
    PROVE  /\ l[i] \in Entries /\ l[i].expires \in Clock
           /\ l[i].delta \in Delays /\ l[i].delta \in Nat
           /\ l[i].delta + Lag + MaxBack < Half
           /\ Signed(l[i].expires - c) \in Int
           /\ -Lag <= Signed(l[i].expires - c)
           /\ Signed(l[i].expires - c) <= l[i].delta + MaxBack - b
  <1>1. l[i] \in Entries /\ Near(l[i], c, b)
    BY DEF Good
  <1>2. l[i].expires \in Clock /\ l[i].delta \in Delays
    BY <1>1 DEF Entries, Clock
  <1> QED BY <1>1, <1>2, Bounds, OffsetsAdd DEF Near

LEMMA InitHolds == Init => IInv
  <1> SUFFICES ASSUME Init PROVE IInv
    OBVIOUS
  <1>1. TypeOK
    <2>1. 0 \in 0 .. W - 1 /\ MaxBack \in 0 .. MaxBack
      BY Width, Bounds
    <2>2. ret \in {-1, 0, 1} /\ someReady \in BOOLEAN /\ events \in BOOLEAN
      BY DEF Init
    <2>3. timers \in Seq(Entries) /\ now \in 0 .. W - 1 /\ clock \in 0 .. W - 1
      BY <2>1 DEF Init
    <2>4. timeout \in Nat \cup {Forever} /\ back \in 0 .. MaxBack
      BY <2>1 DEF Init
    <2>5. pc \in {"main", "wait", "check", "sleep", "look", "run"}
      BY DEF Init
    <2> QED BY <2>2, <2>3, <2>4, <2>5 DEF TypeOK
  <1>2. Good(timers, clock, back)
    BY DEF Init, Good, InOrder
  <1> QED BY <1>1, <1>2 DEF IInv, Init, CheckInv, SleepInv, RunInv

LEMMA HandlerHolds == IInv /\ Handler => IInv'
  <1> SUFFICES ASSUME IInv, Handler PROVE IInv'
    OBVIOUS
  <1>1. TypeOK /\ clock \in Clock /\ back \in 0 .. MaxBack /\ Good(timers, clock, back)
    BY DEF IInv, TypeOK, Clock
  <1>2. PICK t \in Timers, d \in Delays \cup {0} : timers' = TimerSet(timers, t, d)
    BY DEF Handler
  <1>3. Good(timers', clock, back)
    BY <1>1, <1>2, TimerSetHolds
  <1> QED BY <1>1, <1>3
          DEF IInv, TypeOK, Handler, local, CheckInv, SleepInv, RunInv, Good

LEMMA DispatchHolds == IInv /\ (Dispatch \/ Event) => IInv'
  <1> SUFFICES ASSUME IInv, Dispatch \/ Event PROVE IInv'
    OBVIOUS
  <1>1. /\ UNCHANGED <<timers, clock, now, someReady, timeout, back>>
        /\ (pc' = "wait" /\ ret' = 0 /\ events' = FALSE)
              \/ (pc' = pc /\ ret' = ret /\ events' = TRUE)
    BY DEF Dispatch, Event, local
  <1>2. TypeOK'
    BY <1>1 DEF IInv, TypeOK
  <1>3. Good(timers, clock, back)'
    BY <1>1 DEF IInv
  <1> QED BY <1>1, <1>2, <1>3 DEF IInv, CheckInv, SleepInv, RunInv

\* A poll does not sleep at all.
LEMMA BeginPollHolds == IInv /\ BeginPoll => IInv'
  <1> SUFFICES ASSUME IInv, BeginPoll PROVE IInv'
    OBVIOUS
  <1>1. /\ UNCHANGED <<timers, clock, now, events, back>>
        /\ pc' = "sleep" /\ someReady' = TRUE /\ timeout' = 0 /\ ret' = 0
    BY DEF BeginPoll
  <1>2. TypeOK'
    BY <1>1 DEF IInv, TypeOK
  <1>3. Good(timers, clock, back)'
    BY <1>1 DEF IInv
  <1>4. SleepInv'
    BY <1>1 DEF SleepInv, Forever
  <1> QED BY <1>1, <1>2, <1>3, <1>4 DEF IInv, CheckInv, RunInv

\* What Sleep(timers, n) makes of the first timer.
LEMMA SleepHolds ==
    ASSUME clock \in Clock, back \in 0 .. MaxBack, Good(timers, clock, back),
           NEW n \in Clock, Sleep(timers, n),
           Signed(clock - n) >= -(MaxBack - back), Signed(clock - n) <= MaxCheck,
           back = MaxBack => n = clock
    PROVE  /\ timeout' \in Nat \cup {Forever}
           /\ timeout' = Forever => timers = <<>>
           /\ timeout' > 0 =>
                \A i \in DOMAIN timers :
                    timeout' - (IF back = MaxBack THEN 0 ELSE MaxCheck)
                        <= Signed(timers[i].expires - clock)
  <1>1. CASE timers = <<>>
    <2>1. timeout' = -1
      BY <1>1 DEF Sleep, Forever
    <2> QED BY <1>1, <2>1 DEF Forever
  <1>2. CASE timers # <<>>
    <2> DEFINE x == timers[1].expires
               xc == Signed(x - clock)
               cn == Signed(clock - n)
               xn == Signed(x - n)
               d == timers[1].delta
    <2>1. 1 \in DOMAIN timers
      BY <1>2 DEF Good
    <2>2. /\ x \in Clock /\ d \in Nat /\ d + Lag + MaxBack < Half
          /\ xc \in Int /\ -Lag <= xc /\ xc <= d + MaxBack - back
      BY <2>1, EntryBounds
    <2>3. /\ xn \in Int /\ cn \in Int
          /\ -Half <= xc + cn /\ xc + cn < Half => xn = xc + cn
      BY <2>2, OffsetsAdd
    <2>4. /\ Lag \in Nat /\ MaxBack \in Nat /\ MaxCheck \in Nat /\ MaxCheck <= Lag
          /\ Half \in Nat /\ back \in Int /\ 0 <= back /\ back <= MaxBack
      BY Bounds, Width
    <2>5. timeout' = IF xn <= 0 THEN 0 ELSE xn
      BY <1>2 DEF Sleep, NotLater
    <2>6. -(MaxBack - back) <= cn /\ cn <= MaxCheck
      OBVIOUS
    <2>7. back = MaxBack => cn = 0
      BY OffsetsAdd
    <2> HIDE DEF x, xc, cn, xn, d
    <2>8. xn = xc + cn
      BY <2>2, <2>3, <2>4, <2>6
    <2>9. timeout' \in Nat
      BY <2>3, <2>5
    <2>10. ASSUME timeout' > 0, NEW i \in DOMAIN timers
           PROVE  timeout' - (IF back = MaxBack THEN 0 ELSE MaxCheck)
                      <= Signed(timers[i].expires - clock)
      <3> DEFINE ic == Signed(timers[i].expires - clock)
      <3>1. ic \in Int
        BY EntryBounds
      <3>2. xc <= ic
        <4>1. i \in Nat /\ i >= 1
          BY DEF Good
        <4>2. CASE i = 1
          BY <2>2, <4>2 DEF xc, x
        <4>3. CASE 1 < i
          BY <2>1, <4>3, OrderedOffsets DEF xc, x
        <4> QED BY <4>1, <4>2, <4>3
      <3> HIDE DEF ic
      <3>3. timeout' = xc + cn
        BY <2>3, <2>5, <2>8, <2>10
      <3>4. timeout' - (IF back = MaxBack THEN 0 ELSE MaxCheck) <= ic
        BY <2>2, <2>3, <2>4, <2>6, <2>7, <3>1, <3>2, <3>3
      <3> QED BY <3>4 DEF ic
    <2> QED BY <2>9, <2>10 DEF Forever
  <1> QED BY <1>1, <1>2

LEMMA BeginWaitHolds == IInv /\ BeginWait => IInv'
  <1> SUFFICES ASSUME IInv, BeginWait PROVE IInv'
    OBVIOUS
  <1>1. TypeOK /\ clock \in Clock /\ back \in 0 .. MaxBack /\ Good(timers, clock, back)
    BY DEF IInv, TypeOK, Clock
  <1>2. /\ now' \in {now, clock} /\ ret' = 0
        /\ UNCHANGED <<timers, clock, someReady, events, back>>
    BY DEF BeginWait
  <1>3. Good(timers, clock, back)' /\ Signed(clock - clock) = 0
    BY <1>1, <1>2, OffsetsAdd
  <1>4. /\ MaxBack \in Nat /\ MaxCheck \in Nat /\ back \in Int /\ 0 <= back
        /\ back <= MaxBack
    BY <1>1, Bounds
  <1>5. CASE /\ pc' = "check" /\ now' = clock /\ timers # <<>> /\ UNCHANGED timeout
             /\ Signed(timers[1].expires - clock) > 0 /\ Rewound(timers[1], clock)
    <2> DEFINE x == timers[1].expires
               d == timers[1].delta
               o == Signed(x - clock)
    <2>1. 1 \in DOMAIN timers
      BY <1>1, <1>5 DEF Good
    <2>2. x \in Clock /\ d \in Nat /\ o \in Int /\ o <= d + MaxBack - back
      BY <1>1, <2>1, EntryBounds
    <2>3. o > 0 /\ (x - clock) % W > d + SLACK
      BY <1>5 DEF Rewound
    <2>4. o >= 0 => (x - clock) % W = o
      BY <1>1, <2>2, OffsetsAdd
    <2> HIDE DEF x, d, o
    <2>5. o > d + SLACK
      BY <2>2, <2>3, <2>4
    <2>6. back < MaxBack
      BY <1>4, <2>2, <2>5, Bounds
    <2>7. CheckInv'
      BY <1>2, <1>3, <1>4, <1>5, <2>6 DEF CheckInv
    <2> QED BY <1>1, <1>2, <1>3, <1>5, <2>7 DEF IInv, TypeOK, SleepInv, RunInv
  <1>6. CASE pc' = "sleep" /\ Sleep(timers, clock)
    <2>1. Signed(clock - clock) >= -(MaxBack - back) /\ Signed(clock - clock) <= MaxCheck
      BY <1>3, <1>4
    <2>2. /\ timeout' \in Nat \cup {Forever}
          /\ timeout' = Forever => timers = <<>>
          /\ timeout' > 0 =>
               \A i \in DOMAIN timers :
                   timeout' - (IF back = MaxBack THEN 0 ELSE MaxCheck)
                       <= Signed(timers[i].expires - clock)
      BY <1>1, <1>6, <2>1, SleepHolds
    <2>3. SleepInv'
      BY <1>2, <2>2 DEF SleepInv
    <2> QED BY <1>1, <1>2, <1>3, <1>6, <2>2, <2>3 DEF IInv, TypeOK, CheckInv, RunInv
  <1> QED BY <1>5, <1>6 DEF BeginWait

LEMMA CheckAllTimersHolds == IInv /\ CheckAllTimers => IInv'
  <1> SUFFICES ASSUME IInv, CheckAllTimers PROVE IInv'
    OBVIOUS
  <1>1. /\ TypeOK /\ clock \in Clock /\ now \in Clock /\ back \in 0 .. MaxBack
        /\ Good(timers, clock, back)
    BY DEF IInv, TypeOK, Clock
  <1>2. pc = "check" /\ UNCHANGED <<clock, someReady, ret, events, back>>
    BY DEF CheckAllTimers
  <1>3. /\ back < MaxBack /\ -(MaxBack - back) <= Signed(clock - now)
        /\ Signed(clock - now) <= MaxCheck
    BY <1>2 DEF IInv, CheckInv
  <1> DEFINE affected == {i \in DOMAIN timers : Rewound(timers[i], now)}
             first == CHOOSE i \in affected : \A j \in affected : i <= j
  <1>4. CASE /\ affected # {} /\ timers' \in DoTimer(timers, timers[first].t)
             /\ UNCHANGED <<pc, now, timeout>>
    <2>1. first \in affected
      <3>1. affected \in SUBSET Nat
        BY <1>1 DEF Good
      <3>2. \E i \in affected : \A j \in affected : i <= j
        BY <1>4, <3>1, Least
      <3> HIDE DEF affected
      <3> QED BY <3>2
    <2>2. first \in DOMAIN timers
      BY <2>1
    <2> HIDE DEF first, affected
    <2>3. timers[first] \in Entries
      BY <1>1, <2>2 DEF Good
    <2>4. timers[first].t \in Timers
      BY <2>3 DEF Entries
    <2>5. Good(timers', clock, back)
      BY <1>1, <1>4, <2>4, DoTimerHolds
    <2> QED BY <1>1, <1>2, <1>3, <1>4, <2>5
            DEF IInv, TypeOK, CheckInv, SleepInv, RunInv, Good
  <1>5. CASE pc' = "sleep" /\ now' = 0 /\ Sleep(timers, now) /\ UNCHANGED timers
    <2>1. Signed(clock - now) >= -(MaxBack - back) /\ (back = MaxBack => now = clock)
      <3> DEFINE cn == Signed(clock - now)
      <3>1. cn \in Int
        BY <1>1, OffsetsAdd
      <3>2. -(MaxBack - back) <= cn
        BY <1>3
      <3> HIDE DEF cn
      <3>3. cn >= -(MaxBack - back)
        BY <1>1, <3>1, <3>2, Bounds
      <3> QED BY <1>1, <1>3, <3>3, Bounds DEF cn
    <2>2. /\ timeout' \in Nat \cup {Forever}
          /\ timeout' = Forever => timers = <<>>
          /\ timeout' > 0 =>
               \A i \in DOMAIN timers :
                   timeout' - (IF back = MaxBack THEN 0 ELSE MaxCheck)
                       <= Signed(timers[i].expires - clock)
      BY <1>1, <1>3, <1>5, <2>1, SleepHolds
    <2>3. SleepInv'
      BY <1>2, <1>5, <2>2 DEF SleepInv
    <2>4. now' \in Clock
      BY <1>5, Width DEF Clock
    <2>5. TypeOK'
      BY <1>1, <1>2, <1>5, <2>2, <2>4 DEF TypeOK, Clock
    <2> QED BY <1>1, <1>2, <1>5, <2>3, <2>5 DEF IInv, CheckInv, RunInv
  <1>6. \/ /\ affected # {} /\ timers' \in DoTimer(timers, timers[first].t)
           /\ UNCHANGED <<pc, now, timeout>>
        \/ pc' = "sleep" /\ now' = 0 /\ Sleep(timers, now) /\ UNCHANGED timers
    BY DEF CheckAllTimers
  <1> QED BY <1>4, <1>5, <1>6

LEMMA SelectHolds ==
    ASSUME IInv, NEW n \in {-1, 0, 1}, SelectReturns(n)
    PROVE  IInv'
  <1>1. /\ UNCHANGED <<timers, clock, now, events, back>>
        /\ ret' = n /\ pc' \in {"main", "wait", "look"} /\ timeout' = Forever
        /\ someReady' = (someReady /\ pc' # "main")
    BY DEF SelectReturns, Selected
  <1>2. TypeOK'
    BY <1>1 DEF IInv, TypeOK
  <1>3. Good(timers, clock, back)'
    BY <1>1 DEF IInv
  <1> QED BY <1>1, <1>2, <1>3 DEF IInv, CheckInv, SleepInv, RunInv

LEMMA LookHolds == IInv /\ LookAtTimers => IInv'
  <1> SUFFICES ASSUME IInv, LookAtTimers PROVE IInv'
    OBVIOUS
  <1>1. TypeOK /\ clock \in Clock /\ back \in 0 .. MaxBack /\ Good(timers, clock, back)
    BY DEF IInv, TypeOK, Clock
  <1>2. /\ UNCHANGED <<timers, clock, ret, timeout, events, back>>
        /\ (pc' = "run" /\ now' = clock) \/ (pc' \in {"main", "wait"} /\ now' = now)
        /\ someReady' = (someReady /\ pc' # "main")
    BY DEF LookAtTimers
  <1>3. Good(timers, clock, back)'
    BY <1>1, <1>2
  <1>6. TypeOK'
    BY <1>1, <1>2 DEF TypeOK
  <1>4. CASE pc' = "run" /\ now' = clock
    <2>1. ASSUME NEW i \in DOMAIN timers, NotLater(timers[i].expires, clock)
          PROVE  /\ 0 <= Signed(clock - clock)
                 /\ Signed(clock - clock) <= -Signed(timers[i].expires - clock)
      <3> DEFINE o == Signed(timers[i].expires - clock)
                 z == Signed(clock - clock)
      <3>1. o \in Int /\ z = 0
        BY <1>1, EntryBounds, OffsetsAdd
      <3>2. o <= 0
        BY <2>1 DEF NotLater
      <3> HIDE DEF o, z
      <3>3. 0 <= z /\ z <= -o
        BY <3>1, <3>2
      <3> QED BY <3>3 DEF o, z
    <2>2. RunInv'
      BY <1>2, <1>4, <2>1 DEF RunInv
    <2> QED BY <1>2, <1>3, <1>4, <1>6, <2>2 DEF IInv, CheckInv, SleepInv
  <1>5. CASE pc' \in {"main", "wait"} /\ now' = now
    BY <1>2, <1>3, <1>5, <1>6 DEF IInv, CheckInv, SleepInv, RunInv
  <1> QED BY <1>2, <1>4, <1>5

LEMMA RunTimersHolds == IInv /\ RunTimers => IInv'
  <1> SUFFICES ASSUME IInv, RunTimers PROVE IInv'
    OBVIOUS
  <1>1. /\ TypeOK /\ clock \in Clock /\ now \in Clock /\ back \in 0 .. MaxBack
        /\ Good(timers, clock, back)
    BY DEF IInv, TypeOK, Clock
  <1>2. pc = "run" /\ UNCHANGED <<clock, ret, timeout, events, back>>
    BY DEF RunTimers
  <1>3. CASE /\ timers # <<>> /\ NotLater(timers[1].expires, now)
             /\ timers' \in DoTimer(timers, timers[1].t)
             /\ UNCHANGED <<pc, now, someReady>>
    <2>1. 1 \in DOMAIN timers
      BY <1>1, <1>3 DEF Good
    <2>2. timers[1].t \in Timers
      <3>1. timers[1] \in Entries
        BY <1>1, <2>1 DEF Good
      <3> QED BY <3>1 DEF Entries
    <2>3. Good(timers', clock, back) /\ KeptOrSet(timers, timers', clock)
      BY <1>1, <1>3, <2>2, DoTimerHolds
    <2>4. ASSUME back = MaxBack, NEW i \in DOMAIN timers', NotLater(timers'[i].expires, now)
          PROVE  /\ 0 <= Signed(clock - now)
                 /\ Signed(clock - now) <= -Signed(timers'[i].expires - clock)
      <3>1. ASSUME NEW j \in DOMAIN timers, timers'[i] = timers[j]
            PROVE  /\ 0 <= Signed(clock - now)
                   /\ Signed(clock - now) <= -Signed(timers'[i].expires - clock)
        BY <1>2, <2>4, <3>1 DEF IInv, RunInv
      <3>2. ~JustSet(timers'[i], clock)
        <4> SUFFICES ASSUME JustSet(timers'[i], clock) PROVE FALSE
          OBVIOUS
        <4> DEFINE x == timers'[i].expires
                   d == timers'[i].delta
                   xc == Signed(x - clock)
                   cn == Signed(clock - now)
                   xn == Signed(x - now)
                   o == Signed(timers[1].expires - clock)
        <4>1. d \in Delays /\ x = (clock + d) % W
          BY DEF JustSet
        <4>2. /\ d \in Nat /\ d > 0 /\ d + Lag + MaxBack < Half
              /\ Lag \in Nat /\ MaxBack \in Nat /\ Half \in Nat
          BY <4>1, Bounds, Width
        <4>3. x \in Clock /\ xc = d
          BY <1>1, <4>1, <4>2, ClockMoves
        <4>4. /\ cn \in Int /\ xn \in Int
              /\ -Half <= xc + cn /\ xc + cn < Half => xn = xc + cn
          BY <1>1, <4>3, OffsetsAdd
        <4>5. o \in Int /\ -Lag <= o /\ 0 <= cn /\ cn <= -o
          BY <1>1, <1>2, <1>3, <2>1, <2>4, EntryBounds DEF IInv, RunInv
        <4>6. xn <= 0
          BY <2>4 DEF NotLater
        <4> HIDE DEF x, d, xc, cn, xn, o
        <4> QED BY <4>2, <4>3, <4>4, <4>5, <4>6
      <3> QED BY <2>3, <3>1, <3>2 DEF KeptOrSet
    <2>5. RunInv'
      BY <1>2, <1>3, <2>4 DEF RunInv
    <2> QED BY <1>1, <1>2, <1>3, <2>3, <2>5 DEF IInv, TypeOK, CheckInv, SleepInv, Good
  <1>4. CASE pc' = "main" /\ now' = 0 /\ someReady' = FALSE /\ UNCHANGED timers
    <2>1. Good(timers, clock, back)'
      BY <1>1, <1>2, <1>4
    <2>2. now' \in Clock
      BY <1>4, Width DEF Clock
    <2>3. TypeOK'
      BY <1>1, <1>2, <1>4, <2>2 DEF TypeOK, Clock
    <2> QED BY <1>2, <1>4, <2>1, <2>3 DEF IInv, CheckInv, SleepInv, RunInv
  <1> QED BY <1>3, <1>4 DEF RunTimers

LEMMA TickHolds == IInv /\ Tick => IInv'
  <1> SUFFICES ASSUME IInv, Tick PROVE IInv'
    OBVIOUS
  <1>1. /\ TypeOK /\ clock \in Clock /\ now \in Clock /\ back \in 0 .. MaxBack
        /\ Good(timers, clock, back)
    BY DEF IInv, TypeOK, Clock
  <1>2. /\ clock' = (clock + 1) % W /\ UNCHANGED <<timers, pc, local, events, back>>
        /\ now' = now
        /\ timeout' = IF pc = "sleep" /\ timeout > 0 THEN timeout - 1 ELSE timeout
    BY DEF Tick, local
  <1>3. /\ Lag \in Nat /\ MaxLag \in Nat /\ MaxCheck \in Nat /\ MaxBack \in Nat
        /\ Half \in Nat /\ MaxLag <= Lag /\ MaxCheck <= Lag /\ Lag + MaxBack + 1 < Half
        /\ back \in Int /\ 0 <= back /\ back <= MaxBack
    BY <1>1, Bounds, Width
  <1>4. clock' \in Clock /\ Signed(clock' - clock) = 1
    <2>1. 1 \in Nat /\ 1 < Half
      BY <1>3
    <2> QED BY <1>1, <1>2, <2>1, ClockMoves
  <1>5. Signed(clock - clock') = -1
    <2>1. Signed(clock' - clock) > -Half
      BY <1>3, <1>4
    <2>2. Signed(clock - clock') = -Signed(clock' - clock)
      BY <1>1, <1>4, <2>1, OffsetsAdd
    <2> QED BY <1>4, <2>2
  <1>6. timeout \in Nat \cup {Forever} /\ timeout' \in Nat \cup {Forever}
    BY <1>1, <1>2 DEF TypeOK, Forever
  <1> DEFINE o(i) == Signed(timers[i].expires - clock)
             p(i) == Signed(timers[i].expires - clock')
  <1>7. ASSUME NEW i \in DOMAIN timers
        PROVE  o(i) \in Int /\ -Lag <= o(i) /\ p(i) = o(i) - 1
    <2> DEFINE x == timers[i].expires
               d == timers[i].delta
               xc == Signed(x - clock)
               xp == Signed(x - clock')
               cp == Signed(clock - clock')
    <2>1. /\ x \in Clock /\ xc \in Int /\ -Lag <= xc /\ d \in Nat
          /\ d + Lag + MaxBack < Half /\ xc <= d + MaxBack - back
      BY <1>1, EntryBounds
    <2>2. -Half <= xc + cp /\ xc + cp < Half => xp = xc + cp
      BY <1>1, <1>4, <2>1, OffsetsAdd
    <2>3. cp = -1
      BY <1>5
    <2> HIDE DEF x, d, xc, xp, cp
    <2>4. xc \in Int /\ -Lag <= xc /\ xp = xc - 1
      BY <1>3, <2>1, <2>2, <2>3
    <2> QED BY <2>4 DEF xc, xp, x
  <1>8. ASSUME NEW i \in DOMAIN timers PROVE -Lag <= p(i)
    <2>1. CASE pc = "sleep" /\ timeout > 0
      <3> DEFINE oi == o(i)
                 pi == p(i)
                 slack == IF back = MaxBack THEN 0 ELSE MaxCheck
      <3>1. timeout - slack <= oi
        BY <2>1 DEF IInv, SleepInv
      <3>2. oi \in Int /\ pi = oi - 1
        BY <1>7
      <3>3. timeout \in Int /\ timeout >= 1 /\ slack \in Int /\ slack <= Lag
        BY <1>3, <1>6, <2>1 DEF Forever
      <3> HIDE DEF oi, pi, slack
      <3>4. -Lag <= pi
        BY <1>3, <3>1, <3>2, <3>3
      <3> QED BY <3>4 DEF pi
    <2>2. CASE \A j \in DOMAIN timers : Signed(clock + 1 - timers[j].expires) <= MaxLag
      <3> DEFINE x == timers[i].expires
                 pi == p(i)
                 q == Signed(clock' - x)
      <3>1. x \in Clock
        BY <1>1, EntryBounds
      <3>2. q <= MaxLag
        BY <1>1, <1>2, <2>2, <3>1, NextTick
      <3>3. pi \in Int /\ -Lag - 1 <= pi
        BY <1>3, <1>7
      <3>4. pi > -Half => q = -pi
        BY <1>4, <3>1, OffsetsAdd
      <3> HIDE DEF x, pi, q
      <3>5. -Lag <= pi
        BY <1>3, <3>2, <3>3, <3>4
      <3> QED BY <3>5 DEF pi
    <2> QED BY <2>1, <2>2 DEF Tick
  <1> HIDE DEF o, p
  <1>9. Good(timers, clock', back)
    <2>1. ASSUME NEW i \in DOMAIN timers PROVE Near(timers[i], clock', back)
      <3> DEFINE d == timers[i].delta
      <3>1. o(i) <= d + MaxBack - back /\ d \in Nat
        BY <1>1, EntryBounds DEF o
      <3> HIDE DEF d
      <3>2. -Lag <= p(i) /\ p(i) <= d + MaxBack - back
        BY <1>3, <1>7, <1>8, <3>1
      <3> QED BY <3>2 DEF Near, p, d
    <2> QED BY <1>1, <2>1 DEF Good
  <1> DEFINE cn == Signed(clock - now)
             pn == Signed(clock' - now)
             pq == Signed(clock' - clock)
  <1>10. /\ cn \in Int /\ pn \in Int
         /\ -Half <= cn + 1 /\ cn + 1 < Half => pn = cn + 1
    <2>1. /\ cn \in Int /\ pn \in Int /\ pq = 1
          /\ -Half <= pq + cn /\ pq + cn < Half => pn = pq + cn
      BY <1>1, <1>4, OffsetsAdd
    <2> HIDE DEF cn, pn, pq
    <2> QED BY <2>1, <1>3
  <1>11. CheckInv'
    <2> SUFFICES ASSUME pc = "check"
                 PROVE  back < MaxBack /\ -(MaxBack - back) <= pn /\ pn <= MaxCheck
      BY <1>2 DEF CheckInv
    <2>1. back < MaxBack /\ -(MaxBack - back) <= cn /\ cn <= MaxCheck
      BY DEF IInv, CheckInv
    <2>2. pn <= MaxCheck
      BY <1>1, <1>2, NextTick DEF Tick
    <2> HIDE DEF cn, pn
    <2> QED BY <1>3, <1>10, <2>1, <2>2
  <1>12. SleepInv'
    <2> SUFFICES ASSUME pc = "sleep"
                 PROVE  /\ timeout' = Forever => timers = <<>>
                        /\ timeout' > 0 =>
                             \A i \in DOMAIN timers :
                                 timeout' - (IF back = MaxBack THEN 0 ELSE MaxCheck) <= p(i)
      BY <1>2 DEF SleepInv, p
    <2>1. timeout' = Forever => timeout = Forever
      BY <1>2, <1>6 DEF Forever
    <2>2. ASSUME timeout' > 0, NEW i \in DOMAIN timers
          PROVE  timeout' - (IF back = MaxBack THEN 0 ELSE MaxCheck) <= p(i)
      <3> DEFINE slack == IF back = MaxBack THEN 0 ELSE MaxCheck
      <3>1. timeout > 0 /\ timeout' = timeout - 1 /\ timeout \in Int
        BY <1>2, <1>6, <2>2 DEF Forever
      <3>2. timeout - slack <= o(i)
        BY <3>1 DEF IInv, SleepInv, o
      <3>3. slack \in Int /\ o(i) \in Int /\ p(i) = o(i) - 1
        BY <1>3, <1>7
      <3> HIDE DEF slack
      <3>4. timeout' - slack <= p(i)
        BY <3>1, <3>2, <3>3
      <3> QED BY <3>4 DEF slack
    <2> QED BY <2>1, <2>2 DEF IInv, SleepInv
  <1>13. RunInv'
    <2> SUFFICES ASSUME pc = "run", back = MaxBack,
                        NEW i \in DOMAIN timers, NotLater(timers[i].expires, now)
                 PROVE  0 <= pn /\ pn <= -p(i)
      BY <1>2 DEF RunInv, p
    <2>1. 0 <= cn /\ cn <= -o(i)
      BY DEF IInv, RunInv, o
    <2>2. o(i) \in Int /\ -Lag <= o(i) /\ p(i) = o(i) - 1
      BY <1>7
    <2> HIDE DEF cn, pn
    <2> QED BY <1>3, <1>10, <2>1, <2>2
  <1>14. TypeOK'
    BY <1>1, <1>2, <1>4, <1>6 DEF TypeOK, Clock, local
  <1> QED BY <1>2, <1>9, <1>11, <1>12, <1>13, <1>14 DEF IInv

LEMMA SetBackHolds == IInv /\ SetBack => IInv'
  <1> SUFFICES ASSUME IInv, SetBack PROVE IInv'
    OBVIOUS
  <1>1. /\ TypeOK /\ clock \in Clock /\ now \in Clock /\ back \in 0 .. MaxBack
        /\ Good(timers, clock, back)
    BY DEF IInv, TypeOK, Clock
  <1>2. PICK n \in 1 .. back : clock' = (clock - n) % W /\ back' = back - n
    BY DEF SetBack
  <1>3. UNCHANGED <<timers, pc, now, someReady, ret, timeout, events>>
    BY DEF SetBack, local
  <1>4. /\ Lag \in Nat /\ MaxCheck \in Nat /\ MaxBack \in Nat /\ Half \in Nat
        /\ MaxCheck <= Lag /\ Lag + MaxBack + 1 < Half
        /\ back \in Int /\ 0 <= back /\ back <= MaxBack
        /\ n \in Int /\ 1 <= n /\ n <= back
    BY <1>1, Bounds, Width
  <1>5. back' \in Int /\ 0 <= back' /\ back' < MaxBack /\ back' \in 0 .. MaxBack
    BY <1>2, <1>4
  <1>6. clock' \in Clock /\ Signed(clock' - clock) = -n
    <2>1. n \in Nat /\ n < Half
      BY <1>4
    <2> QED BY <1>1, <1>2, <2>1, ClockMoves
  <1>7. Signed(clock - clock') = n
    <2> DEFINE pq == Signed(clock' - clock)
               qp == Signed(clock - clock')
    <2>1. pq = -n
      BY <1>6
    <2>2. pq > -Half => qp = -pq
      BY <1>1, <1>6, OffsetsAdd
    <2> HIDE DEF pq, qp
    <2>3. qp = n
      BY <1>4, <2>1, <2>2
    <2> QED BY <2>3 DEF qp
  <1> DEFINE o(i) == Signed(timers[i].expires - clock)
             p(i) == Signed(timers[i].expires - clock')
  <1>8. ASSUME NEW i \in DOMAIN timers
        PROVE  /\ o(i) \in Int /\ p(i) = o(i) + n
               /\ -Lag <= p(i) /\ p(i) <= timers[i].delta + MaxBack - back'
    <2> DEFINE x == timers[i].expires
               d == timers[i].delta
               xc == Signed(x - clock)
               xp == Signed(x - clock')
               cp == Signed(clock - clock')
    <2>1. /\ x \in Clock /\ xc \in Int /\ -Lag <= xc /\ d \in Nat
          /\ d + Lag + MaxBack < Half /\ xc <= d + MaxBack - back
      BY <1>1, EntryBounds
    <2>2. -Half <= xc + cp /\ xc + cp < Half => xp = xc + cp
      BY <1>1, <1>6, <2>1, OffsetsAdd
    <2>3. cp = n
      BY <1>7
    <2> HIDE DEF x, d, xc, xp, cp
    <2>4. /\ xc \in Int /\ xp = xc + n /\ -Lag <= xp /\ xp <= d + MaxBack - back'
      BY <1>2, <1>4, <2>1, <2>2, <2>3
    <2> QED BY <2>4 DEF xc, xp, x, d
  <1> HIDE DEF o, p
  <1>9. Good(timers, clock', back')
    BY <1>1, <1>8 DEF Good, Near, p
  <1>10. CheckInv'
    <2> DEFINE cn == Signed(clock - now)
               pn == Signed(clock' - now)
               pq == Signed(clock' - clock)
    <2> SUFFICES ASSUME pc = "check"
                 PROVE  -(MaxBack - back') <= pn /\ pn <= MaxCheck
      BY <1>3, <1>5 DEF CheckInv
    <2>1. -(MaxBack - back) <= cn /\ cn <= MaxCheck
      BY DEF IInv, CheckInv
    <2>2. /\ cn \in Int /\ pq = -n
          /\ -Half <= pq + cn /\ pq + cn < Half => pn = pq + cn
      BY <1>1, <1>6, OffsetsAdd
    <2> HIDE DEF cn, pn, pq
    <2> QED BY <1>2, <1>4, <2>1, <2>2
  <1>11. SleepInv'
    <2> SUFFICES ASSUME pc = "sleep"
                 PROVE  /\ timeout = Forever => timers = <<>>
                        /\ timeout > 0 =>
                             \A i \in DOMAIN timers : timeout - MaxCheck <= p(i)
      BY <1>3, <1>5 DEF SleepInv, p
    <2>1. ASSUME timeout > 0, NEW i \in DOMAIN timers
          PROVE  timeout - MaxCheck <= p(i)
      <3> DEFINE slack == IF back = MaxBack THEN 0 ELSE MaxCheck
      <3>1. timeout - slack <= o(i)
        BY <2>1 DEF IInv, SleepInv, o
      <3>2. slack \in Int /\ slack <= MaxCheck /\ timeout \in Int
        BY <1>1, <1>4 DEF TypeOK, Forever
      <3>3. o(i) \in Int /\ p(i) = o(i) + n
        BY <1>8
      <3> HIDE DEF slack
      <3> QED BY <1>4, <3>1, <3>2, <3>3
    <2> QED BY <2>1 DEF IInv, SleepInv
  <1>12. RunInv'
    BY <1>5 DEF RunInv
  <1>13. TypeOK'
    BY <1>1, <1>3, <1>5, <1>6 DEF TypeOK, Clock
  <1> QED BY <1>3, <1>9, <1>10, <1>11, <1>12, <1>13 DEF IInv

LEMMA NextHolds == IInv /\ [Next]_vars => IInv'
  <1> SUFFICES ASSUME IInv, [Next]_vars PROVE IInv'
    OBVIOUS
  <1>1. CASE Handler
    BY <1>1, HandlerHolds
  <1>2. CASE BeginWait \/ BeginPoll
    BY <1>2, BeginWaitHolds, BeginPollHolds
  <1>3. CASE CheckAllTimers
    BY <1>3, CheckAllTimersHolds
  <1>4. CASE LookAtTimers \/ \E n \in {-1, 0, 1} : SelectReturns(n)
    BY <1>4, SelectHolds, LookHolds
  <1>5. CASE RunTimers
    BY <1>5, RunTimersHolds
  <1>6. CASE Tick
    BY <1>6, TickHolds
  <1>7. CASE SetBack
    BY <1>7, SetBackHolds
  <1>8. CASE UNCHANGED vars
    BY <1>8 DEF vars, local, IInv, TypeOK, Good, InOrder, Near, CheckInv, SleepInv,
                RunInv
  <1>9. CASE Dispatch \/ Event
    BY <1>9, DispatchHolds
  <1> QED BY <1>1, <1>2, <1>3, <1>4, <1>5, <1>6, <1>7, <1>8, <1>9 DEF Next

LEMMA Invariant == Spec => []IInv
  <1>1. Init => IInv
    BY InitHolds
  <1>2. IInv /\ [Next]_vars => IInv'
    BY NextHolds
  <1> QED BY <1>1, <1>2, PTL DEF Spec

-----------------------------------------------------------------------------
\* The list of TimerSet stays in the order of expiry, each timer in it once,
\* across the wrap of the CARD32 clock and after it was set back.
THEOREM ListIsSound == Spec => []ListSound
  <1>1. IInv => ListSound
    BY DEF IInv, ListSound, Ordered, Good, InOrder
  <1> QED BY <1>1, Invariant, PTL

\* Until the clock is set back, the time WaitForSomething gives select ends no
\* later than the first expiry.
THEOREM WakesInTime == Spec => []SleepsNoLonger
  <1>1. IInv => SleepsNoLonger
    <2> SUFFICES ASSUME IInv, pc = "sleep", back = MaxBack, NEW i \in DOMAIN timers
                 PROVE  timeout \in 0 .. (IF NotLater(timers[i].expires, clock) THEN 0
                                          ELSE Signed(timers[i].expires - clock))
      BY DEF SleepsNoLonger
    <2> DEFINE o == Signed(timers[i].expires - clock)
    <2>1. o \in Int
      <3>1. clock \in Clock /\ back \in 0 .. MaxBack /\ Good(timers, clock, back)
        BY DEF IInv, TypeOK, Clock
      <3> QED BY <3>1, EntryBounds
    <2>2. timers # <<>>
      OBVIOUS
    <2>3. timeout # Forever /\ timeout \in Nat
      BY <2>2 DEF IInv, TypeOK, SleepInv
    <2>4. timeout > 0 => timeout - 0 <= o
      BY DEF IInv, SleepInv
    <2>5. NotLater(timers[i].expires, clock) <=> o <= 0
      BY DEF NotLater
    <2> HIDE DEF o
    <2>6. timeout \in 0 .. (IF o <= 0 THEN 0 ELSE o)
      BY <2>1, <2>3, <2>4
    <2> QED BY <2>5, <2>6 DEF o
  <1> QED BY <1>1, Invariant, PTL

\* Until the clock is set back, WaitForSomething runs no callback before the
\* clock has reached its time, though it compares with a time read before.
THEOREM NoneEarly == Spec => NeverEarly
  <1>1. ASSUME IInv, [Next]_vars, pc = "run", back = MaxBack, timers' # timers
        PROVE  NotLater(timers[1].expires, clock)
    <2>1. timers # <<>> /\ NotLater(timers[1].expires, now)
      BY <1>1 DEF Next, vars, Handler, Dispatch, BeginPoll, BeginWait, CheckAllTimers,
                  SelectReturns, LookAtTimers, RunTimers, Event, Tick, SetBack
    <2>2. 1 \in DOMAIN timers
      BY <1>1, <2>1 DEF IInv, Good
    <2> DEFINE o == Signed(timers[1].expires - clock)
               s == Signed(clock - now)
    <2>3. 0 <= s /\ s <= -o
      BY <1>1, <2>1, <2>2 DEF IInv, RunInv
    <2>4. o \in Int /\ s \in Int
      <3>1. /\ clock \in Clock /\ now \in Clock /\ back \in 0 .. MaxBack
            /\ Good(timers, clock, back)
        BY <1>1 DEF IInv, TypeOK, Clock
      <3> QED BY <2>2, <3>1, EntryBounds, OffsetsAdd
    <2> HIDE DEF o, s
    <2>5. o <= 0
      BY <2>3, <2>4
    <2> QED BY <2>5 DEF o, NotLater
  <1>2. IInv /\ [Next]_vars
          => [pc = "run" /\ back = MaxBack /\ timers' # timers
                => NotLater(timers[1].expires, clock)]_vars
    BY <1>1
  <1> QED BY <1>2, Invariant, PTL DEF Spec, NeverEarly

-----------------------------------------------------------------------------
(* The XDMCP session.                                                      *)

\* A packet that is to be sent is never what the server is left waiting with,
\* except the query of a session that has just ended and a request that could
\* not be sent.
States ==
    {"XDM_QUERY", "XDM_COLLECT_QUERY", "XDM_START_CONNECTION",
     "XDM_AWAIT_REQUEST_RESPONSE", "XDM_AWAIT_MANAGE_RESPONSE",
     "XDM_RUN_SESSION", "XDM_AWAIT_ALIVE_RESPONSE"}

\* No session outlives the decision to reset.
SessionInv ==
    /\ state \in States
    /\ SessionOpen
    /\ InSession => "DE_RESET" \notin dispatchException

\* Sending leads into a session only from one: the answer to a keepalive is
\* awaited.
LEMMA SendState ==
    ASSUME NEW s, NEW m, NEW id, NEW rest, send_packet(s, m, id, rest),
           s \in {"XDM_QUERY", "XDM_START_CONNECTION", "XDM_MANAGE"}
    PROVE  state' \in States /\ ~ InSession'
BY DEF send_packet, Awaiting, InSession, States

LEMMA SendKeepAlive ==
    ASSUME NEW m, NEW id, NEW rest, send_packet("XDM_KEEPALIVE", m, id, rest)
    PROVE  state' = "XDM_AWAIT_ALIVE_RESPONSE"
BY DEF send_packet, Awaiting

LEMMA SessionStep == SessionInv /\ [XdmcpNext]_xdmcpVars => SessionInv'
<1> SUFFICES ASSUME SessionInv, [XdmcpNext]_xdmcpVars PROVE SessionInv'
    OBVIOUS
<1>a. /\ state \in States
      /\ InSession => sessionSocket \in open
      /\ InSession => "DE_RESET" \notin dispatchException
    BY DEF SessionInv, SessionOpen
<1>b. ASSUME state' \in States,
             ~ InSession' \/ InSession,
             UNCHANGED <<sessionSocket, open>>,
             "DE_RESET" \in dispatchException' => "DE_RESET" \in dispatchException
      PROVE  SessionInv'
    BY <1>a, <1>b DEF SessionInv, SessionOpen
<1>c. ASSUME state' \in States, ~ InSession'
      PROVE  SessionInv'
    BY <1>c DEF SessionInv, SessionOpen
<1>d. ASSUME NEW rest, XdmcpDeadSession(rest) PROVE SessionInv'
    BY <1>d, <1>c, SendState DEF XdmcpDeadSession
<1>0. CASE Elapse \/ Talk
    BY <1>0, <1>a, <1>b DEF Elapse, Talk, protocolVars, clientVars, InSession
<1>1. CASE Receive
    <2>1. PICK msg \in net :
             LET rest == net \ {msg} IN
             \/ Willing(msg, rest) \/ Accept(msg, rest)
             \/ Refuse(msg, rest) \/ Alive(msg, rest)
             \/ Fatal(msg, rest) \/ NotAwaited(msg, rest)
        BY <1>1 DEF Receive
    <2> DEFINE rest == net \ {msg}
    <2>2. UNCHANGED <<sessionSocket, open>>
        BY <1>1 DEF Receive, clientVars
    <2>3. CASE Willing(msg, rest)
        BY <2>3, <1>c, SendState DEF Willing
    <2>4. CASE Accept(msg, rest)
        BY <2>4, <1>c, SendState DEF Accept
    <2>5. CASE Refuse(msg, rest)
        BY <2>5, <1>c, SendState DEF Refuse
    <2>6. CASE Alive(msg, rest)
        <3>1. CASE msg.id = SessionID
            BY <2>6, <3>1, <2>2, <1>b DEF Alive, InSession, States
        <3>2. CASE msg.id # SessionID
            BY <2>6, <3>2, <1>d DEF Alive
        <3> QED
            BY <3>1, <3>2
    <2>7. CASE Fatal(msg, rest) \/ NotAwaited(msg, rest)
        <3>1. UNCHANGED state /\ dispatchException' \in {dispatchException, {"FatalError"}}
            BY <2>7 DEF Fatal, NotAwaited
        <3> QED
            BY <3>1, <2>2, <1>a, <1>b DEF InSession
    <2> QED
        BY <2>1, <2>3, <2>4, <2>5, <2>6, <2>7
<1>2. CASE KeepAlive
    <2>1. state' = "XDM_AWAIT_ALIVE_RESPONSE" /\ InSession
        BY <1>2, SendKeepAlive DEF KeepAlive, InSession
    <2>2. UNCHANGED <<sessionSocket, open, dispatchException>>
        BY <1>2 DEF KeepAlive, clientVars
    <2> QED
        BY <2>1, <2>2, <1>b DEF States
<1>3. CASE Timeout
    <2> DEFINE n == timeOutRtx + 1
    <2>1. UNCHANGED <<sessionSocket, open>>
        BY <1>3 DEF Timeout, clientVars
    <2>2. CASE XdmcpDeadSession(net)
        BY <2>2, <1>d
    <2>3. CASE /\ UNCHANGED state
               /\ dispatchException' = dispatchException \cup {"DE_TERMINATE"}
        BY <2>1, <2>3, <1>a, <1>b DEF InSession
    <2>4. CASE /\ send_packet(Again(state), req_sockaddr, SessionID, net)
               /\ UNCHANGED dispatchException
        <3>1. CASE state = "XDM_AWAIT_ALIVE_RESPONSE"
            <4>1. Again(state) = "XDM_KEEPALIVE"
                BY <3>1 DEF Again
            <4>2. state' = "XDM_AWAIT_ALIVE_RESPONSE"
                BY <4>1, <2>4, SendKeepAlive
            <4> QED
                BY <4>2, <2>1, <2>4, <3>1, <1>b DEF InSession, States
        <3>2. CASE state # "XDM_AWAIT_ALIVE_RESPONSE"
            <4>1. state # "XDM_RUN_SESSION"
                BY <1>3 DEF Timeout
            <4>2. Again(state) \in {"XDM_QUERY", "XDM_START_CONNECTION", "XDM_MANAGE"}
                BY <3>2, <4>1, <1>a DEF Again, States
            <4> QED
                BY <4>2, <2>4, <1>c, SendState
        <3> QED
            BY <3>1, <3>2
    <2> QED
        BY <1>3, <2>2, <2>3, <2>4 DEF Timeout
<1>4. CASE Reset
    BY <1>4, <1>c, SendState DEF Reset
<1>5. ASSUME NEW sock \in open, Close(sock) PROVE SessionInv'
    <2>1. open' = open \ {sock} /\ UNCHANGED sessionSocket
        BY <1>5 DEF Close
    <2>2. CASE InSession /\ sessionSocket = sock
        BY <1>5, <2>2, <1>c DEF Close, XdmcpCloseDisplay, InSession, States
    <2>3. CASE ~ (InSession /\ sessionSocket = sock)
        <3>1. /\ UNCHANGED state
              /\ dispatchException' = dispatchException \cup AtLast(sock)
            BY <1>5, <2>3 DEF Close, XdmcpCloseDisplay
        <3>2. InSession => open # {sock}
            BY <2>3, <1>a
        <3>3. InSession => dispatchException' = dispatchException
            BY <3>1, <3>2 DEF AtLast
        <3> QED
            BY <2>1, <2>3, <3>1, <3>3, <1>a DEF SessionInv, SessionOpen, InSession
    <2> QED
        BY <2>2, <2>3
<1>6. CASE Manager
    BY <1>6, <1>a, <1>b DEF Manager, protocolVars, loopVars, InSession
<1>7. CASE Connect
    <2> DEFINE sock == Sock
    <2>1. /\ open' = open \cup {sock} /\ XdmcpOpenDisplay(sock)
          /\ dispatchException' = {}
        BY <1>7 DEF Connect
    <2> HIDE DEF sock
    <2>2. CASE state = "XDM_AWAIT_MANAGE_RESPONSE"
        BY <2>1, <2>2 DEF XdmcpOpenDisplay, SessionInv, SessionOpen, States
    <2>3. CASE state # "XDM_AWAIT_MANAGE_RESPONSE"
        BY <2>1, <2>3, <1>a DEF XdmcpOpenDisplay, SessionInv, SessionOpen, InSession
    <2> QED
        BY <2>2, <2>3
<1>8. ASSUME NEW m \in Managers, Logout(m) \/ Crash(m) PROVE SessionInv'
    BY <1>8, <1>a, <1>b DEF Logout, Crash, serverVars, protocolVars, loopVars,
        clientVars, InSession
<1>11. ASSUME NEW sock, HangUp(sock) PROVE SessionInv'
    BY <1>11, <1>a, <1>b DEF HangUp, protocolVars, loopVars, InSession
<1>9. ASSUME NEW msg \in net, Lose(msg) \/ Repeat(msg) PROVE SessionInv'
    BY <1>9, <1>a, <1>b DEF Lose, Repeat, serverVars, protocolVars, loopVars,
        clientVars, InSession
<1>10. CASE UNCHANGED xdmcpVars
    BY <1>10, <1>a, <1>b DEF xdmcpVars, serverVars, protocolVars, loopVars,
        clientVars, InSession
<1> QED
    BY <1>0, <1>1, <1>2, <1>3, <1>4, <1>5, <1>6, <1>7, <1>8, <1>9, <1>10, <1>11
    DEF XdmcpNext, Manages, Visits, Login, Guest

\* What ends a session.
LEMMA EndStep ==
    ASSUME SessionInv, [XdmcpNext]_xdmcpVars, InSession, ~ InSession'
    PROVE  dispatchException' \cap {"DE_RESET", "DE_TERMINATE"} # {}
<1>a. state' # state
    BY DEF InSession
<1>1. CASE Receive
    <2>1. PICK msg \in net :
             LET rest == net \ {msg} IN
             \/ Willing(msg, rest) \/ Accept(msg, rest)
             \/ Refuse(msg, rest) \/ Alive(msg, rest)
             \/ Fatal(msg, rest) \/ NotAwaited(msg, rest)
        BY <1>1 DEF Receive
    <2>2. Alive(msg, net \ {msg})
        BY <2>1, <1>a DEF Willing, Accept, Refuse, Fatal,
            NotAwaited, InSession
    <2> QED
        BY <2>2 DEF Alive, InSession, XdmcpDeadSession
<1>2. ~ KeepAlive
    BY SendKeepAlive DEF KeepAlive, InSession
<1>3. CASE Timeout
    <2>1. Again(state) = "XDM_KEEPALIVE"
        BY <1>3 DEF Timeout, InSession, Again
    <2>2. ~ send_packet(Again(state), req_sockaddr, SessionID, net)
        BY <2>1, SendKeepAlive DEF InSession
    <2> QED
        BY <1>3, <1>a, <2>2 DEF Timeout, XdmcpDeadSession
<1>0. ~ Elapse /\ ~ Talk
    BY <1>a DEF Elapse, Talk, protocolVars
<1>4. ~ Reset
    BY DEF Reset, SessionInv
<1>5. ASSUME NEW sock \in open, Close(sock)
      PROVE  dispatchException' \cap {"DE_RESET", "DE_TERMINATE"} # {}
    BY <1>5, <1>a DEF Close, XdmcpCloseDisplay
<1>6. ~ Manager
    BY <1>a DEF Manager, protocolVars
<1>7. ~ Connect
    BY <1>a DEF Connect, XdmcpOpenDisplay, InSession
<1>11. ASSUME NEW sock PROVE ~ HangUp(sock)
    BY <1>a DEF HangUp, protocolVars
<1>8. ASSUME NEW m \in Managers PROVE ~ Logout(m) /\ ~ Crash(m)
    BY <1>a DEF Logout, Crash, serverVars, protocolVars
<1>9. ASSUME NEW msg \in net PROVE ~ Lose(msg) /\ ~ Repeat(msg)
    BY <1>a DEF Lose, Repeat, serverVars, protocolVars
<1>10. ~ UNCHANGED xdmcpVars
    BY <1>a DEF xdmcpVars, serverVars, protocolVars
<1> QED
    BY <1>0, <1>1, <1>2, <1>3, <1>4, <1>5, <1>6, <1>7, <1>8, <1>9, <1>10, <1>11
    DEF XdmcpNext, Manages, Visits, Login, Guest

LEMMA SessionKnown == XdmcpSpec => []SessionInv
<1>1. XdmcpInit => SessionInv
    BY DEF XdmcpInit, SessionInv, SessionOpen, InSession, States
<1>2. SessionInv /\ [XdmcpNext]_xdmcpVars => SessionInv'
    BY SessionStep
<1> QED
    BY <1>1, <1>2, PTL DEF XdmcpSpec

\* The descriptor that a session is known by is that of some client's record
\* as long as the session is said to run (XdmcpOpenDisplay, XdmcpCloseDisplay).
THEOREM SessionWatched == XdmcpSpec => []SessionOpen
<1>1. SessionInv => SessionOpen
    BY DEF SessionInv
<1> QED
    BY <1>1, SessionKnown, PTL

\* A session never ends unnoticed: in the step that ends it the server decides
\* to leave its main loop (XdmcpCloseDisplay, XdmcpDeadSession), so that its
\* other clients do not outlive it.
THEOREM SessionEndsLoop ==
    XdmcpSpec =>
        [][InSession /\ ~ InSession'
               => dispatchException' \cap {"DE_RESET", "DE_TERMINATE"} # {}]_xdmcpVars
<1>1. SessionInv /\ [XdmcpNext]_xdmcpVars
          => [InSession /\ ~ InSession'
                 => dispatchException' \cap {"DE_RESET", "DE_TERMINATE"} # {}]_xdmcpVars
    BY EndStep
<1> QED
    BY <1>1, SessionKnown, PTL DEF XdmcpSpec
=============================================================================
