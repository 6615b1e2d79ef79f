--------------------------- MODULE SyncGrabsProof ---------------------------
(***************************************************************************)
(* Proofs about SyncGrabs, for any devices, clients, windows and grabs:    *)
(* types, that only a grab freezes a device, that its owner can thaw it,   *)
(* the order of events, and the end of grabs with buttons and windows.     *)
(***************************************************************************)
EXTENDS SyncGrabs, TLAPS

-----------------------------------------------------------------------------
(* The devices.  FrozenByGrab has two parts: who holds a device, and that  *)
(* sync.frozen says so.                                                    *)

Devices == [Device -> DeviceRecord]

HeldByGrab(dv) ==
    \A d \in Device :
        /\ dv[d].state = "NOT_GRABBED" <=> ~dv[d].grabbed
        /\ dv[d].other # NoDevice => dv[d].other # d /\ dv[dv[d].other].grabbed

FrozenIsHeld(dv) ==
    \A d \in Device :
        dv[d].frozen <=> dv[d].other # NoDevice \/ dv[d].state \in Frozen

LEMMA FrozenParts == FrozenByGrab <=> HeldByGrab(dev) /\ FrozenIsHeld(dev)
  BY DEF FrozenByGrab, HeldByGrab, FrozenIsHeld

-----------------------------------------------------------------------------
(* What the grabs do to the devices.                                       *)

LEMMA ThawHolds ==
    ASSUME NEW dv \in Devices, HeldByGrab(dv)
    PROVE  Thaw(dv) \in Devices /\ HeldByGrab(Thaw(dv)) /\ FrozenIsHeld(Thaw(dv))
  <1> DEFINE t == Thaw(dv)
             holds(d) == dv[d].other # NoDevice \/ dv[d].state \in Frozen
  <1>1. t = [d \in Device |-> [dv[d] EXCEPT !.frozen = holds(d)]]
    BY DEF Thaw
  <1>2. ASSUME NEW d \in Device
        PROVE  /\ t[d] \in DeviceRecord
               /\ t[d].state = dv[d].state /\ t[d].other = dv[d].other
               /\ t[d].grabbed = dv[d].grabbed
               /\ t[d].frozen = holds(d)
    <2>1. dv[d] \in DeviceRecord /\ holds(d) \in BOOLEAN
      BY DEF Devices
    <2>2. t[d] = [dv[d] EXCEPT !.frozen = holds(d)]
      BY <1>1
    <2> DEFINE r == dv[d]
               u == t[d]
               f == holds(d)
    <2>3. u = [r EXCEPT !.frozen = f] /\ r \in DeviceRecord /\ f \in BOOLEAN
      BY <2>1, <2>2
    <2> HIDE DEF r, u, f
    <2>4. /\ u \in DeviceRecord /\ u.frozen = f /\ u.state = r.state
          /\ u.other = r.other /\ u.grabbed = r.grabbed
      BY <2>3 DEF DeviceRecord
    <2> QED BY <2>4 DEF r, u, f
  <1> HIDE DEF t
  <1>3. t \in Devices
    BY <1>1, <1>2 DEF Devices
  <1>4. \A d \in Device : /\ t[d].state = dv[d].state /\ t[d].other = dv[d].other
                          /\ t[d].grabbed = dv[d].grabbed
    BY <1>2
  <1>5. HeldByGrab(t)
    <2>1. \A d \in Device : dv[d].other # NoDevice => dv[d].other \in Device
      BY DEF Devices, DeviceRecord
    <2> SUFFICES ASSUME NEW d \in Device
                 PROVE  /\ t[d].state = "NOT_GRABBED" <=> ~t[d].grabbed
                        /\ t[d].other # NoDevice => t[d].other # d /\ t[t[d].other].grabbed
      BY DEF HeldByGrab
    <2> QED BY <1>4, <2>1 DEF HeldByGrab
  <1>6. FrozenIsHeld(t)
    BY <1>2 DEF FrozenIsHeld
  <1> QED BY <1>3, <1>5, <1>6 DEF t

LEMMA ActivateHolds ==
    ASSUME NEW dv \in Devices, HeldByGrab(dv), NEW d \in Device, NEW g \in Grab,
           NEW b \in BOOLEAN
    PROVE  LET a == ActivateGrab(dv, d, g, b)
           IN a \in Devices /\ HeldByGrab(a) /\ FrozenIsHeld(a)
  <1> DEFINE r == [dv[d] EXCEPT !.grabbed = TRUE, !.grab = g, !.auto = b]
             u == [dv EXCEPT ![d] = r]
             c == CheckGrabForSyncs(u, d)
             kept(x) == IF Mine(u, u[x].other, u[d].grab.client) THEN NoDevice ELSE u[x].other
  <1>1. /\ r \in DeviceRecord /\ r.grab = g /\ r.grabbed
        /\ r.state = dv[d].state /\ r.other = dv[d].other
    <2> DEFINE o == dv[d]
    <2>1. o \in DeviceRecord
      BY DEF Devices
    <2> HIDE DEF o
    <2>2. LET n == [o EXCEPT !.grabbed = TRUE, !.grab = g, !.auto = b]
          IN /\ n \in DeviceRecord /\ n.grab = g /\ n.grabbed
             /\ n.state = o.state /\ n.other = o.other
      BY <2>1 DEF DeviceRecord
    <2> QED BY <2>2 DEF o
  <1>2. ActivateGrab(dv, d, g, b) = Thaw(c)
    BY DEF ActivateGrab
  <1> HIDE DEF r
  <1>3. /\ u \in Devices /\ u[d].grab = g /\ u[d].grabbed
        /\ \A x \in Device :
             /\ u[x].state = dv[x].state /\ u[x].other = dv[x].other
             /\ x # d => u[x].grabbed = dv[x].grabbed
    BY <1>1 DEF Devices
  <1>4. c = [x \in Device |->
         IF x = d
         THEN IF u[d].grab.own = "Sync"
              THEN [u[x] EXCEPT !.state = "FROZEN_NO_EVENT"]
              ELSE [u[x] EXCEPT !.state = "THAWED", !.other = kept(x)]
         ELSE [u[x] EXCEPT !.other = IF u[d].grab.others = "Sync" THEN d ELSE kept(x)]]
    BY DEF CheckGrabForSyncs
  <1> HIDE DEF u, c
  <1>5. ASSUME NEW x \in Device
        PROVE  /\ c[x] \in DeviceRecord /\ c[x].grabbed = u[x].grabbed
               /\ IF x = d
                  THEN c[x].state # "NOT_GRABBED" /\ c[x].other \in {NoDevice, dv[x].other}
                  ELSE /\ c[x].state = dv[x].state
                       /\ c[x].other \in {d, NoDevice, dv[x].other}
    <2>1. u[x] \in DeviceRecord
      BY <1>3 DEF Devices
    <2>2. kept(x) \in {NoDevice, dv[x].other} /\ kept(x) \in Device \cup {NoDevice}
      BY <1>3, <2>1 DEF DeviceRecord
    <2> DEFINE old == u[x]
               new == c[x]
               k == kept(x)
    <2> HIDE DEF kept
    <2>3. CASE x = d /\ u[d].grab.own = "Sync"
      <3>1. new = [old EXCEPT !.state = "FROZEN_NO_EVENT"] /\ old \in DeviceRecord
        BY <1>4, <2>1, <2>3
      <3> HIDE DEF old, new
      <3>2. /\ new \in DeviceRecord /\ new.state = "FROZEN_NO_EVENT"
            /\ new.other = old.other /\ new.grabbed = old.grabbed
        BY <3>1 DEF DeviceRecord, State
      <3> QED BY <1>3, <2>3, <3>2 DEF old, new
    <2>4. CASE x = d /\ u[d].grab.own # "Sync"
      <3>1. /\ new = [old EXCEPT !.state = "THAWED", !.other = k]
            /\ old \in DeviceRecord /\ k \in Device \cup {NoDevice}
        BY <1>4, <2>1, <2>2, <2>4
      <3> HIDE DEF old, new, k
      <3>2. /\ new \in DeviceRecord /\ new.state = "THAWED"
            /\ new.other = k /\ new.grabbed = old.grabbed
        BY <3>1 DEF DeviceRecord, State
      <3> QED BY <2>2, <2>4, <3>2 DEF old, new, k
    <2>5. CASE x # d
      <3> DEFINE o == IF u[d].grab.others = "Sync" THEN d ELSE kept(x)
      <3>1. new = [old EXCEPT !.other = o] /\ old \in DeviceRecord
        BY <1>4, <2>1, <2>5
      <3>2. o \in Device \cup {NoDevice} /\ o \in {d, NoDevice, dv[x].other}
        BY <2>2
      <3> HIDE DEF o, old, new
      <3>3. /\ new \in DeviceRecord /\ new.state = old.state
            /\ new.other = o /\ new.grabbed = old.grabbed
        BY <3>1, <3>2 DEF DeviceRecord
      <3> QED BY <1>3, <2>5, <3>2, <3>3 DEF old, new
    <2> QED BY <2>3, <2>4, <2>5
  <1>6. c \in Devices
    BY <1>4, <1>5 DEF Devices
  <1>7. HeldByGrab(c)
    <2> SUFFICES ASSUME NEW x \in Device
                 PROVE  /\ c[x].state = "NOT_GRABBED" <=> ~c[x].grabbed
                        /\ c[x].other # NoDevice => c[x].other # x /\ c[c[x].other].grabbed
      BY DEF HeldByGrab
    <2>1. c[x].state = "NOT_GRABBED" <=> ~c[x].grabbed
      BY <1>3, <1>5 DEF HeldByGrab
    <2>2. ASSUME c[x].other # NoDevice
          PROVE  c[x].other # x /\ c[c[x].other].grabbed
      <3>1. c[x].other \in Device
        BY <1>5, <2>2 DEF DeviceRecord
      <3>2. CASE c[x].other = d /\ x # d
        BY <1>3, <1>5, <3>2
      <3>3. CASE c[x].other = dv[x].other
        <4>1. dv[x].other # x /\ dv[dv[x].other].grabbed
          BY <2>2, <3>3 DEF HeldByGrab
        <4> QED BY <1>3, <1>5, <3>1, <3>3, <4>1
      <3> QED BY <1>5, <2>2, <3>2, <3>3
    <2> QED BY <2>1, <2>2
  <1> QED BY <1>2, <1>6, <1>7, ThawHolds

LEMMA DeactivateHolds ==
    ASSUME NEW dv \in Devices, HeldByGrab(dv), NEW d \in Device
    PROVE  LET a == DeactivateGrab(dv, d)
           IN a \in Devices /\ HeldByGrab(a) /\ FrozenIsHeld(a)
  <1> DEFINE o(x) == IF dv[x].other = d THEN NoDevice ELSE dv[x].other
             g(x) == dv[x].grabbed /\ x # d
             a(x) == dv[x].auto /\ x # d
             s(x) == IF x = d THEN "NOT_GRABBED" ELSE dv[x].state
             u == [x \in Device |-> [dv[x] EXCEPT !.other = o(x), !.grabbed = g(x),
                                                  !.auto = a(x), !.state = s(x)]]
  <1>1. DeactivateGrab(dv, d) = Thaw(u)
    BY DEF DeactivateGrab
  <1>2. ASSUME NEW x \in Device
        PROVE  /\ u[x] \in DeviceRecord
               /\ u[x].other = o(x) /\ u[x].grabbed = g(x) /\ u[x].state = s(x)
    <2>1. dv[x] \in DeviceRecord
      BY DEF Devices
    <2>2. o(x) \in Device \cup {NoDevice} /\ s(x) \in State
      BY <2>1 DEF DeviceRecord, State
    <2>3. g(x) \in BOOLEAN /\ a(x) \in BOOLEAN
      OBVIOUS
    <2>4. u[x] = [dv[x] EXCEPT !.other = o(x), !.grabbed = g(x),
                               !.auto = a(x), !.state = s(x)]
      OBVIOUS
    <2> DEFINE old == dv[x]
               new == u[x]
               o1 == o(x)
               g1 == g(x)
               a1 == a(x)
               s1 == s(x)
    <2>5. /\ new = [old EXCEPT !.other = o1, !.grabbed = g1, !.auto = a1, !.state = s1]
          /\ old \in DeviceRecord /\ o1 \in Device \cup {NoDevice}
          /\ s1 \in State /\ g1 \in BOOLEAN /\ a1 \in BOOLEAN
      BY <2>1, <2>2, <2>3, <2>4
    <2> HIDE DEF old, new, o1, g1, a1, s1
    <2>6. /\ new \in DeviceRecord /\ new.other = o1 /\ new.grabbed = g1
          /\ new.state = s1
      BY <2>5 DEF DeviceRecord
    <2> QED BY <2>6 DEF new, o1, g1, s1
  <1>3. u \in Devices
    BY <1>2 DEF Devices
  <1> HIDE DEF u
  <1>4. HeldByGrab(u)
    BY <1>2 DEF HeldByGrab, Devices, DeviceRecord
  <1> QED BY <1>1, <1>3, <1>4, ThawHolds

LEMMA FreezeHolds ==
    ASSUME NEW dv \in Devices, HeldByGrab(dv), FrozenIsHeld(dv),
           NEW d \in Device, NEW e \in Event
    PROVE  LET a == FreezeOnEvent(dv, d, e)
           IN /\ a \in Devices /\ HeldByGrab(a) /\ FrozenIsHeld(a)
              /\ \A x \in Device : dv[x].frozen => a[x].frozen
  <1> DEFINE a == FreezeOnEvent(dv, d, e)
             both == dv[d].state = "FREEZE_BOTH_NEXT_EVENT"
             joins(x) == /\ dv[x].state = "FREEZE_BOTH_NEXT_EVENT"
                         /\ dv[x].grab.client = dv[d].grab.client
             s(x) == IF joins(x) THEN "FROZEN_NO_EVENT" ELSE dv[x].state
             o(x) == IF joins(x) THEN dv[x].other ELSE d
  <1>1. CASE dv[d].state \notin {"FREEZE_NEXT_EVENT", "FREEZE_BOTH_NEXT_EVENT"}
    <2>1. a = dv
      BY <1>1 DEF FreezeOnEvent
    <2> QED BY <2>1
  <1>2. CASE dv[d].state \in {"FREEZE_NEXT_EVENT", "FREEZE_BOTH_NEXT_EVENT"}
    <2>1. a = [x \in Device |->
              IF x = d
              THEN [dv[x] EXCEPT !.state = "FROZEN_WITH_EVENT", !.frozen = TRUE,
                                 !.event = e]
              ELSE IF both THEN [dv[x] EXCEPT !.frozen = TRUE, !.state = s(x),
                                              !.other = o(x)]
              ELSE dv[x]]
      BY <1>2 DEF FreezeOnEvent
    <2>2. \A x \in Device : joins(x) => dv[x].grabbed
      BY DEF HeldByGrab
    <2> HIDE DEF a, both, joins
    <2>3. ASSUME NEW x \in Device
          PROVE  /\ a[x] \in DeviceRecord /\ a[x].grabbed = dv[x].grabbed
                 /\ x = d => a[x].state = "FROZEN_WITH_EVENT" /\ a[x].frozen
                             /\ a[x].other = dv[x].other
                 /\ x # d /\ both =>
                      a[x].frozen /\ a[x].state = s(x) /\ a[x].other = o(x)
                 /\ x # d /\ ~both => a[x] = dv[x]
      <3>1. dv[x] \in DeviceRecord
        BY DEF Devices
      <3>2. s(x) \in State /\ o(x) \in Device \cup {NoDevice}
        BY <3>1 DEF DeviceRecord, State
      <3> DEFINE old == dv[x]
                 new == a[x]
                 s1 == s(x)
                 o1 == o(x)
      <3>3. CASE x = d
        <4>1. /\ new = [old EXCEPT !.state = "FROZEN_WITH_EVENT", !.frozen = TRUE,
                                   !.event = e]
              /\ old \in DeviceRecord
          BY <2>1, <3>1, <3>3
        <4> HIDE DEF old, new
        <4>2. /\ new \in DeviceRecord /\ new.grabbed = old.grabbed
              /\ new.state = "FROZEN_WITH_EVENT" /\ new.frozen = TRUE
              /\ new.other = old.other
          BY <4>1 DEF DeviceRecord, State
        <4> QED BY <3>3, <4>2 DEF old, new
      <3>4. CASE x # d /\ both
        <4>1. /\ new = [old EXCEPT !.frozen = TRUE, !.state = s1, !.other = o1]
              /\ old \in DeviceRecord /\ s1 \in State /\ o1 \in Device \cup {NoDevice}
          BY <2>1, <3>1, <3>2, <3>4
        <4> HIDE DEF old, new, s1, o1
        <4>2. /\ new \in DeviceRecord /\ new.grabbed = old.grabbed
              /\ new.frozen = TRUE /\ new.state = s1 /\ new.other = o1
          BY <4>1 DEF DeviceRecord
        <4> QED BY <3>4, <4>2 DEF old, new, s1, o1
      <3>5. CASE x # d /\ ~both
        BY <2>1, <3>1, <3>5
      <3> QED BY <3>3, <3>4, <3>5
    <2>4. a \in Devices
      BY <2>1, <2>3 DEF Devices
    <2>5. dv[d].grabbed
      BY <1>2 DEF HeldByGrab
    <2>6. HeldByGrab(a)
      <3> SUFFICES ASSUME NEW x \in Device
                   PROVE  /\ a[x].state = "NOT_GRABBED" <=> ~a[x].grabbed
                          /\ a[x].other # NoDevice =>
                                a[x].other # x /\ a[a[x].other].grabbed
        BY DEF HeldByGrab
      <3>1. a[x].state = "NOT_GRABBED" <=> ~a[x].grabbed
        BY <2>2, <2>3, <2>5 DEF HeldByGrab
      <3>2. a[x].other = dv[x].other \/ (a[x].other = d /\ x # d)
        BY <2>3
      <3>3. a[x].other # NoDevice => a[x].other # x /\ a[a[x].other].grabbed
        BY <2>3, <2>5, <3>2 DEF HeldByGrab, Devices, DeviceRecord
      <3> QED BY <3>1, <3>3
    <2>7. FrozenIsHeld(a)
      <3> SUFFICES ASSUME NEW x \in Device
                   PROVE  a[x].frozen <=> a[x].other # NoDevice \/ a[x].state \in Frozen
        BY DEF FrozenIsHeld
      <3>1. d # NoDevice
        BY DevicesAssumption
      <3>2. CASE x = d
        BY <2>3, <3>2 DEF Frozen
      <3>3. CASE x # d /\ both
        BY <2>3, <3>1, <3>3 DEF Frozen
      <3>4. CASE x # d /\ ~both
        BY <2>3, <3>4 DEF FrozenIsHeld
      <3> QED BY <3>2, <3>3, <3>4
    <2>8. \A x \in Device : dv[x].frozen => a[x].frozen
      BY <2>3
    <2> QED BY <2>4, <2>6, <2>7, <2>8 DEF a
  <1>3. QED BY <1>1, <1>2

WithDown(dv, d, k) == [dv EXCEPT ![d].down = k]

LEMMA DownHolds ==
    ASSUME NEW dv \in Devices, HeldByGrab(dv), FrozenIsHeld(dv),
           NEW d \in Device, NEW k \in SUBSET Detail
    PROVE  LET a == WithDown(dv, d, k)
           IN /\ a \in Devices /\ HeldByGrab(a) /\ FrozenIsHeld(a)
              /\ \A x \in Device : a[x].frozen = dv[x].frozen
  <1> DEFINE old == dv[d]
             new == [old EXCEPT !.down = k]
             a == [dv EXCEPT ![d] = new]
  <1>1. old \in DeviceRecord
    BY DEF Devices
  <1> HIDE DEF old
  <1>2. /\ new \in DeviceRecord /\ new.frozen = old.frozen /\ new.state = old.state
        /\ new.other = old.other /\ new.grabbed = old.grabbed
    BY <1>1 DEF DeviceRecord
  <1> HIDE DEF new
  <1>3. a \in Devices
    BY <1>2 DEF Devices
  <1>4. \A x \in Device :
          /\ a[x].frozen = dv[x].frozen /\ a[x].state = dv[x].state
          /\ a[x].other = dv[x].other /\ a[x].grabbed = dv[x].grabbed
    BY <1>2 DEF Devices, old
  <1>5. \A x \in Device : dv[x].other # NoDevice => dv[x].other \in Device
    BY DEF Devices, DeviceRecord
  <1>6. a = WithDown(dv, d, k)
    BY DEF a, new, old, WithDown
  <1> HIDE DEF a
  <1>7. HeldByGrab(a)
    BY <1>4, <1>5 DEF HeldByGrab
  <1>8. FrozenIsHeld(a)
    BY <1>4 DEF FrozenIsHeld
  <1> QED BY <1>3, <1>4, <1>6, <1>7, <1>8

-----------------------------------------------------------------------------
(* The calls under way.                                                    *)

PlaysIn(s) == \E i \in DOMAIN s : s[i].op = "play"

\* Only a device that has had a press split has a second half to come.
Call(S) == {f \in Frame : f.op = "again" => f.ev.dev \in S}

LEMMA PlaysInConcat ==
    ASSUME NEW T, NEW s \in Seq(T), NEW t \in Seq(T)
    PROVE  PlaysIn(s \o t) <=> PlaysIn(s) \/ PlaysIn(t)
  <1>1. ASSUME PlaysIn(s \o t) PROVE PlaysIn(s) \/ PlaysIn(t)
    <2>1. PICK i \in 1 .. Len(s) + Len(t) : (s \o t)[i].op = "play"
      BY <1>1 DEF PlaysIn
    <2>2. CASE i <= Len(s)
      BY <2>1, <2>2 DEF PlaysIn
    <2>3. CASE i > Len(s)
      <3>1. i - Len(s) \in 1 .. Len(t) /\ (s \o t)[i] = t[i - Len(s)]
        BY <2>3
      <3> QED BY <2>1, <3>1 DEF PlaysIn
    <2> QED BY <2>2, <2>3
  <1>2. ASSUME PlaysIn(s) PROVE PlaysIn(s \o t)
    <2>1. PICK i \in 1 .. Len(s) : s[i].op = "play"
      BY <1>2 DEF PlaysIn
    <2>2. i \in 1 .. Len(s \o t) /\ (s \o t)[i] = s[i]
      BY <2>1
    <2> QED BY <2>1, <2>2 DEF PlaysIn
  <1>3. ASSUME PlaysIn(t) PROVE PlaysIn(s \o t)
    <2>1. PICK i \in 1 .. Len(t) : t[i].op = "play"
      BY <1>3 DEF PlaysIn
    <2>2. i + Len(s) \in 1 .. Len(s \o t) /\ (s \o t)[i + Len(s)] = t[i]
      BY <2>1
    <2> QED BY <2>1, <2>2 DEF PlaysIn
  <1> QED BY <1>1, <1>2, <1>3

LEMMA PlaysInTail ==
    ASSUME NEW T, NEW s \in Seq(T), s # <<>>
    PROVE  PlaysIn(s) <=> Head(s).op = "play" \/ PlaysIn(Tail(s))
  <1>1. /\ 1 \in 1 .. Len(s) /\ Head(s) = s[1] /\ Tail(s) \in Seq(T)
        /\ Len(Tail(s)) = Len(s) - 1 /\ DOMAIN Tail(s) = 1 .. Len(Tail(s))
        /\ \A i \in 1 .. Len(s) - 1 : Tail(s)[i] = s[i + 1]
    OBVIOUS
  <1>2. ASSUME PlaysIn(s), Head(s).op # "play" PROVE PlaysIn(Tail(s))
    <2>1. PICK i \in 1 .. Len(s) : s[i].op = "play"
      BY <1>2 DEF PlaysIn
    <2>2. i # 1
      BY <1>1, <1>2, <2>1
    <2>3. i - 1 \in 1 .. Len(s) - 1 /\ (i - 1) + 1 = i
      BY <2>2
    <2>4. i - 1 \in DOMAIN Tail(s) /\ Tail(s)[i - 1] = s[i]
      BY <1>1, <2>3
    <2> QED BY <2>1, <2>4 DEF PlaysIn
  <1>3. ASSUME PlaysIn(Tail(s)) PROVE PlaysIn(s)
    <2>1. PICK i \in 1 .. Len(Tail(s)) : Tail(s)[i].op = "play"
      BY <1>1, <1>3 DEF PlaysIn
    <2>2. i + 1 \in 1 .. Len(s) /\ s[i + 1].op = "play"
      BY <1>1, <2>1
    <2> QED BY <2>2 DEF PlaysIn
  <1>4. ASSUME Head(s).op = "play" PROVE PlaysIn(s)
    BY <1>1, <1>4 DEF PlaysIn
  <1> QED BY <1>2, <1>3, <1>4

LEMMA PlaysHolds ==
    ASSUME NEW S
    PROVE  /\ Plays \in Seq(Call(S))
           /\ PlaysIn(Plays) \/ Playing \/ pending = <<>>
  <1>1. Play \in Call(S) /\ Play.op = "play"
    BY DEF Play, Call, Frame
  <1>2. PlaysIn(<<Play>>)
    BY <1>1 DEF PlaysIn
  <1> QED BY <1>1, <1>2 DEF Plays

LEMMA CallGrows ==
    ASSUME NEW S, NEW R, S \subseteq R, NEW s \in Seq(Call(S))
    PROVE  s \in Seq(Call(R))
  <1>1. Call(S) \subseteq Call(R)
    BY DEF Call
  <1> QED BY <1>1

\* What a handler leaves when it is called above the calls rest: devices that
\* hold together, rest still there, and the queue played if a device thawed.
Moved(rest, S) ==
    /\ dev' \in Devices /\ HeldByGrab(dev') /\ FrozenIsHeld(dev')
    /\ stack' \in Seq(Call(S))
    /\ PlaysIn(rest) => PlaysIn(stack')
    /\ \/ PlaysIn(stack') \/ pending = <<>>
       \/ \A x \in Device : dev[x].frozen => dev'[x].frozen

\* A handler that ends in ComputeFreezes.
LEMMA MovedByPlays ==
    ASSUME dev' \in Devices, HeldByGrab(dev'), FrozenIsHeld(dev'),
           NEW S, NEW rest \in Seq(Call(S)), PlaysIn(rest) <=> Playing,
           NEW more \in Seq(Call(S)), stack' = Plays \o (more \o rest)
    PROVE  Moved(rest, S)
  <1>1. /\ Plays \in Seq(Call(S))
        /\ PlaysIn(Plays) \/ Playing \/ pending = <<>>
    BY PlaysHolds
  <1>2. /\ more \o rest \in Seq(Call(S))
        /\ PlaysIn(rest) => PlaysIn(more \o rest)
    BY PlaysInConcat
  <1>3. stack' \in Seq(Call(S))
    BY <1>1, <1>2
  <1>4. PlaysIn(Plays \o (more \o rest)) <=> PlaysIn(Plays) \/ PlaysIn(more \o rest)
    BY <1>1, <1>2, PlaysInConcat
  <1> QED BY <1>1, <1>2, <1>3, <1>4 DEF Moved

-----------------------------------------------------------------------------
(* The handlers.                                                           *)

LEMMA CheckDeviceGrabsMoves ==
    ASSUME NEW dv \in Devices, HeldByGrab(dv), NEW d \in Device, NEW e \in Event,
           NEW first, NEW direct \in BOOLEAN, NEW S, NEW rest \in Seq(Call(S)),
           PlaysIn(rest) <=> Playing, passive \subseteq PassiveGrabs,
           CheckDeviceGrabs(dv, d, e, first, direct, rest)
    PROVE  Moved(rest, S)
  <1>1. PICK p \in Caught(dv, d, e, first) :
          /\ dev' = ActivateGrab(dv, d, p.grab, TRUE)
          /\ stack' = Plays \o <<[op |-> "arm", ev |-> e, direct |-> direct]>> \o rest
    BY DEF CheckDeviceGrabs
  <1>2. p.grab \in Grab
    BY GrabsAssumption DEF Caught, Grab
  <1>3. dev' \in Devices /\ HeldByGrab(dev') /\ FrozenIsHeld(dev')
    BY <1>1, <1>2, ActivateHolds
  <1> DEFINE arm == <<[op |-> "arm", ev |-> e, direct |-> direct]>>
  <1>4. arm \in Seq(Call(S))
    BY DEF Call, Frame
  <1>5. Plays \in Seq(Call(S))
    BY PlaysHolds
  <1>6. stack' = Plays \o (arm \o rest)
    <2>1. stack' = Plays \o arm \o rest
      BY <1>1
    <2> HIDE DEF arm
    <2> QED BY <1>4, <1>5, <2>1
  <1> HIDE DEF arm
  <1> QED BY <1>3, <1>4, <1>6, MovedByPlays

\* The grab that goes with the press of a button.
ButtonGrab(s) == [client |-> s[1], own |-> "Async", others |-> "Async", win |-> s[2]]

LEMMA ButtonGrabHolds ==
    ASSUME NEW s \in Selections
    PROVE  ButtonGrab(s) \in Grab /\ ButtonGrab(s).win = s[2]
  <1>1. s[1] \in Client /\ s[2] \in Window
    BY SelectionsAssumption
  <1> QED BY <1>1 DEF ButtonGrab, Grab, Mode

LEMMA DeliverDeviceEventsMoves ==
    ASSUME NEW dv \in Devices, HeldByGrab(dv), FrozenIsHeld(dv),
           \A x \in Device : dv[x].frozen = dev[x].frozen,
           NEW d \in Device, NEW e, NEW S, NEW rest \in Seq(Call(S)),
           PlaysIn(rest) <=> Playing, DeliverDeviceEvents(dv, d, e, rest)
    PROVE  Moved(rest, S)
  <1>1. CASE dev' = dv /\ stack' = rest
    BY <1>1 DEF Moved
  <1>2. CASE ~(dev' = dv /\ stack' = rest)
    <2>1. PICK s \in Selections :
            dev' = ActivateGrab(dv, d, ButtonGrab(s), TRUE) /\ stack' = Plays \o rest
      BY <1>2 DEF DeliverDeviceEvents, ButtonGrab
    <2>2. ButtonGrab(s) \in Grab
      BY ButtonGrabHolds
    <2>3. dev' \in Devices /\ HeldByGrab(dev') /\ FrozenIsHeld(dev')
      BY <2>1, <2>2, ActivateHolds
    <2>4. <<>> \in Seq(Call(S)) /\ <<>> \o rest = rest
      OBVIOUS
    <2> QED BY <2>1, <2>3, <2>4, MovedByPlays
  <1> QED BY <1>1, <1>2

LEMMA KeyedHolds ==
    ASSUME dev \in Devices, HeldByGrab(dev), FrozenIsHeld(dev),
           NEW d \in Device, NEW e \in Event
    PROVE  /\ Keyed(d, e) \in Devices /\ HeldByGrab(Keyed(d, e)) /\ FrozenIsHeld(Keyed(d, e))
           /\ \A x \in Device : Keyed(d, e)[x].frozen = dev[x].frozen
  <1> DEFINE k == CASE e.kind = "press"   -> dev[d].down \cup {e.detail}
                    [] e.kind = "release" -> dev[d].down \ {e.detail}
                    [] OTHER -> dev[d].down
  <1>1. dev[d].down \in SUBSET Detail /\ e.detail \in Detail
    BY DEF Devices, DeviceRecord, Event
  <1>2. k \in SUBSET Detail
    BY <1>1
  <1>3. Keyed(d, e) = WithDown(dev, d, k)
    BY DEF Keyed, WithDown
  <1> HIDE DEF k
  <1> QED BY <1>2, <1>3, DownHolds

LEMMA DeliverMoves ==
    ASSUME dev \in Devices, HeldByGrab(dev), FrozenIsHeld(dev),
           NEW d \in Device, NEW e \in Event,
           NEW S, NEW rest \in Seq(Call(S)), PlaysIn(rest) <=> Playing,
           Deliver(d, e, rest)
    PROVE  Moved(rest, S)
  <1> DEFINE k == Keyed(d, e)
  <1>1. /\ k \in Devices /\ HeldByGrab(k) /\ FrozenIsHeld(k)
        /\ \A x \in Device : k[x].frozen = dev[x].frozen
    BY KeyedHolds
  <1>2. CASE Ends(d, e)
    <2>1. dev' = DeactivateGrab(k, d) /\ stack' = Plays \o rest
      BY <1>2 DEF Deliver
    <2> HIDE DEF k
    <2>2. dev' \in Devices /\ HeldByGrab(dev') /\ FrozenIsHeld(dev')
      BY <1>1, <2>1, DeactivateHolds
    <2>3. <<>> \in Seq(Call(S)) /\ <<>> \o rest = rest
      OBVIOUS
    <2> QED BY <2>1, <2>2, <2>3, MovedByPlays
  <1>3. CASE ~Ends(d, e)
    <2>1. PICK heard \in BOOLEAN :
            dev' = IF heard /\ e.kind # "motion" THEN FreezeOnEvent(k, d, e) ELSE k
      BY <1>3 DEF Deliver
    <2>2. stack' = <<>> \o rest
      BY <1>3 DEF Deliver
    <2>3. stack' = rest
      BY <2>2
    <2> HIDE DEF k
    <2>4. /\ dev' \in Devices /\ HeldByGrab(dev') /\ FrozenIsHeld(dev')
          /\ \A x \in Device : k[x].frozen => dev'[x].frozen
      BY <1>1, <2>1, FreezeHolds
    <2> QED BY <1>1, <2>3, <2>4 DEF Moved
  <1> QED BY <1>2, <1>3

LEMMA HandleMoves ==
    ASSUME dev \in Devices, HeldByGrab(dev), FrozenIsHeld(dev),
           passive \subseteq PassiveGrabs, NEW d \in Device, NEW e \in Event,
           NEW S, NEW rest \in Seq(Call(S)), PlaysIn(rest) <=> Playing,
           Handle(d, e, rest)
    PROVE  Moved(rest, S)
  <1>1. CASE Ignored(d, e)
    <2>1. dev' = dev /\ stack' = rest
      BY <1>1 DEF Handle
    <2> QED BY <2>1 DEF Moved
  <1>2. CASE ~Ignored(d, e) /\ ~dev[d].grabbed /\ Caught(Keyed(d, e), d, e, 1) # {}
    <2>1. CheckDeviceGrabs(Keyed(d, e), d, e, 1, TRUE, rest)
      BY <1>2 DEF Handle
    <2>2. Keyed(d, e) \in Devices /\ HeldByGrab(Keyed(d, e))
      BY KeyedHolds
    <2> QED BY <2>1, <2>2, CheckDeviceGrabsMoves
  <1>3. CASE ~Ignored(d, e) /\ dev[d].grabbed
    <2>1. Deliver(d, e, rest)
      BY <1>3 DEF Handle
    <2> QED BY <2>1, DeliverMoves
  <1>4. CASE ~Ignored(d, e) /\ ~dev[d].grabbed /\ ~(Caught(Keyed(d, e), d, e, 1) # {})
    <2>1. DeliverDeviceEvents(Keyed(d, e), d, e, rest)
      BY <1>4 DEF Handle
    <2> QED BY <2>1, KeyedHolds, DeliverDeviceEventsMoves
  <1> QED BY <1>1, <1>2, <1>3, <1>4

LEMMA ProcessMoves ==
    ASSUME dev \in Devices, HeldByGrab(dev), FrozenIsHeld(dev),
           passive \subseteq PassiveGrabs, NEW e \in Event,
           NEW rest \in Seq(Call(split)), PlaysIn(rest) <=> Playing,
           Process(e, rest)
    PROVE  /\ Moved(rest, split')
           /\ \/ split' = split \cup {e.dev} /\ done' = done
              \/ split' = split /\ done' = [done EXCEPT ![e.dev] = e.n]
  <1> DEFINE d == e.dev
             half == [e EXCEPT !.kind = "release"]
             again == <<[op |-> "again", ev |-> e]>>
  <1>1. d \in Device /\ half \in Event
    BY DEF Event
  <1>2. CASE d = Keyboard /\ e.kind = "press" /\ e.detail \in dev[d].down
    <2>1. Handle(d, half, again \o rest) /\ split' = split \cup {d} /\ done' = done
      BY <1>2 DEF Process
    <2>2. again \in Seq(Call(split')) /\ ~PlaysIn(again)
      BY <2>1 DEF Call, Frame, PlaysIn
    <2>3. rest \in Seq(Call(split'))
      BY <2>1, CallGrows
    <2> HIDE DEF d, half, again
    <2>4. /\ again \o rest \in Seq(Call(split'))
          /\ PlaysIn(again \o rest) <=> PlaysIn(rest)
      BY <2>2, <2>3, PlaysInConcat
    <2>5. Moved(again \o rest, split')
      BY <1>1, <2>1, <2>4, HandleMoves
    <2>6. Moved(rest, split')
      BY <2>4, <2>5 DEF Moved
    <2> QED BY <2>1, <2>6 DEF d
  <1>3. CASE ~(d = Keyboard /\ e.kind = "press" /\ e.detail \in dev[d].down)
    <2>1. Handle(d, e, rest) /\ done' = [done EXCEPT ![d] = e.n] /\ split' = split
      BY <1>3 DEF Process
    <2> HIDE DEF d
    <2>2. Moved(rest, split)
      BY <1>1, <2>1, HandleMoves
    <2> QED BY <2>1, <2>2 DEF d
  <1> QED BY <1>2, <1>3

-----------------------------------------------------------------------------
(* The queue.                                                              *)

\* The first three parts of InOrder; and nothing is processed that was not
\* sent.
Ordered(pn, sn, dn, sp) ==
    /\ \A i, j \in DOMAIN pn :
        i < j /\ pn[i].dev = pn[j].dev /\ pn[i].dev \notin sp => pn[i].n < pn[j].n
    /\ \A i \in DOMAIN pn : pn[i].dev \notin sp =>
        pn[i].n > dn[pn[i].dev] /\ pn[i].n <= sn[pn[i].dev]
    /\ \A d \in Device \ sp : \A n \in dn[d] + 1 .. sn[d] :
        \E i \in DOMAIN pn : pn[i].dev = d /\ pn[i].n = n
    /\ \A d \in Device \ sp : dn[d] <= sn[d]

Drained(pn, dv, st) ==
    PlaysIn(st) \/ \A i \in DOMAIN pn : dv[pn[i].dev].frozen

LEMMA InOrderParts ==
    Ordered(pending, sent, done, split) /\ Drained(pending, dev, stack) => InOrder
  BY DEF Ordered, Drained, InOrder, Playing, PlaysIn

LEMMA EventFields ==
    ASSUME NEW e \in Event
    PROVE  e.dev \in Device /\ e.n \in Nat
  BY DEF Event

\* An event of a device joins the queue when it is sent, or, if the device
\* had a press split in two, at any time.
LEMMA OrderedAppend ==
    ASSUME NEW pn \in Seq(Event), NEW sn \in [Device -> Nat], NEW dn \in [Device -> Nat],
           NEW sp, NEW e \in Event, NEW sn2 \in [Device -> Nat],
           Ordered(pn, sn, dn, sp),
           \A d \in Device : d # e.dev => sn2[d] = sn[d],
           e.dev \notin sp => sn2[e.dev] = sn[e.dev] + 1 /\ e.n = sn[e.dev] + 1
    PROVE  Ordered(Append(pn, e), sn2, dn, sp)
  <1> DEFINE r == Append(pn, e)
             d == e.dev
  <1>1. /\ DOMAIN r = 1 .. Len(pn) + 1 /\ r[Len(pn) + 1] = e
        /\ \A i \in 1 .. Len(pn) : r[i] = pn[i]
        /\ DOMAIN pn = 1 .. Len(pn) /\ Len(pn) \in Nat
        /\ \A i \in 1 .. Len(pn) : pn[i] \in Event
    OBVIOUS
  <1>2. d \in Device /\ e.n \in Nat
    BY EventFields
  <1>3. \A i \in 1 .. Len(pn) : pn[i].dev \in Device /\ pn[i].n \in Nat
    BY <1>1, EventFields
  <1> HIDE DEF r
  <1>4. \A i, j \in DOMAIN r :
          i < j /\ r[i].dev = r[j].dev /\ r[i].dev \notin sp => r[i].n < r[j].n
    <2> SUFFICES ASSUME NEW i \in DOMAIN r, NEW j \in DOMAIN r,
                        i < j, r[i].dev = r[j].dev, r[i].dev \notin sp
                 PROVE  r[i].n < r[j].n
      OBVIOUS
    <2>1. i \in 1 .. Len(pn) /\ r[i] = pn[i]
      BY <1>1
    <2>2. CASE j \in 1 .. Len(pn)
      BY <1>1, <2>1, <2>2 DEF Ordered
    <2>3. CASE j = Len(pn) + 1
      <3>1. pn[i].dev = d /\ d \notin sp
        BY <1>1, <2>1, <2>3
      <3>2. pn[i].n <= sn[d]
        BY <1>1, <2>1, <3>1 DEF Ordered
      <3>3. e.n = sn[d] + 1 /\ sn[d] \in Nat /\ pn[i].n \in Nat
        BY <1>2, <1>3, <2>1, <3>1
      <3>4. r[i].n = pn[i].n /\ r[j].n = e.n
        BY <1>1, <2>1, <2>3
      <3> HIDE DEF d
      <3> QED BY <3>2, <3>3, <3>4
    <2> QED BY <1>1, <2>2, <2>3
  <1>5. \A i \in DOMAIN r : r[i].dev \notin sp =>
          r[i].n > dn[r[i].dev] /\ r[i].n <= sn2[r[i].dev]
    <2> SUFFICES ASSUME NEW i \in DOMAIN r, r[i].dev \notin sp
                 PROVE  r[i].n > dn[r[i].dev] /\ r[i].n <= sn2[r[i].dev]
      OBVIOUS
    <2>1. CASE i \in 1 .. Len(pn)
      <3>1. r[i] = pn[i] /\ pn[i].dev \in Device /\ pn[i].n \in Nat
        BY <1>1, <1>3, <2>1
      <3>2. pn[i].n > dn[pn[i].dev] /\ pn[i].n <= sn[pn[i].dev]
        BY <1>1, <2>1, <3>1 DEF Ordered
      <3>3. CASE pn[i].dev = d
        <4>1. sn2[d] = sn[d] + 1 /\ sn[d] \in Nat
          BY <1>2, <3>1, <3>3
        <4> QED BY <3>1, <3>2, <3>3, <4>1
      <3>4. CASE pn[i].dev # d
        BY <3>1, <3>2, <3>4
      <3> QED BY <3>3, <3>4
    <2>2. CASE i = Len(pn) + 1
      <3>1. r[i] = e /\ d \notin sp
        BY <1>1, <2>2
      <3>2. dn[d] <= sn[d] /\ dn[d] \in Nat /\ sn[d] \in Nat
        BY <1>2, <3>1 DEF Ordered
      <3>3. sn2[d] = sn[d] + 1 /\ e.n = sn[d] + 1
        BY <3>1
      <3>4. r[i].n = e.n /\ r[i].dev = d
        BY <3>1
      <3> HIDE DEF d
      <3> QED BY <3>2, <3>3, <3>4
    <2> QED BY <1>1, <2>1, <2>2
  <1>6. \A x \in Device \ sp : \A n \in dn[x] + 1 .. sn2[x] :
          \E i \in DOMAIN r : r[i].dev = x /\ r[i].n = n
    <2> SUFFICES ASSUME NEW x \in Device \ sp, NEW n \in dn[x] + 1 .. sn2[x]
                 PROVE  \E i \in DOMAIN r : r[i].dev = x /\ r[i].n = n
      OBVIOUS
    <2>1. dn[x] \in Nat /\ sn[x] \in Nat
      OBVIOUS
    <2>2. CASE n \in dn[x] + 1 .. sn[x]
      <3>1. PICK i \in 1 .. Len(pn) : pn[i].dev = x /\ pn[i].n = n
        BY <1>1, <2>2 DEF Ordered
      <3>2. i \in DOMAIN r /\ r[i].dev = x /\ r[i].n = n
        BY <1>1, <3>1
      <3> QED BY <3>2
    <2>3. CASE n \notin dn[x] + 1 .. sn[x]
      <3>1. sn2[x] # sn[x]
        BY <2>3
      <3>2. x = d /\ sn2[x] = sn[x] + 1 /\ e.n = sn[x] + 1
        BY <3>1
      <3>3. n = e.n
        BY <2>1, <2>3, <3>2
      <3>4. Len(pn) + 1 \in DOMAIN r
        BY <1>1
      <3> QED BY <1>1, <3>2, <3>3, <3>4
    <2> QED BY <2>2, <2>3
  <1>7. \A x \in Device \ sp : dn[x] <= sn2[x]
    <2> SUFFICES ASSUME NEW x \in Device \ sp PROVE dn[x] <= sn2[x]
      OBVIOUS
    <2>1. dn[x] <= sn[x] /\ dn[x] \in Nat /\ sn[x] \in Nat
      BY DEF Ordered
    <2>2. sn2[x] = sn[x] \/ sn2[x] = sn[x] + 1
      OBVIOUS
    <2> QED BY <2>1, <2>2
  <1> QED BY <1>4, <1>5, <1>6, <1>7 DEF Ordered, r

\* More split presses ask less of the order.
LEMMA OrderedSplit ==
    ASSUME NEW pn, NEW sn, NEW dn, NEW sp, NEW sp2, sp \subseteq sp2,
           Ordered(pn, sn, dn, sp)
    PROVE  Ordered(pn, sn, dn, sp2)
  <1>1. \A i, j \in DOMAIN pn :
        i < j /\ pn[i].dev = pn[j].dev /\ pn[i].dev \notin sp2 => pn[i].n < pn[j].n
    BY DEF Ordered
  <1>2. \A i \in DOMAIN pn : pn[i].dev \notin sp2 =>
        pn[i].n > dn[pn[i].dev] /\ pn[i].n <= sn[pn[i].dev]
    BY DEF Ordered
  <1>3. \A d \in Device \ sp2 : \A n \in dn[d] + 1 .. sn[d] :
        \E i \in DOMAIN pn : pn[i].dev = d /\ pn[i].n = n
    BY DEF Ordered
  <1>4. \A d \in Device \ sp2 : dn[d] <= sn[d]
    BY DEF Ordered
  <1> QED BY <1>1, <1>2, <1>3, <1>4 DEF Ordered

\* What Ordered asks of a device that has had a press split is nothing.
LEMMA OrderedSame ==
    ASSUME NEW pn, NEW sn, NEW sn2, NEW dn, NEW dn2, NEW sp,
           \A i \in DOMAIN pn : pn[i].dev \in Device,
           Ordered(pn, sn, dn, sp),
           \A d \in Device \ sp : sn2[d] = sn[d] /\ dn2[d] = dn[d]
    PROVE  Ordered(pn, sn2, dn2, sp)
  <1>1. \A i, j \in DOMAIN pn :
        i < j /\ pn[i].dev = pn[j].dev /\ pn[i].dev \notin sp => pn[i].n < pn[j].n
    BY DEF Ordered
  <1>2. \A i \in DOMAIN pn : pn[i].dev \notin sp =>
        pn[i].n > dn2[pn[i].dev] /\ pn[i].n <= sn2[pn[i].dev]
    BY DEF Ordered
  <1>3. \A d \in Device \ sp : \A n \in dn2[d] + 1 .. sn2[d] :
        \E i \in DOMAIN pn : pn[i].dev = d /\ pn[i].n = n
    BY DEF Ordered
  <1>4. \A d \in Device \ sp : dn2[d] <= sn2[d]
    BY DEF Ordered
  <1> QED BY <1>1, <1>2, <1>3, <1>4 DEF Ordered

\* An event that is sent and processed at once: none of its device waits.
LEMMA OrderedLive ==
    ASSUME NEW pn \in Seq(Event), NEW sn \in [Device -> Nat], NEW dn \in [Device -> Nat],
           NEW sp, NEW d \in Device, Ordered(pn, sn, dn, sp),
           \A i \in DOMAIN pn : pn[i].dev # d,
           NEW sn2 \in [Device -> Nat], NEW dn2 \in [Device -> Nat],
           \A x \in Device \ {d} : sn2[x] = sn[x] /\ dn2[x] = dn[x],
           dn2[d] = sn2[d]
    PROVE  Ordered(pn, sn2, dn2, sp)
  <1>0. \A i \in DOMAIN pn : pn[i].dev \in Device \ {d}
    BY EventFields
  <1>1. \A i, j \in DOMAIN pn :
        i < j /\ pn[i].dev = pn[j].dev /\ pn[i].dev \notin sp => pn[i].n < pn[j].n
    BY DEF Ordered
  <1>2. \A i \in DOMAIN pn : pn[i].dev \notin sp =>
        pn[i].n > dn2[pn[i].dev] /\ pn[i].n <= sn2[pn[i].dev]
    BY <1>0 DEF Ordered
  <1>3. \A x \in Device \ sp : \A n \in dn2[x] + 1 .. sn2[x] :
        \E i \in DOMAIN pn : pn[i].dev = x /\ pn[i].n = n
    <2> SUFFICES ASSUME NEW x \in Device \ sp, NEW n \in dn2[x] + 1 .. sn2[x]
                 PROVE  \E i \in DOMAIN pn : pn[i].dev = x /\ pn[i].n = n
      OBVIOUS
    <2>1. x # d
      <3>1. dn2[d] \in Nat /\ dn2[d] = sn2[d]
        OBVIOUS
      <3> QED BY <3>1
    <2>2. n \in dn[x] + 1 .. sn[x]
      BY <2>1
    <2> QED BY <2>2 DEF Ordered
  <1>4. \A x \in Device \ sp : dn2[x] <= sn2[x]
    <2> SUFFICES ASSUME NEW x \in Device \ sp PROVE dn2[x] <= sn2[x]
      OBVIOUS
    <2>1. CASE x = d
      BY <2>1
    <2>2. CASE x # d
      BY <2>2 DEF Ordered
    <2> QED BY <2>1, <2>2
  <1> QED BY <1>1, <1>2, <1>3, <1>4 DEF Ordered

Without(s, i) == SubSeq(s, 1, i - 1) \o SubSeq(s, i + 1, Len(s))

LEMMA WithoutHolds ==
    ASSUME NEW T, NEW s \in Seq(T), NEW i \in DOMAIN s
    PROVE  LET r == Without(s, i)
           IN /\ r \in Seq(T) /\ Len(r) = Len(s) - 1
              /\ \A j \in 1 .. Len(s) - 1 : r[j] = IF j < i THEN s[j] ELSE s[j + 1]
  <1> DEFINE a == SubSeq(s, 1, i - 1)
             b == SubSeq(s, i + 1, Len(s))
  <1>0. i \in 1 .. Len(s) /\ Len(s) \in Nat
    OBVIOUS
  <1>1. /\ a \in Seq(T) /\ Len(a) = i - 1
        /\ \A j \in 1 .. i - 1 : a[j] = s[j]
    BY <1>0
  <1>2. /\ b \in Seq(T) /\ Len(b) = Len(s) - i
        /\ \A j \in 1 .. Len(s) - i : b[j] = s[j + i]
    BY <1>0
  <1> HIDE DEF a, b
  <1>3. a \o b \in Seq(T) /\ Len(a \o b) = Len(s) - 1
    BY <1>0, <1>1, <1>2
  <1>4. ASSUME NEW j \in 1 .. Len(s) - 1
        PROVE  (a \o b)[j] = IF j < i THEN s[j] ELSE s[j + 1]
    <2>1. CASE j < i
      <3>1. j \in 1 .. Len(a) /\ (a \o b)[j] = a[j]
        BY <1>0, <1>1, <1>2, <2>1
      <3> QED BY <1>1, <2>1, <3>1
    <2>2. CASE j >= i
      <3> DEFINE k == j - (i - 1)
      <3>1. i \in Int /\ j \in Int /\ Len(s) \in Int /\ i <= Len(s) /\ j <= Len(s) - 1
            /\ 1 <= i
        BY <1>0
      <3>2. k \in 1 .. Len(s) - i /\ k + i = j + 1
        BY <2>2, <3>1
      <3>3. Len(a) = i - 1 /\ Len(b) = Len(s) - i
        BY <1>1, <1>2
      <3>4. \A m \in 1 .. Len(b) : (a \o b)[Len(a) + m] = b[m]
        BY <1>1, <1>2
      <3>5. (a \o b)[(i - 1) + k] = b[k]
        <4> HIDE DEF k
        <4> QED BY <3>2, <3>3, <3>4
      <3>6. (i - 1) + k = j
        BY <3>1
      <3> HIDE DEF k
      <3>7. (a \o b)[j] = s[j + 1]
        <4>1. b[k] = s[k + i]
          BY <1>2, <3>2
        <4>2. b[k] = s[j + 1]
          BY <3>2, <4>1, Zenon
        <4> QED BY <3>5, <3>6, <4>2, Zenon
      <3>8. ~(j < i)
        BY <2>2, <3>1
      <3> QED BY <3>7, <3>8
    <2>3. j < i \/ j >= i
      BY <1>0
    <2> QED BY <2>1, <2>2, <2>3, Zenon
  <1> QED BY <1>3, <1>4 DEF Without, a, b

\* One event is taken from the queue and processed: the first of its device.
LEMMA OrderedPlay ==
    ASSUME NEW pn \in Seq(Event), NEW sn \in [Device -> Nat], NEW dn \in [Device -> Nat],
           NEW sp, NEW i \in DOMAIN pn, Ordered(pn, sn, dn, sp),
           \A j \in DOMAIN pn : j < i => pn[j].dev # pn[i].dev
    PROVE  /\ pn[i].dev \in sp => Ordered(Without(pn, i), sn, dn, sp)
           /\ Ordered(Without(pn, i), sn, [dn EXCEPT ![pn[i].dev] = pn[i].n], sp)
  <1> DEFINE r == Without(pn, i)
             d == pn[i].dev
             L == Len(pn)
             old(j) == IF j < i THEN j ELSE j + 1
             dn2 == [dn EXCEPT ![d] = pn[i].n]
  <1>1. /\ L \in Nat /\ DOMAIN pn = 1 .. L /\ i \in 1 .. L
        /\ \A j \in 1 .. L : pn[j].dev \in Device /\ pn[j].n \in Nat
    BY EventFields
  <1>0. /\ r \in Seq(Event) /\ Len(r) = L - 1
        /\ \A j \in 1 .. L - 1 : r[j] = IF j < i THEN pn[j] ELSE pn[j + 1]
    BY WithoutHolds, Zenon
  <1> HIDE DEF r, L
  <1>2. r \in Seq(Event) /\ Len(r) = L - 1 /\ DOMAIN r = 1 .. L - 1
    BY <1>0
  <1>3. \A j \in 1 .. L - 1 : old(j) \in 1 .. L /\ old(j) # i /\ r[j] = pn[old(j)]
    BY <1>0, <1>1
  <1>4. \A j, k \in 1 .. L - 1 : j < k => old(j) < old(k)
    BY <1>1
  <1>5. \A k \in 1 .. L : k # i => \E j \in 1 .. L - 1 : old(j) = k
    <2> SUFFICES ASSUME NEW k \in 1 .. L, k # i
                 PROVE  \E j \in 1 .. L - 1 : old(j) = k
      OBVIOUS
    <2>1. CASE k < i
      <3>1. k \in 1 .. L - 1 /\ old(k) = k
        BY <1>1, <2>1
      <3> QED BY <3>1
    <2>2. CASE k > i
      <3>1. k - 1 \in 1 .. L - 1 /\ old(k - 1) = k
        BY <1>1, <2>2
      <3> QED BY <3>1
    <2> QED BY <1>1, <2>1, <2>2
  <1>6. dn2 \in [Device -> Nat] /\ dn2[d] = pn[i].n
        /\ \A x \in Device \ {d} : dn2[x] = dn[x]
    BY <1>1
  <1> HIDE DEF d, old, dn2
  <1>7. \A j, k \in DOMAIN r :
          j < k /\ r[j].dev = r[k].dev /\ r[j].dev \notin sp => r[j].n < r[k].n
    <2> SUFFICES ASSUME NEW j \in 1 .. L - 1, NEW k \in 1 .. L - 1, j < k,
                        r[j].dev = r[k].dev, r[j].dev \notin sp
                 PROVE  r[j].n < r[k].n
      BY <1>2
    <2>1. /\ old(j) \in DOMAIN pn /\ old(k) \in DOMAIN pn /\ old(j) < old(k)
          /\ r[j] = pn[old(j)] /\ r[k] = pn[old(k)]
      BY <1>1, <1>3, <1>4
    <2> QED BY <2>1 DEF Ordered
  <1>8. \A j \in DOMAIN r : r[j].dev \notin sp =>
          r[j].n > dn[r[j].dev] /\ r[j].n <= sn[r[j].dev]
    BY <1>1, <1>2, <1>3 DEF Ordered
  <1>9. \A j \in DOMAIN r : r[j].dev \notin sp => r[j].n > dn2[r[j].dev]
    <2> SUFFICES ASSUME NEW j \in 1 .. L - 1, r[j].dev \notin sp
                 PROVE  r[j].n > dn2[r[j].dev]
      BY <1>2
    <2>1. CASE r[j].dev = d
      <3>1. old(j) \in 1 .. L /\ pn[old(j)].dev = pn[i].dev /\ old(j) # i
        BY <1>3, <2>1 DEF d
      <3>2. old(j) > i
        BY <1>1, <3>1
      <3>3. pn[i].n < pn[old(j)].n
        BY <1>1, <1>3, <3>1, <3>2 DEF Ordered
      <3>4. pn[i].n \in Nat /\ pn[old(j)].n \in Nat
        BY <1>1, <3>1
      <3> QED BY <1>3, <1>6, <2>1, <3>3, <3>4
    <2>2. CASE r[j].dev # d
      <3>1. r[j].dev \in Device \ {d}
        BY <1>1, <1>3, <2>2
      <3> QED BY <1>2, <1>6, <1>8, <3>1
    <2> QED BY <2>1, <2>2
  <1>10. ASSUME NEW x \in Device \ sp, NEW n \in dn[x] + 1 .. sn[x], x # d \/ n # pn[i].n
         PROVE  \E j \in DOMAIN r : r[j].dev = x /\ r[j].n = n
    <2>1. PICK k \in 1 .. L : pn[k].dev = x /\ pn[k].n = n
      BY <1>1 DEF Ordered
    <2>2. k # i
      BY <1>10, <2>1 DEF d
    <2>3. PICK j \in 1 .. L - 1 : old(j) = k
      BY <1>5, <2>2
    <2>4. j \in DOMAIN r /\ r[j] = pn[k]
      BY <1>2, <1>3, <2>3
    <2> QED BY <2>1, <2>4
  <1>11. d \notin sp => dn[d] < pn[i].n /\ pn[i].n <= sn[d]
    BY <1>1 DEF Ordered, d
  <1>12. d \in Device /\ pn[i].n \in Nat
    BY <1>1 DEF d
  <1>13. \A x \in Device \ sp : dn[x] <= sn[x]
    BY DEF Ordered
  <1>14. ASSUME NEW x \in Device \ sp, NEW n \in dn2[x] + 1 .. sn[x]
         PROVE  \E j \in DOMAIN r : r[j].dev = x /\ r[j].n = n
    <2>1. n \in dn[x] + 1 .. sn[x] /\ (x # d \/ n # pn[i].n)
      <3>1. dn[x] \in Nat /\ sn[x] \in Nat
        OBVIOUS
      <3>2. CASE x = d
        BY <1>6, <1>11, <1>12, <3>1, <3>2
      <3>3. CASE x # d
        BY <1>6, <3>1, <3>3
      <3> QED BY <3>2, <3>3
    <2> QED BY <1>10, <2>1
  <1>15. \A x \in Device \ sp : dn2[x] <= sn[x]
    <2> SUFFICES ASSUME NEW x \in Device \ sp PROVE dn2[x] <= sn[x]
      OBVIOUS
    <2>1. CASE x = d
      BY <1>6, <1>11, <2>1
    <2>2. CASE x # d
      BY <1>6, <1>13, <2>2
    <2> QED BY <2>1, <2>2
  <1>16. Ordered(r, sn, dn2, sp)
    BY <1>7, <1>8, <1>9, <1>14, <1>15 DEF Ordered
  <1>17. ASSUME d \in sp PROVE Ordered(r, sn, dn, sp)
    <2>1. \A x \in Device \ sp : x # d
      BY <1>17
    <2>2. \A x \in Device \ sp : \A n \in dn[x] + 1 .. sn[x] :
            \E j \in DOMAIN r : r[j].dev = x /\ r[j].n = n
      BY <1>10, <2>1
    <2> QED BY <1>7, <1>8, <1>13, <2>2 DEF Ordered
  <1> QED BY <1>16, <1>17 DEF r, d, dn2

-----------------------------------------------------------------------------
(* The requests that let devices go.                                       *)

LEMMA LetGoHolds ==
    ASSUME NEW dv \in Devices, HeldByGrab(dv), NEW u \in Devices,
           \A x \in Device :
             /\ u[x].grabbed = dv[x].grabbed
             /\ u[x].other \in {NoDevice, dv[x].other}
             /\ u[x].state = "NOT_GRABBED" <=> dv[x].state = "NOT_GRABBED"
    PROVE  HeldByGrab(u)
  <1>1. \A x \in Device : u[x].other # NoDevice => u[x].other \in Device
    BY DEF Devices, DeviceRecord
  <1> SUFFICES ASSUME NEW x \in Device
               PROVE  /\ u[x].state = "NOT_GRABBED" <=> ~u[x].grabbed
                      /\ u[x].other # NoDevice => u[x].other # x /\ u[u[x].other].grabbed
    BY DEF HeldByGrab
  <1> QED BY <1>1 DEF HeldByGrab

\* The other states a grab can be in.
Held(s) == s \in State /\ s # "NOT_GRABBED"

LEMMA ReleaseThisHolds ==
    ASSUME dev \in Devices, HeldByGrab(dev), NEW c, NEW d \in Device,
           NEW s, Held(s)
    PROVE  LET a == ReleaseThis(c, d, s)
           IN a \in Devices /\ HeldByGrab(a) /\ FrozenIsHeld(a)
  <1> DEFINE old == dev[d]
             st == IF SameClient(d, c) THEN s ELSE dev[d].state
             ot == IF ThisSynced(c, d) THEN NoDevice ELSE dev[d].other
             new == [old EXCEPT !.state = st, !.other = ot]
             u == [dev EXCEPT ![d] = new]
  <1>1. ReleaseThis(c, d, s) = Thaw(u)
    BY DEF ReleaseThis
  <1>2. old \in DeviceRecord
    BY DEF Devices
  <1>3. /\ st \in State /\ ot \in Device \cup {NoDevice} /\ ot \in {NoDevice, dev[d].other}
        /\ st = "NOT_GRABBED" <=> dev[d].state = "NOT_GRABBED"
    BY <1>2 DEF DeviceRecord, Held, SameClient, HeldByGrab
  <1> HIDE DEF old, st, ot
  <1>4. /\ new \in DeviceRecord /\ new.state = st /\ new.other = ot
        /\ new.grabbed = old.grabbed
    BY <1>2, <1>3 DEF DeviceRecord
  <1> HIDE DEF new
  <1>5. u \in Devices
    BY <1>4 DEF Devices
  <1>6. \A x \in Device :
             /\ u[x].grabbed = dev[x].grabbed
             /\ u[x].other \in {NoDevice, dev[x].other}
             /\ u[x].state = "NOT_GRABBED" <=> dev[x].state = "NOT_GRABBED"
    BY <1>3, <1>4 DEF old, Devices
  <1> HIDE DEF u
  <1>7. HeldByGrab(u)
    BY <1>5, <1>6, LetGoHolds
  <1> QED BY <1>1, <1>5, <1>7, ThawHolds

LEMMA ReleaseHolds ==
    ASSUME dev \in Devices, HeldByGrab(dev), NEW c, NEW D, NEW s, Held(s)
    PROVE  LET a == Release(c, D, s)
           IN a \in Devices /\ HeldByGrab(a) /\ FrozenIsHeld(a)
  <1> DEFINE st(x) == IF SameClient(x, c) THEN s ELSE dev[x].state
             ot(x) == IF Mine(dev, dev[x].other, c) THEN NoDevice ELSE dev[x].other
             u == [x \in Device |-> IF x \notin D THEN dev[x]
                      ELSE [dev[x] EXCEPT !.state = st(x), !.other = ot(x)]]
  <1>1. Release(c, D, s) = Thaw(u)
    BY DEF Release
  <1>2. ASSUME NEW x \in Device
        PROVE  /\ u[x] \in DeviceRecord /\ u[x].grabbed = dev[x].grabbed
               /\ u[x].other \in {NoDevice, dev[x].other}
               /\ u[x].state = "NOT_GRABBED" <=> dev[x].state = "NOT_GRABBED"
    <2> DEFINE old == dev[x]
               new == u[x]
               st1 == st(x)
               ot1 == ot(x)
    <2>1. old \in DeviceRecord
      BY DEF Devices
    <2>2. /\ st1 \in State /\ ot1 \in Device \cup {NoDevice}
          /\ ot1 \in {NoDevice, dev[x].other}
          /\ st1 = "NOT_GRABBED" <=> dev[x].state = "NOT_GRABBED"
      BY <2>1 DEF DeviceRecord, Held, SameClient, HeldByGrab
    <2>3. new = IF x \notin D THEN old ELSE [old EXCEPT !.state = st1, !.other = ot1]
      OBVIOUS
    <2> HIDE DEF old, new, st1, ot1
    <2>4. /\ new \in DeviceRecord /\ new.grabbed = old.grabbed
          /\ new.state \in {old.state, st1} /\ new.other \in {old.other, ot1}
      BY <2>1, <2>2, <2>3 DEF DeviceRecord
    <2> QED BY <2>2, <2>4 DEF old, new
  <1>3. u \in Devices
    BY <1>2 DEF Devices
  <1> HIDE DEF u
  <1>4. HeldByGrab(u)
    BY <1>2, <1>3, LetGoHolds
  <1> QED BY <1>1, <1>3, <1>4, ThawHolds

LEMMA ReplayedHolds ==
    ASSUME dev \in Devices, HeldByGrab(dev), NEW c, NEW d \in Device,
           AllowReplay(c, d)
    PROVE  dev' \in Devices /\ HeldByGrab(dev') /\ FrozenIsHeld(dev')
  <1> DEFINE old == dev[d]
             ot == IF ThisSynced(c, d) THEN NoDevice ELSE dev[d].other
             new == [old EXCEPT !.other = ot]
             u == [dev EXCEPT ![d] = new]
  <1>1. dev' = DeactivateGrab(u, d)
    BY DEF AllowReplay
  <1>2. old \in DeviceRecord
    BY DEF Devices
  <1>3. ot \in Device \cup {NoDevice} /\ ot \in {NoDevice, dev[d].other}
    BY <1>2 DEF DeviceRecord
  <1> HIDE DEF old, ot
  <1>4. /\ new \in DeviceRecord /\ new.state = old.state /\ new.other = ot
        /\ new.grabbed = old.grabbed
    BY <1>2, <1>3 DEF DeviceRecord
  <1> HIDE DEF new
  <1>5. u \in Devices
    BY <1>4 DEF Devices
  <1>6. \A x \in Device :
             /\ u[x].grabbed = dev[x].grabbed
             /\ u[x].other \in {NoDevice, dev[x].other}
             /\ u[x].state = "NOT_GRABBED" <=> dev[x].state = "NOT_GRABBED"
    BY <1>3, <1>4 DEF old, Devices
  <1> HIDE DEF u
  <1>7. HeldByGrab(u)
    BY <1>5, <1>6, LetGoHolds
  <1> QED BY <1>1, <1>5, <1>7, DeactivateHolds

\* The end of CheckPassiveGrabsOnWindow leaves what is frozen so.
LEMMA ArmHolds ==
    ASSUME dev \in Devices, HeldByGrab(dev), FrozenIsHeld(dev),
           stack \in Seq(Frame), Arm
    PROVE  /\ dev' \in Devices /\ HeldByGrab(dev') /\ FrozenIsHeld(dev')
           /\ \A x \in Device : dev'[x].frozen = dev[x].frozen
  <1> DEFINE e == Head(stack).ev
             d == e.dev
             old == dev[d]
             keeps == dev[d].state = "FROZEN_NO_EVENT"
             notes == Head(stack).direct /\ d # Pointer
             mid == IF keeps THEN [old EXCEPT !.state = "FROZEN_WITH_EVENT", !.event = e]
                             ELSE old
             dv == [dev EXCEPT ![d] = mid]
             new == IF notes THEN [mid EXCEPT !.activating = e.detail] ELSE mid
  <1>1. Head(stack) \in Frame /\ Head(stack).op = "arm"
    <2>1. stack # <<>> /\ Head(stack).op = "arm"
      BY DEF Arm
    <2> QED BY <2>1
  <1>2. e \in Event
    <2>1. Head(stack) \in [op : {"arm"}, ev : Event, direct : BOOLEAN]
      BY <1>1 DEF Frame
    <2> QED BY <2>1
  <1>3. d \in Device /\ e.detail \in Detail
    BY <1>2 DEF Event
  <1>4. old \in DeviceRecord
    BY <1>3 DEF Devices
  <1>5. dev' = IF notes THEN [dv EXCEPT ![d].activating = e.detail] ELSE dv
    <2>1. dv = IF keeps
               THEN [dev EXCEPT ![d].state = "FROZEN_WITH_EVENT", ![d].event = e]
               ELSE dev
      BY <1>3 DEF Devices
    <2> QED BY <2>1 DEF Arm
  <1>6. dv \in [Device -> {mid} \cup DeviceRecord] /\ dv[d] = mid
    BY <1>3 DEF Devices
  <1>7. dev' = [dev EXCEPT ![d] = new]
    BY <1>3, <1>5, <1>6 DEF Devices
  <1> HIDE DEF old, keeps, notes, e, d
  <1>8. /\ mid \in DeviceRecord /\ mid.frozen = old.frozen /\ mid.other = old.other
        /\ mid.grabbed = old.grabbed
        /\ mid.state = IF keeps THEN "FROZEN_WITH_EVENT" ELSE old.state
    BY <1>2, <1>4 DEF DeviceRecord, State
  <1> HIDE DEF mid, dv
  <1>9. /\ new \in DeviceRecord /\ new.frozen = mid.frozen /\ new.other = mid.other
        /\ new.grabbed = mid.grabbed /\ new.state = mid.state
    BY <1>3, <1>8 DEF DeviceRecord
  <1> HIDE DEF new
  <1>10. dev' \in Devices
    BY <1>7, <1>9, <1>8 DEF Devices
  <1>11. \A x \in Device :
           /\ dev'[x].frozen = dev[x].frozen /\ dev'[x].other = dev[x].other
           /\ dev'[x].grabbed = dev[x].grabbed
           /\ dev'[x].state # dev[x].state =>
                dev[x].state = "FROZEN_NO_EVENT" /\ dev'[x].state = "FROZEN_WITH_EVENT"
    BY <1>3, <1>7, <1>8, <1>9 DEF old, keeps, Devices
  <1>12. HeldByGrab(dev')
    BY <1>10, <1>11, LetGoHolds
  <1>13. FrozenIsHeld(dev')
    BY <1>11 DEF FrozenIsHeld, Frozen
  <1> QED BY <1>10, <1>11, <1>12, <1>13

-----------------------------------------------------------------------------
(* The inductive invariant.                                                *)

IInv ==
    /\ TypeOK
    /\ HeldByGrab(dev) /\ FrozenIsHeld(dev)
    /\ stack \in Seq(Call(split))
    /\ Ordered(pending, sent, done, split)
    /\ Drained(pending, dev, stack)

LEMMA Initially == Init => IInv
  <1> SUFFICES ASSUME Init PROVE IInv
    OBVIOUS
  <1> DEFINE g == [client |-> NoClient, own |-> "Async", others |-> "Async", win |-> 1]
             r == [grabbed |-> FALSE, grab |-> g,
                   auto |-> FALSE, activating |-> 0, down |-> {},
                   frozen |-> FALSE, state |-> "NOT_GRABBED", other |-> NoDevice,
                   event |-> NoEvent]
  <1>1. dev = [d \in Device |-> r]
    BY DEF Init
  <1>2. 1 \in Window
    BY WindowsAssumption DEF Window
  <1>3. g \in Grab
    BY <1>2 DEF Grab, Mode
  <1> HIDE DEF g
  <1>4. /\ r \in DeviceRecord /\ r.state = "NOT_GRABBED" /\ r.other = NoDevice
        /\ ~r.grabbed /\ ~r.frozen
    BY <1>3 DEF DeviceRecord, State
  <1> HIDE DEF r
  <1>5. TypeOK
    <2>1. dev \in [Device -> DeviceRecord]
      BY <1>1, <1>4
    <2>2. /\ pending \in Seq(Event) /\ stack \in Seq(Frame)
          /\ pendtail \in Nat /\ pendtail <= Len(pending) /\ Len(pending) <= pendtail + 1
      BY DEF Init
    <2>3. /\ passive \subseteq PassiveGrabs
          /\ exists \subseteq Window /\ mapped \subseteq Window /\ alive \subseteq Client
          /\ split \subseteq Device
      BY DEF Init
    <2>4. /\ held \in [Device -> SUBSET Detail]
          /\ sent \in [Device -> Nat] /\ done \in [Device -> Nat]
      BY DEF Init
    <2> QED BY <2>1, <2>2, <2>3, <2>4 DEF TypeOK
  <1>6. HeldByGrab(dev) /\ FrozenIsHeld(dev)
    BY <1>1, <1>4 DEF HeldByGrab, FrozenIsHeld, Frozen
  <1>7. stack \in Seq(Call(split))
    BY DEF Init
  <1>8. Ordered(pending, sent, done, split) /\ Drained(pending, dev, stack)
    BY DEF Init, Ordered, Drained
  <1> QED BY <1>5, <1>6, <1>7, <1>8 DEF IInv

\* Nothing but the devices, the calls and the world changes.
LEMMA Kept ==
    ASSUME IInv, NEW rest, PlaysIn(rest) <=> Playing, Moved(rest, split),
           UNCHANGED <<queueVars, inputVars>>,
           passive' \subseteq PassiveGrabs, exists' \subseteq Window,
           mapped' \subseteq Window, alive' \subseteq Client
    PROVE  IInv'
  <1>1. UNCHANGED <<pending, pendtail, held, sent, done, split>>
    BY DEF queueVars, inputVars
  <1>2. /\ dev' \in Devices /\ HeldByGrab(dev') /\ FrozenIsHeld(dev')
        /\ stack' \in Seq(Call(split'))
    BY <1>1 DEF Moved
  <1>3. TypeOK'
    <2>1. stack' \in Seq(Frame)
      <3>1. Call(split) \subseteq Frame
        BY DEF Call
      <3> QED BY <1>1, <1>2, <3>1
    <2> QED BY <1>1, <1>2, <2>1 DEF IInv, TypeOK, Devices
  <1>4. Drained(pending, dev', stack')
    <2>1. CASE PlaysIn(stack')
      BY <2>1 DEF Drained
    <2>2. CASE ~PlaysIn(stack')
      <3>1. ~PlaysIn(stack)
        BY <2>2 DEF Moved, Playing, PlaysIn
      <3>2. pending = <<>> \/ \A x \in Device : dev[x].frozen => dev'[x].frozen
        BY <2>2 DEF Moved
      <3>3. \A i \in DOMAIN pending : dev[pending[i].dev].frozen
        BY <3>1 DEF IInv, Drained
      <3>4. \A i \in DOMAIN pending : pending[i] \in Event
        BY DEF IInv, TypeOK
      <3>5. \A i \in DOMAIN pending : pending[i].dev \in Device
        BY <3>4, EventFields
      <3>6. pending = <<>> => DOMAIN pending = {}
        OBVIOUS
      <3> QED BY <3>2, <3>3, <3>5, <3>6 DEF Drained
    <2> QED BY <2>1, <2>2
  <1>5. Ordered(pending, sent, done, split)
    BY DEF IInv
  <1> QED BY <1>1, <1>2, <1>3, <1>4, <1>5 DEF IInv

\* The world as it is.
LEMMA KeptHere ==
    ASSUME IInv, NEW rest, PlaysIn(rest) <=> Playing, Moved(rest, split),
           UNCHANGED <<queueVars, world, inputVars>>
    PROVE  IInv'
  <1>1. /\ UNCHANGED <<queueVars, inputVars>>
        /\ passive' \subseteq PassiveGrabs /\ exists' \subseteq Window
        /\ mapped' \subseteq Window /\ alive' \subseteq Client
    BY DEF IInv, TypeOK, queueVars, world, inputVars
  <1> QED BY <1>1, Kept

\* What the invariant says of the call under way.
LEMMA Under ==
    ASSUME IInv, stack # <<>>
    PROVE  /\ Head(stack) \in Call(split) /\ Tail(stack) \in Seq(Call(split))
           /\ Head(stack) \in Frame
           /\ Head(stack).op # "play" => (PlaysIn(Tail(stack)) <=> Playing)
           /\ PlaysIn(stack) <=> Playing
  <1>1. stack \in Seq(Call(split))
    BY DEF IInv
  <1>2. Head(stack) \in Call(split) /\ Tail(stack) \in Seq(Call(split))
    BY <1>1
  <1>3. PlaysIn(stack) <=> Head(stack).op = "play" \/ PlaysIn(Tail(stack))
    BY <1>1, PlaysInTail
  <1>4. PlaysIn(stack) <=> Playing
    BY DEF PlaysIn, Playing
  <1> QED BY <1>2, <1>3, <1>4 DEF Call

\* Between two requests.
LEMMA Idle ==
    ASSUME IInv, stack = <<>>
    PROVE  /\ <<>> \in Seq(Call(split)) /\ (PlaysIn(<<>>) <=> Playing)
           /\ ~Playing
           /\ \A i \in DOMAIN pending : dev[pending[i].dev].frozen
  BY DEF PlaysIn, Playing, IInv, Drained

\* A step that changes no device.
LEMMA MovedStill ==
    ASSUME IInv, dev' = dev, NEW rest \in Seq(Call(split)),
           NEW more \in Seq(Call(split)), stack' = more \o rest
    PROVE  Moved(rest, split)
  <1>1. PlaysIn(rest) => PlaysIn(stack')
    BY PlaysInConcat
  <1>2. stack' \in Seq(Call(split))
    OBVIOUS
  <1> QED BY <1>1, <1>2 DEF Moved, IInv, TypeOK, Devices

-----------------------------------------------------------------------------
(* The steps.                                                              *)

\* EnqueueEvent adds a member at the end, or none.
LEMMA EnqueueHolds ==
    ASSUME TypeOK, NEW e \in Event, Enqueue(e)
    PROVE  /\ pendtail' \in Nat /\ pendtail' <= Len(pending') /\ Len(pending') <= pendtail' + 1
           /\ IF Compresses(e) THEN pending' = pending ELSE pending' = Append(pending, e)
  <1>1. /\ pending \in Seq(Event) /\ pendtail \in Nat
        /\ pendtail <= Len(pending) /\ Len(pending) <= pendtail + 1 /\ Len(pending) \in Nat
    BY DEF TypeOK
  <1>2. CASE Compresses(e)
    BY <1>1, <1>2 DEF Enqueue, queueVars
  <1>3. CASE ~Compresses(e)
    <2>1. /\ pendtail' = IF pendtail < Len(pending) THEN pendtail + 1 ELSE pendtail
          /\ pending' = Append(SubSeq(pending, 1, pendtail'), e)
      BY <1>3 DEF Enqueue
    <2>2. pendtail' = Len(pending)
      BY <1>1, <2>1
    <2>3. SubSeq(pending, 1, Len(pending)) = pending
      BY <1>1
    <2>4. pending' = Append(pending, e)
      BY <2>1, <2>2, <2>3
    <2> QED BY <1>1, <1>3, <2>2, <2>4
  <1> QED BY <1>2, <1>3

LEMMA InputStep ==
    ASSUME IInv, NEW d \in Device, NEW kind \in {"press", "release", "motion"},
           NEW b \in Detail, Input(d, kind, b)
    PROVE  IInv'
  <1> DEFINE e == [dev |-> d, kind |-> kind, detail |-> b, n |-> sent[d] + 1]
  <1>1. /\ stack = <<>>
        /\ held' \in [Device -> SUBSET Detail]
        /\ sent' = IF dev[d].frozen /\ Compresses(e) THEN sent ELSE [sent EXCEPT ![d] = @ + 1]
        /\ ProcessInputProc(e, <<>>) /\ UNCHANGED world
    BY DEF Input, IInv, TypeOK
  <1>2. e \in Event /\ e.dev = d /\ e.n = sent[d] + 1
    BY DEF Event, IInv, TypeOK
  <1>3. /\ dev \in Devices /\ HeldByGrab(dev) /\ FrozenIsHeld(dev)
        /\ pending \in Seq(Event) /\ sent \in [Device -> Nat] /\ done \in [Device -> Nat]
        /\ split \subseteq Device /\ Ordered(pending, sent, done, split)
        /\ pendtail \in Nat /\ pendtail <= Len(pending) /\ Len(pending) <= pendtail + 1
        /\ passive \subseteq PassiveGrabs
    BY DEF IInv, TypeOK, Devices
  <1>4. /\ <<>> \in Seq(Call(split)) /\ (PlaysIn(<<>>) <=> Playing) /\ ~Playing
        /\ \A i \in DOMAIN pending : dev[pending[i].dev].frozen
    BY <1>1, Idle
  <1>5. /\ passive' \subseteq PassiveGrabs /\ exists' \subseteq Window
        /\ mapped' \subseteq Window /\ alive' \subseteq Client
    BY <1>1 DEF world, IInv, TypeOK
  <1>6. sent' \in [Device -> Nat]
    BY <1>1, <1>3
  <1> HIDE DEF e
  <1>7. CASE dev[d].frozen
    <2>1. Enqueue(e) /\ stack' = <<>> /\ UNCHANGED <<dev, done, split>>
      BY <1>1, <1>2, <1>7 DEF ProcessInputProc
    <2>2. /\ pendtail' \in Nat /\ pendtail' <= Len(pending') /\ Len(pending') <= pendtail' + 1
          /\ IF Compresses(e) THEN pending' = pending ELSE pending' = Append(pending, e)
      BY <1>2, <2>1, EnqueueHolds DEF IInv
    <2>3. pending' \in Seq(Event)
      <3>1. CASE pending' = pending
        BY <1>3, <3>1
      <3>2. CASE pending' = Append(pending, e)
        BY <1>2, <1>3, <3>2
      <3> QED BY <2>2, <3>1, <3>2
    <2>4. Ordered(pending', sent', done, split)
      <3>1. CASE Compresses(e)
        BY <1>1, <1>3, <1>7, <2>2, <3>1
      <3>2. CASE ~Compresses(e)
        <4>1. sent' = [sent EXCEPT ![d] = @ + 1]
          BY <1>1, <3>2
        <4>2. /\ \A x \in Device : x # e.dev => sent'[x] = sent[x]
              /\ sent'[e.dev] = sent[e.dev] + 1 /\ e.n = sent[e.dev] + 1
          BY <1>2, <1>3, <4>1
        <4>3. Ordered(Append(pending, e), sent', done, split)
          BY <1>2, <1>3, <1>6, <4>2, OrderedAppend
        <4> QED BY <2>2, <3>2, <4>3
      <3> QED BY <3>1, <3>2
    <2>5. \A i \in DOMAIN pending' : dev[pending'[i].dev].frozen
      <3>1. CASE pending' = pending
        BY <1>4, <3>1
      <3>2. CASE pending' = Append(pending, e)
        BY <1>2, <1>3, <1>4, <1>7, <3>2
      <3> QED BY <2>2, <3>1, <3>2
    <2>6. TypeOK'
      BY <1>1, <1>3, <1>5, <1>6, <2>1, <2>2, <2>3 DEF TypeOK, Devices
    <2>7. stack' \in Seq(Call(split'))
      BY <1>4, <2>1
    <2> QED BY <1>3, <2>1, <2>4, <2>5, <2>6, <2>7 DEF IInv, Drained
  <1>8. CASE ~dev[d].frozen
    <2>1. Process(e, <<>>) /\ UNCHANGED <<pending, pendtail>>
      BY <1>1, <1>2, <1>8 DEF ProcessInputProc, queueVars
    <2>2. /\ Moved(<<>>, split')
          /\ \/ split' = split \cup {d} /\ done' = done
             \/ split' = split /\ done' = [done EXCEPT ![d] = e.n]
      <3>1. /\ Moved(<<>>, split')
            /\ \/ split' = split \cup {e.dev} /\ done' = done
               \/ split' = split /\ done' = [done EXCEPT ![e.dev] = e.n]
        BY <1>2, <1>3, <1>4, <2>1, ProcessMoves, Zenon
      <3> QED BY <1>2, <3>1
    <2>3. /\ split' \subseteq Device /\ done' \in [Device -> Nat] /\ split \subseteq split'
          /\ sent' = [sent EXCEPT ![d] = @ + 1]
      BY <1>1, <1>2, <1>3, <1>8, <2>2
    <2>4. \A i \in DOMAIN pending : pending[i] \in Event
      BY <1>3
    <2>5. \A i \in DOMAIN pending : pending[i].dev \in Device /\ pending[i].dev # d
      BY <1>4, <1>8, <2>4, EventFields
    <2>6. Ordered(pending, sent', done', split')
      <3>1. CASE split' = split \cup {d} /\ done' = done
        <4>1. Ordered(pending, sent, done, split')
          BY <1>3, <2>3, OrderedSplit
        <4>2. \A x \in Device \ split' : sent'[x] = sent[x] /\ done'[x] = done[x]
          BY <1>3, <2>3, <3>1
        <4> QED BY <2>5, <4>1, <4>2, OrderedSame
      <3>2. CASE split' = split /\ done' = [done EXCEPT ![d] = e.n]
        <4>1. \A x \in Device \ {d} : sent'[x] = sent[x] /\ done'[x] = done[x]
          BY <1>3, <2>3, <3>2
        <4>2. done'[d] = sent'[d]
          BY <1>2, <1>3, <2>3, <3>2
        <4>3. Ordered(pending, sent', done', split)
          BY <1>3, <1>6, <2>3, <2>5, <4>1, <4>2, OrderedLive
        <4> QED BY <3>2, <4>3
      <3> QED BY <2>2, <3>1, <3>2
    <2>7. Drained(pending, dev', stack')
      BY <1>4, <2>2, <2>5 DEF Moved, Drained
    <2>8. /\ dev' \in Devices /\ HeldByGrab(dev') /\ FrozenIsHeld(dev')
          /\ stack' \in Seq(Call(split'))
      BY <2>2 DEF Moved
    <2>9. stack' \in Seq(Frame)
      <3>1. Call(split') \subseteq Frame
        BY DEF Call
      <3> QED BY <2>8, <3>1
    <2>10. TypeOK'
      BY <1>1, <1>3, <1>5, <1>6, <2>1, <2>3, <2>8, <2>9 DEF TypeOK, Devices
    <2> QED BY <2>1, <2>6, <2>7, <2>8, <2>10 DEF IInv
  <1> QED BY <1>7, <1>8

LEMMA AgainStep ==
    ASSUME IInv, Again
    PROVE  IInv'
  <1> DEFINE e == Head(stack).ev
             rest == Tail(stack)
             d == e.dev
  <1>1. /\ stack # <<>> /\ Head(stack).op = "again" /\ ProcessInputProc(e, rest)
        /\ UNCHANGED <<world, held, sent>>
    BY DEF Again
  <1>2. /\ Head(stack) \in Call(split) /\ rest \in Seq(Call(split))
        /\ Head(stack) \in Frame /\ (PlaysIn(rest) <=> Playing)
    BY <1>1, Under
  <1>3. e \in Event /\ d \in split
    <2> DEFINE h == Head(stack)
    <2>1. h \in Frame /\ h.op = "again" /\ (h.op = "again" => h.ev.dev \in split)
      BY <1>1, <1>2 DEF Call
    <2> HIDE DEF h
    <2>2. h \in [op : {"again"}, ev : Event]
      BY <2>1 DEF Frame
    <2>3. h.ev \in Event /\ h.ev.dev \in split
      BY <2>1, <2>2
    <2> QED BY <2>3 DEF h
  <1>4. /\ dev \in Devices /\ HeldByGrab(dev) /\ FrozenIsHeld(dev)
        /\ pending \in Seq(Event) /\ sent \in [Device -> Nat] /\ done \in [Device -> Nat]
        /\ split \subseteq Device /\ Ordered(pending, sent, done, split)
        /\ Drained(pending, dev, stack)
        /\ pendtail \in Nat /\ pendtail <= Len(pending) /\ Len(pending) <= pendtail + 1
        /\ passive \subseteq PassiveGrabs
    BY DEF IInv, TypeOK, Devices
  <1>5. /\ passive' \subseteq PassiveGrabs /\ exists' \subseteq Window
        /\ mapped' \subseteq Window /\ alive' \subseteq Client
        /\ held' \in [Device -> SUBSET Detail] /\ sent' = sent
    BY <1>1 DEF world, IInv, TypeOK
  <1>6. PlaysIn(stack) <=> Playing
    BY DEF PlaysIn, Playing
  <1>7. Call(split) \subseteq Frame
    BY DEF Call
  <1> HIDE DEF e, rest
  <1>8. CASE dev[d].frozen
    <2>1. Enqueue(e) /\ stack' = rest /\ UNCHANGED <<dev, done, split>>
      BY <1>1, <1>8 DEF ProcessInputProc
    <2>2. /\ pendtail' \in Nat /\ pendtail' <= Len(pending') /\ Len(pending') <= pendtail' + 1
          /\ IF Compresses(e) THEN pending' = pending ELSE pending' = Append(pending, e)
      BY <1>3, <2>1, EnqueueHolds DEF IInv
    <2>3. pending' = pending \/ pending' = Append(pending, e)
      BY <2>2
    <2>4. pending' \in Seq(Event)
      <3>1. CASE pending' = Append(pending, e)
        BY <1>3, <1>4, <3>1
      <3> QED BY <1>4, <2>3, <3>1
    <2>5. Ordered(pending', sent, done, split)
      <3>1. CASE pending' = Append(pending, e)
        <4>1. \A x \in Device : x # e.dev => sent[x] = sent[x]
          OBVIOUS
        <4>2. Ordered(Append(pending, e), sent, done, split)
          BY <1>3, <1>4, <4>1, OrderedAppend
        <4> QED BY <3>1, <4>2
      <3> QED BY <1>4, <2>3, <3>1
    <2>6. Drained(pending', dev', stack')
      <3>1. CASE PlaysIn(stack)
        BY <1>2, <1>6, <2>1, <3>1 DEF Drained
      <3>2. CASE ~PlaysIn(stack)
        <4>1. \A i \in DOMAIN pending : dev[pending[i].dev].frozen
          BY <1>4, <3>2 DEF Drained
        <4>2. CASE pending' = pending
          BY <2>1, <4>1, <4>2 DEF Drained
        <4>3. CASE pending' = Append(pending, e)
          <5>1. \A i \in DOMAIN pending' : dev[pending'[i].dev].frozen
            BY <1>3, <1>4, <1>8, <4>1, <4>3
          <5> QED BY <2>1, <5>1 DEF Drained
        <4> QED BY <2>3, <4>2, <4>3
      <3> QED BY <3>1, <3>2
    <2>7. stack' \in Seq(Call(split')) /\ stack' \in Seq(Frame)
      BY <1>2, <1>7, <2>1
    <2>8. TypeOK'
      BY <1>4, <1>5, <2>1, <2>2, <2>4, <2>7 DEF TypeOK, Devices
    <2> QED BY <1>4, <1>5, <2>1, <2>5, <2>6, <2>7, <2>8 DEF IInv
  <1>9. CASE ~dev[d].frozen
    <2>1. Process(e, rest) /\ UNCHANGED <<pending, pendtail>>
      BY <1>1, <1>9 DEF ProcessInputProc, queueVars
    <2>2. /\ Moved(rest, split')
          /\ \/ split' = split \cup {e.dev} /\ done' = done
             \/ split' = split /\ done' = [done EXCEPT ![e.dev] = e.n]
      BY <1>2, <1>3, <1>4, <2>1, ProcessMoves
    <2>3. split' = split
      BY <1>3, <2>2
    <2>4. e.n \in Nat /\ d \in Device
      BY <1>3, EventFields
    <2>5. done' \in [Device -> Nat] /\ \A x \in Device \ split : done'[x] = done[x]
      BY <1>3, <1>4, <2>2, <2>4
    <2>6. \A i \in DOMAIN pending : pending[i] \in Event
      BY <1>4
    <2>7. \A i \in DOMAIN pending : pending[i].dev \in Device
      BY <2>6, EventFields
    <2>8. \A x \in Device \ split : sent[x] = sent[x] /\ done'[x] = done[x]
      BY <2>5
    <2>9. Ordered(pending, sent, done', split)
      BY <1>4, <2>7, <2>8, OrderedSame
    <2>10. Drained(pending, dev', stack')
      <3>1. CASE PlaysIn(stack)
        BY <1>2, <1>6, <2>2, <3>1 DEF Moved, Drained
      <3>2. CASE ~PlaysIn(stack)
        <4>1. \A i \in DOMAIN pending : dev[pending[i].dev].frozen
          BY <1>4, <3>2 DEF Drained
        <4>2. pending = <<>> => DOMAIN pending = {}
          OBVIOUS
        <4> QED BY <2>2, <2>7, <4>1, <4>2 DEF Moved, Drained
      <3> QED BY <3>1, <3>2
    <2>11. /\ dev' \in Devices /\ HeldByGrab(dev') /\ FrozenIsHeld(dev')
           /\ stack' \in Seq(Call(split')) /\ stack' \in Seq(Frame)
      BY <1>7, <2>2, <2>3 DEF Moved
    <2>12. TypeOK'
      BY <1>4, <1>5, <2>1, <2>3, <2>5, <2>11 DEF TypeOK, Devices
    <2> QED BY <1>5, <2>1, <2>3, <2>9, <2>10, <2>11, <2>12 DEF IInv
  <1> QED BY <1>8, <1>9

LEMMA PlayStep ==
    ASSUME IInv, PlayReleasedEvents
    PROVE  IInv'
  <1>1. /\ stack # <<>> /\ Head(stack).op = "play" /\ UNCHANGED <<world, held, sent>>
    BY DEF PlayReleasedEvents
  <1>2. PICK i \in DOMAIN pending :
          /\ IsNext(i)
          /\ pending' = SubSeq(pending, 1, i - 1) \o SubSeq(pending, i + 1, Len(pending))
          /\ pendtail' = IF pendtail >= i THEN pendtail - 1 ELSE pendtail
          /\ Process(pending[i], stack)
    BY DEF PlayReleasedEvents
  <1>3. /\ dev \in Devices /\ HeldByGrab(dev) /\ FrozenIsHeld(dev)
        /\ pending \in Seq(Event) /\ sent \in [Device -> Nat] /\ done \in [Device -> Nat]
        /\ split \subseteq Device /\ Ordered(pending, sent, done, split)
        /\ pendtail \in Nat /\ pendtail <= Len(pending) /\ Len(pending) <= pendtail + 1
        /\ passive \subseteq PassiveGrabs /\ stack \in Seq(Call(split))
    BY DEF IInv, TypeOK, Devices
  <1>4. /\ passive' \subseteq PassiveGrabs /\ exists' \subseteq Window
        /\ mapped' \subseteq Window /\ alive' \subseteq Client
        /\ held' \in [Device -> SUBSET Detail] /\ sent' = sent
    BY <1>1 DEF world, IInv, TypeOK
  <1>5. PlaysIn(stack) /\ (PlaysIn(stack) <=> Playing)
    BY <1>1, <1>3, PlaysInTail DEF PlaysIn, Playing
  <1> DEFINE e == pending[i]
             d == e.dev
  <1>6. e \in Event
    BY <1>3
  <1>7. d \in Device /\ e.n \in Nat
    BY <1>6, EventFields
  <1>8. /\ Moved(stack, split')
        /\ \/ split' = split \cup {d} /\ done' = done
           \/ split' = split /\ done' = [done EXCEPT ![d] = e.n]
    <2>1. Process(e, stack)
      BY <1>2
    <2> HIDE DEF e
    <2> QED BY <1>3, <1>5, <1>6, <2>1, ProcessMoves
  <1>9. pending' = Without(pending, i)
    BY <1>2 DEF Without
  <1>10. pending' \in Seq(Event) /\ Len(pending') = Len(pending) - 1
    BY <1>3, <1>9, WithoutHolds
  <1>11. pendtail' \in Nat /\ pendtail' <= Len(pending') /\ Len(pending') <= pendtail' + 1
    <2>1. i \in 1 .. Len(pending) /\ Len(pending) \in Nat
      BY <1>3
    <2> QED BY <1>2, <1>3, <1>10, <2>1
  <1>12. \A j \in DOMAIN pending : j < i => pending[j].dev # pending[i].dev
    BY <1>2 DEF IsNext
  <1>13. Ordered(pending', sent, done', split')
    <2>1. CASE split' = split \cup {d} /\ done' = done
      <3>1. Ordered(pending, sent, done, split')
        BY <1>3, <2>1, OrderedSplit
      <3>2. d \in split'
        BY <2>1
      <3>3. Ordered(Without(pending, i), sent, done, split')
        BY <1>3, <1>12, <3>1, <3>2, OrderedPlay
      <3> QED BY <1>9, <2>1, <3>3
    <2>2. CASE split' = split /\ done' = [done EXCEPT ![d] = e.n]
      <3>1. Ordered(Without(pending, i), sent, [done EXCEPT ![d] = e.n], split)
        BY <1>3, <1>12, OrderedPlay
      <3> QED BY <1>9, <2>2, <3>1
    <2> QED BY <1>8, <2>1, <2>2
  <1>14. /\ dev' \in Devices /\ HeldByGrab(dev') /\ FrozenIsHeld(dev')
         /\ stack' \in Seq(Call(split')) /\ PlaysIn(stack')
    BY <1>5, <1>8 DEF Moved
  <1>15. stack' \in Seq(Frame)
    <2>1. Call(split') \subseteq Frame
      BY DEF Call
    <2> QED BY <1>14, <2>1
  <1>16. split' \subseteq Device /\ done' \in [Device -> Nat]
    <2> HIDE DEF d, e
    <2> QED BY <1>3, <1>7, <1>8
  <1>17. TypeOK'
    BY <1>4, <1>3, <1>10, <1>11, <1>14, <1>15, <1>16 DEF TypeOK, Devices
  <1> QED BY <1>4, <1>13, <1>14, <1>17 DEF IInv, Drained

LEMMA PlayDoneStep ==
    ASSUME IInv, PlayDone
    PROVE  IInv'
  <1>1. /\ stack # <<>> /\ stack' = Tail(stack)
        /\ \A i \in DOMAIN pending : dev[pending[i].dev].frozen
        /\ UNCHANGED <<dev, pending, pendtail, passive, exists, mapped, alive,
                       held, sent, done, split>>
    BY DEF PlayDone, queueVars, world, inputVars
  <1>2. stack' \in Seq(Call(split)) /\ stack' \in Seq(Frame)
    BY <1>1, Under DEF Call
  <1>3. TypeOK'
    BY <1>1, <1>2 DEF IInv, TypeOK
  <1> QED BY <1>1, <1>2, <1>3 DEF IInv, Drained

\* A step that grabs, ungrabs or thaws, and then plays the queue.
LEMMA GrabStep ==
    ASSUME IInv, UNCHANGED <<queueVars, world, inputVars>>,
           dev' \in Devices, HeldByGrab(dev'), FrozenIsHeld(dev'),
           NEW rest \in Seq(Call(split)), PlaysIn(rest) <=> Playing,
           stack' = Plays \o rest
    PROVE  IInv'
  <1>1. <<>> \in Seq(Call(split)) /\ <<>> \o rest = rest
    OBVIOUS
  <1>2. Moved(rest, split)
    BY <1>1, MovedByPlays
  <1> QED BY <1>2, KeptHere

LEMMA GrabRequestStep ==
    ASSUME IInv, UNCHANGED <<queueVars, world, inputVars>>,
           dev' \in Devices, HeldByGrab(dev'), FrozenIsHeld(dev'),
           stack = <<>>, stack' = Plays
    PROVE  IInv'
  <1>1. <<>> \in Seq(Call(split)) /\ (PlaysIn(<<>>) <=> Playing)
    BY Idle
  <1>2. Plays \in Seq(Call(split))
    BY PlaysHolds
  <1>3. stack' = Plays \o <<>>
    BY <1>2
  <1> QED BY <1>1, <1>3, GrabStep

\* A step that changes no device and puts calls on those under way.
LEMMA CallStep ==
    ASSUME IInv, UNCHANGED <<queueVars, inputVars>>, dev' = dev,
           passive' \subseteq PassiveGrabs, exists' \subseteq Window,
           mapped' \subseteq Window, alive' \subseteq Client,
           NEW rest \in Seq(Call(split)), PlaysIn(rest) <=> Playing,
           NEW more \in Seq(Call(split)), stack' = more \o rest
    PROVE  IInv'
  <1>1. Moved(rest, split)
    BY MovedStill
  <1> QED BY <1>1, Kept

LEMMA ReturnStep ==
    ASSUME IInv, UNCHANGED <<queueVars, inputVars>>, dev' = dev,
           passive' \subseteq PassiveGrabs, exists' \subseteq Window,
           mapped' \subseteq Window, alive' \subseteq Client,
           stack # <<>>, Head(stack).op # "play", stack' = Tail(stack)
    PROVE  IInv'
  <1>1. Tail(stack) \in Seq(Call(split)) /\ (PlaysIn(Tail(stack)) <=> Playing)
    BY Under
  <1>2. <<>> \in Seq(Call(split)) /\ <<>> \o Tail(stack) = Tail(stack)
    BY <1>1
  <1> QED BY <1>1, <1>2, CallStep

LEMMA WorldParts ==
    ASSUME IInv
    PROVE  /\ passive \subseteq PassiveGrabs /\ exists \subseteq Window
           /\ mapped \subseteq Window /\ alive \subseteq Client
           /\ dev \in Devices /\ HeldByGrab(dev) /\ FrozenIsHeld(dev)
           /\ stack \in Seq(Frame)
  BY DEF IInv, TypeOK, Devices

LEMMA KillsHold ==
    ASSUME NEW w \in Window
    PROVE  /\ Kills(w) \in Seq(Call(split))
           /\ UnmapCalls(w) \in Seq(Call(split)) /\ DeleteCalls(w) \in Seq(Call(split))
  <1>1. /\ [op |-> "kill", dev |-> Pointer, win |-> w] \in Call(split)
        /\ [op |-> "kill", dev |-> Keyboard, win |-> w] \in Call(split)
    BY DevicesAssumption DEF Call, Frame
  <1>2. /\ [op |-> "unmap", win |-> w] \in Call(split)
        /\ [op |-> "unlist", win |-> w] \in Call(split)
    BY DEF Call, Frame
  <1>3. Kills(w) \in Seq(Call(split))
    BY <1>1 DEF Kills
  <1>4. UnmapCalls(w) \in Seq(Call(split))
    BY <1>2, <1>3 DEF UnmapCalls
  <1> QED BY <1>2, <1>3, <1>4 DEF DeleteCalls

\* What is under way goes on.
LEMMA ContinueStep ==
    ASSUME IInv, Continue
    PROVE  IInv'
  <1>0. /\ passive \subseteq PassiveGrabs /\ exists \subseteq Window
        /\ mapped \subseteq Window /\ alive \subseteq Client
        /\ dev \in Devices /\ HeldByGrab(dev) /\ FrozenIsHeld(dev)
        /\ stack \in Seq(Frame)
    BY WorldParts
  <1>1. CASE Again
    BY <1>1, AgainStep
  <1>2. CASE Arm
    <2>1. /\ stack # <<>> /\ Head(stack).op = "arm" /\ stack' = Tail(stack)
          /\ UNCHANGED <<queueVars, world, inputVars>>
      BY <1>2 DEF Arm
    <2>2. /\ dev' \in Devices /\ HeldByGrab(dev') /\ FrozenIsHeld(dev')
          /\ \A x \in Device : dev'[x].frozen = dev[x].frozen
      BY <1>0, <1>2, ArmHolds
    <2>3. Tail(stack) \in Seq(Call(split)) /\ (PlaysIn(Tail(stack)) <=> Playing)
      BY <2>1, Under
    <2>4. Moved(Tail(stack), split)
      BY <2>1, <2>2, <2>3 DEF Moved
    <2> QED BY <2>1, <2>3, <2>4, KeptHere
  <1>3. CASE PlayReleasedEvents
    BY <1>3, PlayStep
  <1>4. CASE PlayDone
    BY <1>4, PlayDoneStep
  <1>5. CASE Replay
    <2> DEFINE h == Head(stack)
               d == h.dev
               w == h.win
               e == dev[d].event
    <2>1. stack # <<>> /\ h.op = "replay" /\ UNCHANGED <<queueVars, world, inputVars>>
      BY <1>5 DEF Replay
    <2>2. /\ Tail(stack) \in Seq(Call(split)) /\ (PlaysIn(Tail(stack)) <=> Playing)
          /\ h \in Frame
      BY <2>1, Under
    <2>3. d \in Device
      <3> HIDE DEF h
      <3>1. h \in [op : {"replay", "kill"}, dev : Device, win : Window]
        BY <2>1, <2>2 DEF Frame
      <3> QED BY <3>1
    <2>4. CASE w \in mapped /\ Caught(dev, d, e, w + 1) # {}
      <3>1. CheckDeviceGrabs(dev, d, e, w + 1, FALSE, Tail(stack))
        BY <1>5, <2>4 DEF Replay
      <3>2. e.kind = "press"
        BY <2>4 DEF Caught
      <3>3. e \in Event
        <4>1. dev[d] \in DeviceRecord
          BY <1>0, <2>3 DEF Devices
        <4>2. e \in Event \cup {NoEvent}
          BY <4>1 DEF DeviceRecord
        <4>3. NoEvent.kind # "press"
          BY DEF NoEvent
        <4> QED BY <3>2, <4>2, <4>3
      <3>4. FALSE \in BOOLEAN
        OBVIOUS
      <3> HIDE DEF h, d, w, e
      <3>5. Moved(Tail(stack), split)
        BY <1>0, <2>2, <2>3, <3>1, <3>3, <3>4, CheckDeviceGrabsMoves
      <3> QED BY <2>1, <2>2, <3>5, KeptHere
    <2>5. CASE ~(w \in mapped /\ Caught(dev, d, e, w + 1) # {})
      <3>1. DeliverDeviceEvents(dev, d, e, Tail(stack))
        BY <1>5, <2>5 DEF Replay
      <3> HIDE DEF h, d, w, e
      <3>2. Moved(Tail(stack), split)
        BY <1>0, <2>2, <2>3, <3>1, DeliverDeviceEventsMoves
      <3> QED BY <2>1, <2>2, <3>2, KeptHere
    <2> QED BY <2>4, <2>5
  <1>6. CASE Kill
    <2> DEFINE h == Head(stack)
               d == h.dev
    <2>1. stack # <<>> /\ h.op = "kill" /\ UNCHANGED <<queueVars, world, inputVars>>
      BY <1>6 DEF Kill
    <2>2. /\ Tail(stack) \in Seq(Call(split)) /\ (PlaysIn(Tail(stack)) <=> Playing)
          /\ h \in Frame
      BY <2>1, Under
    <2>3. d \in Device
      <3> HIDE DEF h
      <3>1. h \in [op : {"replay", "kill"}, dev : Device, win : Window]
        BY <2>1, <2>2 DEF Frame
      <3> QED BY <3>1
    <2>4. CASE dev[d].grabbed /\ dev[d].grab.win = h.win
      <3>1. dev' = DeactivateGrab(dev, d) /\ stack' = Plays \o Tail(stack)
        BY <1>6, <2>4 DEF Kill
      <3> HIDE DEF h, d
      <3>2. dev' \in Devices /\ HeldByGrab(dev') /\ FrozenIsHeld(dev')
        BY <1>0, <2>3, <3>1, DeactivateHolds
      <3> QED BY <2>1, <2>2, <3>1, <3>2, GrabStep
    <2>5. CASE ~(dev[d].grabbed /\ dev[d].grab.win = h.win)
      <3>1. dev' = dev /\ stack' = Tail(stack)
        BY <1>6, <2>5 DEF Kill
      <3>2. UNCHANGED <<queueVars, inputVars, passive, exists, mapped, alive>>
        BY <2>1 DEF world
      <3> QED BY <1>0, <2>1, <3>1, <3>2, ReturnStep
    <2> QED BY <2>4, <2>5
  <1>7. CASE Unmap
    <2>1. /\ stack # <<>> /\ Head(stack).op = "unmap" /\ stack' = Tail(stack)
          /\ mapped' \subseteq mapped
          /\ UNCHANGED <<dev, queueVars, passive, exists, alive, inputVars>>
      BY <1>7 DEF Unmap
    <2> QED BY <1>0, <2>1, ReturnStep
  <1>8. CASE Unlist
    <2>1. /\ stack # <<>> /\ Head(stack).op = "unlist" /\ stack' = Tail(stack)
          /\ passive' \subseteq passive /\ exists' \subseteq exists
          /\ UNCHANGED <<dev, queueVars, mapped, alive, inputVars>>
      BY <1>8 DEF Unlist
    <2> QED BY <1>0, <2>1, ReturnStep
  <1>9. CASE ReleaseActiveGrabs
    <2> DEFINE c == Head(stack).client
    <2>1. /\ stack # <<>> /\ Head(stack).op = "release"
          /\ UNCHANGED <<queueVars, passive, exists, mapped, inputVars>>
      BY <1>9 DEF ReleaseActiveGrabs
    <2>2. \/ \E d \in Device :
              /\ dev' = DeactivateGrab(dev, d) /\ stack' = Plays \o stack
              /\ UNCHANGED alive
          \/ stack' = Tail(stack) /\ alive' \subseteq alive /\ UNCHANGED dev
      BY <1>9 DEF ReleaseActiveGrabs
    <2>3. ASSUME NEW d \in Device, dev' = DeactivateGrab(dev, d), stack' = Plays \o stack,
                 UNCHANGED alive
          PROVE  IInv'
      <3>1. dev' \in Devices /\ HeldByGrab(dev') /\ FrozenIsHeld(dev')
        BY <1>0, <2>3, DeactivateHolds
      <3>2. UNCHANGED <<queueVars, world, inputVars>>
        BY <2>1, <2>3 DEF world
      <3>3. stack \in Seq(Call(split)) /\ (PlaysIn(stack) <=> Playing)
        BY <2>1, Under DEF IInv
      <3> QED BY <2>3, <3>1, <3>2, <3>3, GrabStep
    <2>4. CASE stack' = Tail(stack) /\ alive' \subseteq alive /\ UNCHANGED dev
      BY <1>0, <2>1, <2>4, ReturnStep
    <2> QED BY <2>2, <2>3, <2>4
  <1>10. CASE FreeClientResources
    <2>1. /\ stack # <<>> /\ Head(stack).op = "free"
          /\ UNCHANGED <<dev, queueVars, exists, mapped, alive, inputVars>>
      BY <1>10 DEF FreeClientResources
    <2>2. /\ passive' \subseteq passive
          /\ \/ stack' = stack
             \/ \E w \in exists : stack' = DeleteCalls(w) \o stack
             \/ stack' = Tail(stack)
      BY <1>10 DEF FreeClientResources
    <2>3. stack \in Seq(Call(split)) /\ (PlaysIn(stack) <=> Playing)
      BY <2>1, Under DEF IInv
    <2>4. CASE stack' = stack
      <3>1. <<>> \in Seq(Call(split)) /\ stack' = <<>> \o stack
        BY <2>3, <2>4
      <3> QED BY <1>0, <2>1, <2>2, <2>3, <3>1, CallStep
    <2>5. ASSUME NEW w \in exists, stack' = DeleteCalls(w) \o stack
          PROVE  IInv'
      <3>1. DeleteCalls(w) \in Seq(Call(split))
        BY <1>0, KillsHold
      <3> QED BY <1>0, <2>1, <2>2, <2>3, <2>5, <3>1, CallStep
    <2>6. CASE stack' = Tail(stack)
      BY <1>0, <2>1, <2>2, <2>6, ReturnStep
    <2> QED BY <2>2, <2>4, <2>5, <2>6
  <1> QED BY <1>1, <1>2, <1>3, <1>4, <1>5, <1>6, <1>7, <1>8, <1>9, <1>10 DEF Continue

\* A request of a client that has the devices let go.
LEMMA AllowStep ==
    ASSUME IInv, NEW c \in Client, NEW d \in Device, AllowSome(c, d)
    PROVE  IInv'
  <1>0. dev \in Devices /\ HeldByGrab(dev) /\ FrozenIsHeld(dev)
    BY WorldParts
  <1>1. UNCHANGED <<queueVars, world, inputVars>> /\ stack = <<>>
    BY DEF AllowSome, AllowThaw, AllowNextEvent, AllowBoth, AllowOthers, AllowReplay,
           Allowed, Request
  <1>2. Held("THAWED") /\ Held("FREEZE_NEXT_EVENT") /\ Held("FREEZE_BOTH_NEXT_EVENT")
    BY DEF Held, State
  <1>3. ASSUME NEW s, Held(s), dev' = ReleaseThis(c, d, s), stack' = Plays
        PROVE  IInv'
    <2>1. dev' \in Devices /\ HeldByGrab(dev') /\ FrozenIsHeld(dev')
      BY <1>0, <1>3, ReleaseThisHolds
    <2> QED BY <1>1, <1>3, <2>1, GrabRequestStep
  <1>4. ASSUME NEW s, NEW D, Held(s), dev' = Release(c, D, s), stack' = Plays
        PROVE  IInv'
    <2>1. dev' \in Devices /\ HeldByGrab(dev') /\ FrozenIsHeld(dev')
      BY <1>0, <1>4, ReleaseHolds
    <2> QED BY <1>1, <1>4, <2>1, GrabRequestStep
  <1>5. CASE AllowThaw(c, d)
    BY <1>2, <1>3, <1>5 DEF AllowThaw
  <1>6. CASE AllowNextEvent(c, d)
    BY <1>2, <1>3, <1>6 DEF AllowNextEvent
  <1>7. CASE \E s \in {"THAWED", "FREEZE_BOTH_NEXT_EVENT"} : AllowBoth(c, d, s)
    <2>1. PICK s \in {"THAWED", "FREEZE_BOTH_NEXT_EVENT"} : AllowBoth(c, d, s)
      BY <1>7
    <2>2. Held(s)
      BY <1>2
    <2>3. dev' = Release(c, Device, s) /\ stack' = Plays
      BY <2>1 DEF AllowBoth
    <2> QED BY <1>4, <2>2, <2>3
  <1>8. CASE AllowOthers(c, d)
    BY <1>2, <1>4, <1>8 DEF AllowOthers
  <1>9. CASE AllowReplay(c, d)
    <2> DEFINE replay == [op |-> "replay", dev |-> d, win |-> dev[d].grab.win]
    <2>1. dev' \in Devices /\ HeldByGrab(dev') /\ FrozenIsHeld(dev')
      BY <1>0, <1>9, ReplayedHolds
    <2>2. stack' = <<replay, Play>>
      BY <1>9 DEF AllowReplay
    <2>3. dev[d].grab.win \in Window
      <3>1. dev[d].grab \in Grab
        BY <1>0 DEF Devices, DeviceRecord
      <3> QED BY <3>1 DEF Grab
    <2>4. replay \in Call(split) /\ Play \in Call(split) /\ Play.op = "play"
      BY <2>3 DEF Call, Frame, Play
    <2> HIDE DEF replay
    <2>5. stack' \in Seq(Call(split)) /\ stack'[2] = Play /\ 2 \in DOMAIN stack'
      BY <2>2, <2>4
    <2>6. PlaysIn(stack')
      BY <2>4, <2>5 DEF PlaysIn
    <2>7. Moved(<<>>, split)
      BY <2>1, <2>5, <2>6 DEF Moved
    <2>8. PlaysIn(<<>>) <=> Playing
      BY <1>1, Idle
    <2> QED BY <1>1, <2>7, <2>8, KeptHere
  <1> QED BY <1>5, <1>6, <1>7, <1>8, <1>9 DEF AllowSome

LEMMA ClientStep ==
    ASSUME IInv, NEW c \in Client,
           \/ \E d \in Device : UngrabDevice(c, d) \/ AllowSome(c, d)
           \/ \E w \in Window : UnmapWindow(c, w) \/ MapWindow(c, w) \/ DestroyWindow(c, w)
           \/ CloseDownClient(c)
    PROVE  IInv'
  <1>0. /\ passive \subseteq PassiveGrabs /\ exists \subseteq Window
        /\ mapped \subseteq Window /\ alive \subseteq Client
        /\ dev \in Devices /\ HeldByGrab(dev) /\ FrozenIsHeld(dev)
        /\ stack \in Seq(Frame)
    BY WorldParts
  <1>1. ASSUME NEW d \in Device, UngrabDevice(c, d)
        PROVE  IInv'
    <2>1. /\ UNCHANGED <<queueVars, world, inputVars>> /\ stack = <<>> /\ stack' = Plays
          /\ dev' = DeactivateGrab(dev, d)
      BY <1>1 DEF UngrabDevice, Request
    <2>2. dev' \in Devices /\ HeldByGrab(dev') /\ FrozenIsHeld(dev')
      BY <1>0, <2>1, DeactivateHolds
    <2> QED BY <2>1, <2>2, GrabRequestStep
  <1>2. ASSUME NEW d \in Device, AllowSome(c, d)
        PROVE  IInv'
    BY <1>2, AllowStep
  <1>3. ASSUME NEW more \in Seq(Call(split)), stack = <<>>, stack' = more, dev' = dev,
               UNCHANGED <<queueVars, inputVars>>,
               UNCHANGED <<passive, exists, alive>>, mapped' \subseteq Window
        PROVE  IInv'
    <2>1. <<>> \in Seq(Call(split)) /\ (PlaysIn(<<>>) <=> Playing)
      BY <1>3, Idle
    <2>2. stack' = more \o <<>>
      BY <1>3
    <2> QED BY <1>0, <1>3, <2>1, <2>2, CallStep
  <1>4. ASSUME NEW w \in Window, UnmapWindow(c, w)
        PROVE  IInv'
    <2>1. /\ stack = <<>> /\ stack' = UnmapCalls(w) /\ dev' = dev
          /\ UNCHANGED <<queueVars, inputVars>> /\ UNCHANGED <<passive, exists, alive>>
          /\ mapped' = mapped
      BY <1>4 DEF UnmapWindow, Request, world
    <2> QED BY <1>0, <1>3, <2>1, KillsHold
  <1>5. ASSUME NEW w \in Window, MapWindow(c, w)
        PROVE  IInv'
    <2>1. /\ stack = <<>> /\ stack' = <<>> /\ dev' = dev
          /\ UNCHANGED <<queueVars, inputVars>> /\ UNCHANGED <<passive, exists, alive>>
          /\ mapped' \subseteq Window
      BY <1>0, <1>5 DEF MapWindow, Request
    <2>2. <<>> \in Seq(Call(split))
      OBVIOUS
    <2> QED BY <1>3, <2>1, <2>2
  <1>6. ASSUME NEW w \in Window, DestroyWindow(c, w)
        PROVE  IInv'
    <2>1. /\ stack = <<>> /\ stack' = DeleteCalls(w) /\ dev' = dev
          /\ UNCHANGED <<queueVars, inputVars>> /\ UNCHANGED <<passive, exists, alive>>
          /\ mapped' = mapped
      BY <1>6 DEF DestroyWindow, Request, world
    <2> QED BY <1>0, <1>3, <2>1, KillsHold
  <1>7. CASE CloseDownClient(c)
    <2>1. /\ stack = <<>> /\ dev' = dev
          /\ stack' = <<[op |-> "release", client |-> c], [op |-> "free", client |-> c]>>
          /\ UNCHANGED <<queueVars, inputVars>> /\ UNCHANGED <<passive, exists, alive>>
          /\ mapped' = mapped
      BY <1>7 DEF CloseDownClient, Request, world
    <2>2. /\ [op |-> "release", client |-> c] \in Call(split)
          /\ [op |-> "free", client |-> c] \in Call(split)
      BY DEF Call, Frame
    <2>3. stack' \in Seq(Call(split))
      BY <2>1, <2>2
    <2> QED BY <1>0, <1>3, <2>1, <2>3
  <1> QED BY <1>1, <1>2, <1>4, <1>5, <1>6, <1>7

LEMMA GrabDeviceStep ==
    ASSUME IInv, NEW p \in ActiveGrabs, GrabDevice(p)
    PROVE  IInv'
  <1>0. dev \in Devices /\ HeldByGrab(dev) /\ FrozenIsHeld(dev)
    BY WorldParts
  <1>1. p.dev \in Device /\ p.grab \in Grab
    BY GrabsAssumption DEF Grab
  <1>2. /\ UNCHANGED <<queueVars, world, inputVars>> /\ stack = <<>> /\ stack' = Plays
        /\ dev' = ActivateGrab(dev, p.dev, p.grab, FALSE)
    BY DEF GrabDevice, Request
  <1>3. dev' \in Devices /\ HeldByGrab(dev') /\ FrozenIsHeld(dev')
    BY <1>0, <1>1, <1>2, ActivateHolds
  <1> QED BY <1>2, <1>3, GrabRequestStep

LEMMA PassiveStep ==
    ASSUME IInv, NEW p \in PassiveGrabs, GrabButton(p) \/ UngrabButton(p)
    PROVE  IInv'
  <1>0. /\ passive \subseteq PassiveGrabs /\ exists \subseteq Window
        /\ mapped \subseteq Window /\ alive \subseteq Client
    BY WorldParts
  <1>1. /\ stack = <<>> /\ passive' \subseteq PassiveGrabs
        /\ UNCHANGED <<dev, queueVars, exists, mapped, alive, stack, inputVars>>
    BY <1>0 DEF GrabButton, UngrabButton, Request
  <1>2. <<>> \in Seq(Call(split)) /\ (PlaysIn(<<>>) <=> Playing) /\ stack' = <<>> \o <<>>
    BY <1>1, Idle
  <1> QED BY <1>0, <1>1, <1>2, CallStep

LEMMA Stutter ==
    ASSUME IInv, UNCHANGED vars
    PROVE  IInv'
  <1>1. UNCHANGED <<dev, pending, pendtail, passive, exists, mapped, alive, stack,
                    held, sent, done, split>>
    BY DEF vars, queueVars, world, inputVars
  <1>2. TypeOK'
    BY <1>1 DEF IInv, TypeOK
  <1> QED BY <1>1, <1>2 DEF IInv

LEMMA Inductive == IInv /\ [Next]_vars => IInv'
  <1> SUFFICES ASSUME IInv, [Next]_vars PROVE IInv'
    OBVIOUS
  <1>1. CASE Continue
    BY <1>1, ContinueStep
  <1>2. ASSUME NEW d \in Device, NEW k \in {"press", "release", "motion"},
               NEW b \in Detail, Input(d, k, b)
        PROVE  IInv'
    BY <1>2, InputStep
  <1>3. ASSUME NEW c \in Client,
           \/ \E d \in Device : UngrabDevice(c, d) \/ AllowSome(c, d)
           \/ \E w \in Window : UnmapWindow(c, w) \/ MapWindow(c, w) \/ DestroyWindow(c, w)
           \/ CloseDownClient(c)
        PROVE  IInv'
    BY <1>3, ClientStep
  <1>4. ASSUME NEW p \in ActiveGrabs, GrabDevice(p)
        PROVE  IInv'
    BY <1>4, GrabDeviceStep
  <1>5. ASSUME NEW p \in PassiveGrabs, GrabButton(p) \/ UngrabButton(p)
        PROVE  IInv'
    BY <1>5, PassiveStep
  <1>6. CASE UNCHANGED vars
    BY <1>6, Stutter
  <1> QED BY <1>1, <1>2, <1>3, <1>4, <1>5, <1>6 DEF Next

-----------------------------------------------------------------------------
(* The theorems.                                                           *)

LEMMA Invariant == Spec => []IInv
  BY Initially, Inductive, PTL DEF Spec

\* Devices, queue, sets and calls stay in their ranges, and the queue's end
\* is where events.c looks for it, whatever is played, replayed or split.
THEOREM TypeCorrect == Spec => []TypeOK
  <1>1. IInv => TypeOK
    BY DEF IInv
  <1> QED BY <1>1, Invariant, PTL

\* A device is frozen exactly when a grab that is there holds it.
THEOREM FreezesHeld == Spec => []FrozenByGrab
  <1>1. IInv => FrozenByGrab
    BY FrozenParts DEF IInv
  <1> QED BY <1>1, Invariant, PTL

\* What a device has sent and its handler has not seen is queued once, in
\* order, and played as soon as nothing freezes the device.
THEOREM EventsInOrder == Spec => []InOrder
  <1>1. IInv => InOrder
    BY InOrderParts DEF IInv
  <1> QED BY <1>1, Invariant, PTL

\* A client whose grabs alone hold a device can thaw it.
LEMMA CanThaw == IInv => OwnerCanThaw
  <1> SUFFICES ASSUME IInv, stack = <<>>, NEW c \in alive, NEW d \in Device,
                      dev[d].frozen,
                      dev[d].state \in Frozen => dev[d].grab.client = c,
                      dev[d].other # NoDevice => dev[dev[d].other].grab.client = c
               PROVE  Allowed(c, d) /\ ~ReleaseThis(c, d, "THAWED")[d].frozen
    BY DEF OwnerCanThaw
  <1>0. dev \in Devices /\ HeldByGrab(dev) /\ FrozenIsHeld(dev)
    BY WorldParts
  <1> DEFINE x == dev[d].other
  <1>1. dev[d] \in DeviceRecord /\ x \in Device \cup {NoDevice}
    BY <1>0 DEF Devices, DeviceRecord
  <1>2. dev[d].state \in Frozen => SameClient(d, c)
    BY <1>0 DEF SameClient, HeldByGrab, Frozen
  <1>3. x # NoDevice => ThisSynced(c, d)
    BY <1>0, <1>1 DEF ThisSynced, SameClient, HeldByGrab
  <1>4. x # NoDevice \/ dev[d].state \in Frozen
    BY <1>0 DEF FrozenIsHeld
  <1>5. Allowed(c, d)
    BY <1>2, <1>3, <1>4 DEF Allowed, Request
  <1>6. ~ReleaseThis(c, d, "THAWED")[d].frozen
    <2> DEFINE old == dev[d]
               st == IF SameClient(d, c) THEN "THAWED" ELSE dev[d].state
               ot == IF ThisSynced(c, d) THEN NoDevice ELSE dev[d].other
               new == [old EXCEPT !.state = st, !.other = ot]
               u == [dev EXCEPT ![d] = new]
               f == u[d].other # NoDevice \/ u[d].state \in Frozen
    <2>1. ReleaseThis(c, d, "THAWED")[d] = [u[d] EXCEPT !.frozen = f]
      BY DEF ReleaseThis, Thaw
    <2>2. u[d] = new
      BY <1>0 DEF Devices
    <2>3. st \notin Frozen /\ ot = NoDevice
      BY <1>2, <1>3 DEF Frozen
    <2>4. old \in DeviceRecord
      BY <1>1
    <2> HIDE DEF old, st, ot
    <2>5. new.state = st /\ new.other = ot /\ new.frozen = old.frozen
          /\ DOMAIN new = DOMAIN old /\ "frozen" \in DOMAIN new
      BY <2>4 DEF DeviceRecord
    <2>6. f = FALSE
      BY <2>2, <2>3, <2>5
    <2> HIDE DEF new, u, f
    <2>7. [new EXCEPT !.frozen = f].frozen = f
      BY <2>5
    <2>8. ReleaseThis(c, d, "THAWED")[d] = [new EXCEPT !.frozen = f]
      BY <2>1, <2>2
    <2> QED BY <2>6, <2>7, <2>8
  <1> QED BY <1>5, <1>6

\* Nothing keeps a client from thawing the devices its grabs alone hold.
THEOREM OwnersThaw == Spec => []OwnerCanThaw
  BY CanThaw, Invariant, PTL

-----------------------------------------------------------------------------
(* Grabs end: the pointer's with its buttons, all with their windows.      *)

\* An automatic grab of the pointer has a button down, and so has a press
\* the pointer is frozen on.
ButtonDown(dv) ==
    LET p == dv[Pointer]
    IN (p.grabbed /\ p.auto) \/ (p.state = "FROZEN_WITH_EVENT" /\ p.event.kind = "press")
       => p.down # {}

KillOf(d, w) == [op |-> "kill", dev |-> d, win |-> w]
UnmapOf(w) == [op |-> "unmap", win |-> w]

\* Before window w leaves the list at call i of s, it is unmapped, and then
\* the grabs on it end once more.
Cleared(s, i, w) ==
    \E k \in 1 .. i - 1 :
        /\ s[k] = UnmapOf(w)
        /\ \A d \in Device : \E j \in k + 1 .. i - 1 : s[j] = KillOf(d, w)

\* The grabs there are on w end before call i of s.
Swept(s, i, w, dv) ==
    \A d \in Device : dv[d].grabbed /\ dv[d].grab.win = w =>
        \E j \in 1 .. i - 1 : s[j] = KillOf(d, w)

\* While a window is in the trace new grabs may be activated on it.
Guarded(s, mp, dv) ==
    \A i \in DOMAIN s : s[i].op = "unlist" =>
        IF s[i].win \in mp THEN Cleared(s, i, s[i].win) ELSE Swept(s, i, s[i].win, dv)

\* An event about to be kept is a press, and meets no grab but an automatic one.
Arming(s, dv) ==
    \A i \in DOMAIN s : s[i].op = "arm" =>
        /\ s[i].ev.kind = "press"
        /\ dv[s[i].ev.dev].grabbed => dv[s[i].ev.dev].auto

NoReplay(s) == \A i \in DOMAIN s : s[i].op # "replay"

\* A replay begins at once, with the button of its press still down.
Replaying(s, dv) ==
    \A i \in DOMAIN s : s[i].op = "replay" =>
        /\ i = 1
        /\ s[i].dev = Pointer /\ dv[Pointer].event.kind = "press" => dv[Pointer].down # {}

Windowed(dv, ex) == \A d \in Device : dv[d].grabbed => dv[d].grab.win \in ex

\* The press a device keeps is its own.
EventsOwn(dv) == \A d \in Device : dv[d].event.kind = "press" => dv[d].event.dev = d

\* What the calls s find when the one on top goes on.
Sound(dv, s) ==
    /\ ButtonDown(dv) /\ EventsOwn(dv) /\ Windowed(dv, exists)
    /\ Arming(s, dv) /\ Replaying(s, dv) /\ Guarded(s, mapped, dv)

EndInv == Sound(dev, stack) /\ mapped \subseteq exists

\* What the steps leave of the devices: nothing is pressed or kept, and no
\* grab begins, in an operator that lets devices go.
Tame(dv, dw) ==
    \A x \in Device :
        /\ dw[x].down = dv[x].down /\ dw[x].event = dv[x].event
        /\ dw[x].grabbed =>
              dv[x].grabbed /\ dw[x].grab = dv[x].grab /\ dw[x].auto = dv[x].auto
        /\ dw[x].state = "FROZEN_WITH_EVENT" => dv[x].state = "FROZEN_WITH_EVENT"

LEMMA ThawKeeps ==
    ASSUME NEW dv \in Devices, NEW x \in Device
    PROVE  LET t == Thaw(dv)[x]
               r == dv[x]
           IN /\ t.down = r.down /\ t.event = r.event /\ t.grabbed = r.grabbed
              /\ t.grab = r.grab /\ t.auto = r.auto /\ t.state = r.state
  <1> DEFINE r == dv[x]
             t == Thaw(dv)[x]
             f == dv[x].other # NoDevice \/ dv[x].state \in Frozen
  <1>1. t = [r EXCEPT !.frozen = f] /\ r \in DeviceRecord
    BY DEF Thaw, Devices
  <1> HIDE DEF r, t, f
  <1>2. /\ t.down = r.down /\ t.event = r.event /\ t.grabbed = r.grabbed
        /\ t.grab = r.grab /\ t.auto = r.auto /\ t.state = r.state
    BY <1>1 DEF DeviceRecord
  <1> QED BY <1>2 DEF r, t

LEMMA ThawTame ==
    ASSUME NEW dv, NEW u \in Devices, Tame(dv, u)
    PROVE  Tame(dv, Thaw(u))
  <1>1. ASSUME NEW x \in Device
        PROVE  LET t == Thaw(u)[x]
                   r == u[x]
               IN /\ t.down = r.down /\ t.event = r.event /\ t.grabbed = r.grabbed
                  /\ t.grab = r.grab /\ t.auto = r.auto /\ t.state = r.state
    BY ThawKeeps
  <1> DEFINE t == Thaw(u)
  <1>2. \A x \in Device :
           /\ t[x].down = u[x].down /\ t[x].event = u[x].event
           /\ t[x].grabbed = u[x].grabbed /\ t[x].grab = u[x].grab
           /\ t[x].auto = u[x].auto /\ t[x].state = u[x].state
    BY <1>1
  <1> HIDE DEF t
  <1>3. Tame(dv, t)
    BY <1>2 DEF Tame
  <1> QED BY <1>3 DEF t

LEMMA DeactivateTame ==
    ASSUME NEW dv \in Devices, NEW d \in Device
    PROVE  LET a == DeactivateGrab(dv, d)
           IN Tame(dv, a) /\ ~a[d].grabbed
  <1> DEFINE o(x) == IF dv[x].other = d THEN NoDevice ELSE dv[x].other
             g(x) == dv[x].grabbed /\ x # d
             b(x) == dv[x].auto /\ x # d
             s(x) == IF x = d THEN "NOT_GRABBED" ELSE dv[x].state
             u == [x \in Device |-> [dv[x] EXCEPT !.other = o(x), !.grabbed = g(x),
                                                  !.auto = b(x), !.state = s(x)]]
  <1>1. DeactivateGrab(dv, d) = Thaw(u)
    BY DEF DeactivateGrab
  <1>2. ASSUME NEW x \in Device
        PROVE  /\ u[x] \in DeviceRecord
               /\ u[x].down = dv[x].down /\ u[x].event = dv[x].event
               /\ u[x].grab = dv[x].grab /\ (x # d => u[x].auto = dv[x].auto)
               /\ u[x].grabbed = g(x) /\ u[x].state = s(x)
    <2> DEFINE old == dv[x]
               new == u[x]
               o1 == o(x)
               g1 == g(x)
               b1 == b(x)
               s1 == s(x)
    <2>1. old \in DeviceRecord
      BY DEF Devices
    <2>2. o1 \in Device \cup {NoDevice} /\ s1 \in State /\ g1 \in BOOLEAN /\ b1 \in BOOLEAN
      BY <2>1 DEF DeviceRecord, State
    <2>3. new = [old EXCEPT !.other = o1, !.grabbed = g1, !.auto = b1, !.state = s1]
      OBVIOUS
    <2>4. old.auto \in BOOLEAN
      BY <2>1 DEF DeviceRecord
    <2>5. x # d => b1 = old.auto
      BY <2>4
    <2> HIDE DEF old, new, o1, g1, b1, s1
    <2>6. /\ new \in DeviceRecord /\ new.down = old.down /\ new.event = old.event
          /\ new.grab = old.grab /\ new.auto = b1
          /\ new.grabbed = g1 /\ new.state = s1
      BY <2>1, <2>2, <2>3 DEF DeviceRecord
    <2> QED BY <2>5, <2>6 DEF old, new, g1, s1
  <1>3. u \in Devices
    BY <1>2 DEF Devices
  <1> HIDE DEF u
  <1>4. Tame(dv, u)
    BY <1>2 DEF Tame
  <1>5. Tame(dv, Thaw(u))
    BY <1>3, <1>4, ThawTame
  <1>6. Thaw(u)[d].grabbed = u[d].grabbed
    BY <1>3, ThawKeeps
  <1>7. ~u[d].grabbed
    BY <1>2
  <1> QED BY <1>1, <1>5, <1>6, <1>7

LEMMA ReleaseTame ==
    ASSUME dev \in Devices, NEW c, NEW D, NEW s, Held(s), s # "FROZEN_WITH_EVENT"
    PROVE  Tame(dev, Release(c, D, s))
  <1> DEFINE st(x) == IF SameClient(x, c) THEN s ELSE dev[x].state
             ot(x) == IF Mine(dev, dev[x].other, c) THEN NoDevice ELSE dev[x].other
             u == [x \in Device |-> IF x \notin D THEN dev[x]
                      ELSE [dev[x] EXCEPT !.state = st(x), !.other = ot(x)]]
  <1>1. Release(c, D, s) = Thaw(u)
    BY DEF Release
  <1>2. ASSUME NEW x \in Device
        PROVE  /\ u[x] \in DeviceRecord
               /\ u[x].down = dev[x].down /\ u[x].event = dev[x].event
               /\ u[x].grabbed = dev[x].grabbed /\ u[x].grab = dev[x].grab
               /\ u[x].auto = dev[x].auto /\ u[x].state \in {dev[x].state, s}
    <2> DEFINE old == dev[x]
               new == u[x]
               st1 == st(x)
               ot1 == ot(x)
    <2>1. old \in DeviceRecord
      BY DEF Devices
    <2>2. st1 \in State /\ ot1 \in Device \cup {NoDevice} /\ st1 \in {dev[x].state, s}
      BY <2>1 DEF DeviceRecord, Held
    <2>3. new = IF x \notin D THEN old ELSE [old EXCEPT !.state = st1, !.other = ot1]
      OBVIOUS
    <2> HIDE DEF old, new, st1, ot1
    <2>4. /\ new \in DeviceRecord /\ new.down = old.down /\ new.event = old.event
          /\ new.grabbed = old.grabbed /\ new.grab = old.grab /\ new.auto = old.auto
          /\ new.state \in {old.state, st1}
      BY <2>1, <2>2, <2>3 DEF DeviceRecord
    <2> QED BY <2>2, <2>4 DEF old, new
  <1>3. u \in Devices
    BY <1>2 DEF Devices
  <1> HIDE DEF u
  <1>4. Tame(dev, u)
    BY <1>2 DEF Tame
  <1> QED BY <1>1, <1>3, <1>4, ThawTame

LEMMA ReleaseThisTame ==
    ASSUME dev \in Devices, NEW c, NEW d \in Device,
           NEW s, Held(s), s # "FROZEN_WITH_EVENT"
    PROVE  Tame(dev, ReleaseThis(c, d, s))
  <1> DEFINE old == dev[d]
             st == IF SameClient(d, c) THEN s ELSE dev[d].state
             ot == IF ThisSynced(c, d) THEN NoDevice ELSE dev[d].other
             new == [old EXCEPT !.state = st, !.other = ot]
             u == [dev EXCEPT ![d] = new]
  <1>1. ReleaseThis(c, d, s) = Thaw(u)
    BY DEF ReleaseThis
  <1>2. old \in DeviceRecord
    BY DEF Devices
  <1>3. st \in State /\ st \in {dev[d].state, s} /\ ot \in Device \cup {NoDevice}
    BY <1>2 DEF DeviceRecord, Held
  <1> HIDE DEF old, st, ot
  <1>4. /\ new \in DeviceRecord /\ new.down = old.down /\ new.event = old.event
        /\ new.grabbed = old.grabbed /\ new.grab = old.grab /\ new.auto = old.auto
        /\ new.state = st
    BY <1>2, <1>3 DEF DeviceRecord
  <1> HIDE DEF new
  <1>5. u \in Devices
    BY <1>4 DEF Devices
  <1>6. \A x \in Device :
           /\ u[x].down = dev[x].down /\ u[x].event = dev[x].event
           /\ u[x].grabbed = dev[x].grabbed /\ u[x].grab = dev[x].grab
           /\ u[x].auto = dev[x].auto /\ u[x].state \in {dev[x].state, s}
    BY <1>3, <1>4 DEF old, Devices
  <1> HIDE DEF u
  <1>7. Tame(dev, u)
    BY <1>6 DEF Tame
  <1> QED BY <1>1, <1>5, <1>7, ThawTame

LEMMA ReplayedTame ==
    ASSUME dev \in Devices, NEW c, NEW d \in Device, AllowReplay(c, d)
    PROVE  Tame(dev, dev')
  <1> DEFINE old == dev[d]
             ot == IF ThisSynced(c, d) THEN NoDevice ELSE dev[d].other
             new == [old EXCEPT !.other = ot]
             u == [dev EXCEPT ![d] = new]
  <1>1. dev' = DeactivateGrab(u, d)
    BY DEF AllowReplay
  <1>2. old \in DeviceRecord
    BY DEF Devices
  <1>3. ot \in Device \cup {NoDevice}
    BY <1>2 DEF DeviceRecord
  <1> HIDE DEF old, ot
  <1>4. /\ new \in DeviceRecord /\ new.down = old.down /\ new.event = old.event
        /\ new.grabbed = old.grabbed /\ new.grab = old.grab /\ new.auto = old.auto
        /\ new.state = old.state
    BY <1>2, <1>3 DEF DeviceRecord
  <1> HIDE DEF new
  <1>5. u \in Devices
    BY <1>4 DEF Devices
  <1>6. \A x \in Device :
           /\ u[x].down = dev[x].down /\ u[x].event = dev[x].event
           /\ u[x].grabbed = dev[x].grabbed /\ u[x].grab = dev[x].grab
           /\ u[x].auto = dev[x].auto /\ u[x].state = dev[x].state
    BY <1>4 DEF old, Devices
  <1> HIDE DEF u
  <1>7. Tame(u, dev')
    BY <1>1, <1>5, DeactivateTame
  <1> QED BY <1>6, <1>7 DEF Tame

\* A grab g that begins is device d's, which has then no event kept.
Begun(dv, dw, d, g, b) ==
    \A x \in Device :
        /\ dw[x].down = dv[x].down /\ dw[x].event = dv[x].event
        /\ x = d => /\ dw[x].grabbed /\ dw[x].grab = g /\ (dw[x].auto <=> b)
                    /\ dw[x].state # "FROZEN_WITH_EVENT"
        /\ x # d => /\ dw[x].grabbed = dv[x].grabbed /\ dw[x].grab = dv[x].grab
                    /\ dw[x].auto = dv[x].auto /\ dw[x].state = dv[x].state

LEMMA ActivateLeaves ==
    ASSUME NEW dv \in Devices, NEW d \in Device, NEW g \in Grab, NEW b \in BOOLEAN
    PROVE  Begun(dv, ActivateGrab(dv, d, g, b), d, g, b)
  <1> DEFINE r == [dv[d] EXCEPT !.grabbed = TRUE, !.grab = g, !.auto = b]
             u == [dv EXCEPT ![d] = r]
             c == CheckGrabForSyncs(u, d)
             kept(y) == IF Mine(u, u[y].other, u[d].grab.client) THEN NoDevice ELSE u[y].other
  <1>1. /\ r \in DeviceRecord /\ r.grab = g /\ r.grabbed /\ r.auto = b
        /\ r.down = dv[d].down /\ r.event = dv[d].event
    <2> DEFINE o == dv[d]
    <2>1. o \in DeviceRecord
      BY DEF Devices
    <2> HIDE DEF o
    <2>2. LET n == [o EXCEPT !.grabbed = TRUE, !.grab = g, !.auto = b]
          IN /\ n \in DeviceRecord /\ n.grab = g /\ n.grabbed /\ n.auto = b
             /\ n.down = o.down /\ n.event = o.event
      BY <2>1 DEF DeviceRecord
    <2> QED BY <2>2 DEF o
  <1>2. ActivateGrab(dv, d, g, b) = Thaw(c)
    BY DEF ActivateGrab
  <1> HIDE DEF r
  <1>3. /\ u \in Devices
        /\ u[d].grab = g /\ u[d].grabbed /\ u[d].auto = b
        /\ \A y \in Device : u[y].down = dv[y].down /\ u[y].event = dv[y].event
        /\ \A y \in Device : y # d => u[y] = dv[y]
    BY <1>1 DEF Devices
  <1>4. c = [y \in Device |->
         IF y = d
         THEN IF u[d].grab.own = "Sync"
              THEN [u[y] EXCEPT !.state = "FROZEN_NO_EVENT"]
              ELSE [u[y] EXCEPT !.state = "THAWED", !.other = kept(y)]
         ELSE [u[y] EXCEPT !.other = IF u[d].grab.others = "Sync" THEN d ELSE kept(y)]]
    BY DEF CheckGrabForSyncs
  <1> HIDE DEF u, c
  <1>5. ASSUME NEW y \in Device
        PROVE  /\ c[y] \in DeviceRecord
               /\ c[y].down = u[y].down /\ c[y].event = u[y].event
               /\ c[y].grabbed = u[y].grabbed /\ c[y].grab = u[y].grab
               /\ c[y].auto = u[y].auto
               /\ IF y = d THEN c[y].state # "FROZEN_WITH_EVENT"
                           ELSE c[y].state = u[y].state
    <2>1. u[y] \in DeviceRecord
      BY <1>3 DEF Devices
    <2>2. kept(y) \in Device \cup {NoDevice}
      BY <2>1 DEF DeviceRecord
    <2> DEFINE old == u[y]
               new == c[y]
               k == kept(y)
               o == IF u[d].grab.others = "Sync" THEN d ELSE k
    <2>3. /\ old \in DeviceRecord /\ k \in Device \cup {NoDevice}
          /\ o \in Device \cup {NoDevice}
          /\ \/ y = d /\ new = [old EXCEPT !.state = "FROZEN_NO_EVENT"]
             \/ y = d /\ new = [old EXCEPT !.state = "THAWED", !.other = k]
             \/ y # d /\ new = [old EXCEPT !.other = o]
      BY <1>4, <2>1, <2>2
    <2> HIDE DEF old, new, k, o
    <2>4. CASE y = d /\ new = [old EXCEPT !.state = "FROZEN_NO_EVENT"]
      <3>1. /\ new \in DeviceRecord /\ new.down = old.down /\ new.event = old.event
            /\ new.grabbed = old.grabbed /\ new.grab = old.grab /\ new.auto = old.auto
            /\ new.state = "FROZEN_NO_EVENT"
        BY <2>3, <2>4 DEF DeviceRecord, State
      <3> QED BY <2>4, <3>1 DEF old, new
    <2>5. CASE y = d /\ new = [old EXCEPT !.state = "THAWED", !.other = k]
      <3>1. /\ new \in DeviceRecord /\ new.down = old.down /\ new.event = old.event
            /\ new.grabbed = old.grabbed /\ new.grab = old.grab /\ new.auto = old.auto
            /\ new.state = "THAWED"
        BY <2>3, <2>5 DEF DeviceRecord, State
      <3> QED BY <2>5, <3>1 DEF old, new
    <2>6. CASE y # d /\ new = [old EXCEPT !.other = o]
      <3>1. /\ new \in DeviceRecord /\ new.down = old.down /\ new.event = old.event
            /\ new.grabbed = old.grabbed /\ new.grab = old.grab /\ new.auto = old.auto
            /\ new.state = old.state
        BY <2>3, <2>6 DEF DeviceRecord
      <3> QED BY <2>6, <3>1 DEF old, new
    <2> QED BY <2>3, <2>4, <2>5, <2>6
  <1>6. c \in Devices
    BY <1>4, <1>5 DEF Devices
  <1> DEFINE t == Thaw(c)
  <1>7. ASSUME NEW x \in Device
        PROVE  /\ t[x].down = c[x].down /\ t[x].event = c[x].event
               /\ t[x].grabbed = c[x].grabbed /\ t[x].grab = c[x].grab
               /\ t[x].auto = c[x].auto /\ t[x].state = c[x].state
    BY <1>6, ThawKeeps
  <1> HIDE DEF t
  <1>8. ASSUME NEW x \in Device
        PROVE  /\ t[x].down = dv[x].down /\ t[x].event = dv[x].event
               /\ x # d => /\ t[x].grabbed = dv[x].grabbed /\ t[x].grab = dv[x].grab
                           /\ t[x].auto = dv[x].auto /\ t[x].state = dv[x].state
    <2>1. t[x].down = dv[x].down /\ t[x].event = dv[x].event
      BY <1>3, <1>5, <1>7
    <2>2. ASSUME x # d
          PROVE  /\ t[x].grabbed = dv[x].grabbed /\ t[x].grab = dv[x].grab
                 /\ t[x].auto = dv[x].auto /\ t[x].state = dv[x].state
      <3>1. u[x] = dv[x]
        BY <1>3, <2>2
      <3>2. /\ c[x].grabbed = u[x].grabbed /\ c[x].grab = u[x].grab
            /\ c[x].auto = u[x].auto /\ c[x].state = u[x].state
        BY <1>5, <2>2
      <3> QED BY <1>7, <3>1, <3>2
    <2> QED BY <2>1, <2>2
  <1>9. t[d].grabbed /\ t[d].grab = g /\ t[d].state # "FROZEN_WITH_EVENT"
    BY <1>3, <1>5, <1>7
  <1>10. t[d].auto <=> b
    <2>1. t[d].auto = u[d].auto
      BY <1>5, <1>7
    <2> QED BY <1>3, <2>1
  <1>11. Begun(dv, t, d, g, b)
    BY <1>8, <1>9, <1>10 DEF Begun
  <1> QED BY <1>2, <1>11 DEF t

\* Freezing on an event keeps that event, of the device it froze.
LEMMA FreezeLeaves ==
    ASSUME NEW dv \in Devices, NEW d \in Device, NEW e \in Event, NEW x \in Device
    PROVE  LET a == FreezeOnEvent(dv, d, e)[x]
               r == dv[x]
           IN /\ a.down = r.down /\ a.grabbed = r.grabbed /\ a.grab = r.grab
              /\ a.auto = r.auto
              /\ a.state = "FROZEN_WITH_EVENT" =>
                    \/ x = d /\ a.event = e
                    \/ r.state = "FROZEN_WITH_EVENT" /\ a.event = r.event
  <1> DEFINE a == FreezeOnEvent(dv, d, e)
             both == dv[d].state = "FREEZE_BOTH_NEXT_EVENT"
             joins(y) == /\ dv[y].state = "FREEZE_BOTH_NEXT_EVENT"
                         /\ dv[y].grab.client = dv[d].grab.client
             old == dv[x]
             new == a[x]
             s == IF joins(x) THEN "FROZEN_NO_EVENT" ELSE dv[x].state
             o == IF joins(x) THEN dv[x].other ELSE d
  <1>1. old \in DeviceRecord
    BY DEF Devices
  <1>2. s \in State /\ s \in {"FROZEN_NO_EVENT", old.state}
    BY <1>1 DEF DeviceRecord, State
  <1>3. \/ new = old
        \/ x = d /\ new = [old EXCEPT !.state = "FROZEN_WITH_EVENT", !.frozen = TRUE,
                                      !.event = e]
        \/ x # d /\ new = [old EXCEPT !.frozen = TRUE, !.state = s, !.other = o]
    BY DEF FreezeOnEvent
  <1> HIDE DEF old, new, s, o
  <1>4. /\ new.down = old.down /\ new.grabbed = old.grabbed /\ new.grab = old.grab
        /\ new.auto = old.auto
        /\ new.state = "FROZEN_WITH_EVENT" =>
              \/ x = d /\ new.event = e
              \/ old.state = "FROZEN_WITH_EVENT" /\ new.event = old.event
    <2>1. CASE new = old
      BY <2>1
    <2>2. CASE x = d /\ new = [old EXCEPT !.state = "FROZEN_WITH_EVENT", !.frozen = TRUE,
                                          !.event = e]
      BY <1>1, <2>2 DEF DeviceRecord
    <2>3. CASE x # d /\ new = [old EXCEPT !.frozen = TRUE, !.state = s, !.other = o]
      BY <1>1, <1>2, <2>3 DEF DeviceRecord
    <2> QED BY <1>3, <2>1, <2>2, <2>3
  <1> QED BY <1>4 DEF old, new

LEMMA DownLeaves ==
    ASSUME NEW dv \in Devices, NEW d \in Device, NEW k, NEW x \in Device
    PROVE  LET a == WithDown(dv, d, k)[x]
               r == dv[x]
           IN /\ a.down = IF x = d THEN k ELSE r.down
              /\ a.event = r.event /\ a.grabbed = r.grabbed /\ a.grab = r.grab
              /\ a.auto = r.auto /\ a.state = r.state
  <1> DEFINE old == dv[x]
             new == WithDown(dv, d, k)[x]
  <1>1. old \in DeviceRecord
    BY DEF Devices
  <1>2. new = IF x = d THEN [old EXCEPT !.down = k] ELSE old
    BY DEF WithDown, Devices
  <1> HIDE DEF old, new
  <1>3. /\ new.down = IF x = d THEN k ELSE old.down
        /\ new.event = old.event /\ new.grabbed = old.grabbed /\ new.grab = old.grab
        /\ new.auto = old.auto /\ new.state = old.state
    BY <1>1, <1>2 DEF DeviceRecord
  <1> QED BY <1>3 DEF old, new

-----------------------------------------------------------------------------
(* Calls that are put on those under way, and calls that return.           *)

\* A grab is one there was, or an automatic one on a window in the trace.
Onward(dv, dw, mp) ==
    \A d \in Device : dw[d].grabbed =>
        \/ dv[d].grabbed /\ dw[d].grab.win = dv[d].grab.win /\ dw[d].auto = dv[d].auto
        \/ dw[d].auto /\ dw[d].grab.win \in mp

\* The calls below one that handles events.
Below(s, dv) == NoReplay(s) /\ Arming(s, dv) /\ Guarded(s, mapped, dv)

LEMMA TameHolds ==
    ASSUME NEW dv, NEW dw, Tame(dv, dw), NEW mp, NEW ex
    PROVE  /\ Onward(dv, dw, mp)
           /\ ButtonDown(dv) => ButtonDown(dw)
           /\ EventsOwn(dv) => EventsOwn(dw)
           /\ Windowed(dv, ex) => Windowed(dw, ex)
  <1>1. Onward(dv, dw, mp)
    BY DEF Tame, Onward
  <1>2. ButtonDown(dv) => ButtonDown(dw)
    BY DevicesAssumption DEF Tame, ButtonDown
  <1>3. EventsOwn(dv) => EventsOwn(dw)
    BY DEF Tame, EventsOwn
  <1>4. Windowed(dv, ex) => Windowed(dw, ex)
    BY DEF Tame, Windowed
  <1> QED BY <1>1, <1>2, <1>3, <1>4

LEMMA FrameParts ==
    ASSUME NEW f \in Frame
    PROVE  /\ f.op = "arm" => f.ev \in Event /\ f.ev.dev \in Device
           /\ f.op = "again" => f.ev \in Event /\ f.ev.dev \in Device
           /\ f.op \in {"replay", "kill"} => f.dev \in Device /\ f.win \in Window
           /\ f.op \in {"unmap", "unlist"} => f.win \in Window
           /\ f.op = "kill" => f = KillOf(f.dev, f.win)
           /\ f.op = "unmap" => f = UnmapOf(f.win)
  BY DEF Frame, Event, KillOf, UnmapOf

LEMMA PushHolds ==
    ASSUME NEW n \in Seq(Frame), NEW s \in Seq(Frame), NEW dv, NEW dw, NEW mp,
           Onward(dv, dw, mp), NoReplay(s), Arming(s, dv), Guarded(s, mp, dv),
           Arming(n, dw), Replaying(n, dw), Guarded(n, mp, dw)
    PROVE  Arming(n \o s, dw) /\ Replaying(n \o s, dw) /\ Guarded(n \o s, mp, dw)
  <1> DEFINE L == Len(n)
             t == n \o s
  <1>1. /\ L \in Nat /\ Len(s) \in Nat /\ t \in Seq(Frame)
        /\ DOMAIN n = 1 .. L /\ DOMAIN s = 1 .. Len(s) /\ DOMAIN t = 1 .. L + Len(s)
        /\ \A i \in 1 .. L : t[i] = n[i]
    OBVIOUS
  <1>2. \A i \in 1 .. Len(s) : t[i + L] = s[i]
    OBVIOUS
  <1>3. \A i \in DOMAIN t : i \in 1 .. L \/ (i - L \in 1 .. Len(s) /\ t[i] = s[i - L])
    <2> SUFFICES ASSUME NEW i \in DOMAIN t, i \notin 1 .. L
                 PROVE  i - L \in 1 .. Len(s) /\ t[i] = s[i - L]
      OBVIOUS
    <2>1. i - L \in 1 .. Len(s) /\ (i - L) + L = i
      BY <1>1
    <2> QED BY <1>2, <2>1
  <1> HIDE DEF t, L
  <1>4. Arming(t, dw)
    <2> SUFFICES ASSUME NEW i \in DOMAIN t, t[i].op = "arm"
                 PROVE  t[i].ev.kind = "press" /\ (dw[t[i].ev.dev].grabbed => dw[t[i].ev.dev].auto)
      BY DEF Arming
    <2>1. CASE i \in 1 .. L
      BY <1>1, <2>1 DEF Arming
    <2>2. CASE i - L \in 1 .. Len(s) /\ t[i] = s[i - L]
      <3>1. t[i].ev.dev \in Device
        BY <1>1, FrameParts
      <3>2. t[i].ev.kind = "press" /\ (dv[t[i].ev.dev].grabbed => dv[t[i].ev.dev].auto)
        BY <1>1, <2>2 DEF Arming
      <3> QED BY <3>1, <3>2 DEF Onward
    <2> QED BY <1>3, <2>1, <2>2
  <1>5. Replaying(t, dw)
    <2> SUFFICES ASSUME NEW i \in DOMAIN t, t[i].op = "replay"
                 PROVE  /\ i = 1
                        /\ t[i].dev = Pointer /\ dw[Pointer].event.kind = "press"
                             => dw[Pointer].down # {}
      BY DEF Replaying
    <2>1. i \in 1 .. L
      BY <1>1, <1>3 DEF NoReplay
    <2> QED BY <1>1, <2>1 DEF Replaying
  <1>6. Guarded(t, mp, dw)
    <2> SUFFICES ASSUME NEW i \in DOMAIN t, t[i].op = "unlist"
                 PROVE  IF t[i].win \in mp THEN Cleared(t, i, t[i].win)
                                           ELSE Swept(t, i, t[i].win, dw)
      BY DEF Guarded
    <2> DEFINE w == t[i].win
    <2> HIDE DEF w
    <2>1. CASE i \in 1 .. L
      <3>1. n[i].op = "unlist" /\ n[i].win = w /\ i \in DOMAIN n
        BY <1>1, <2>1 DEF w
      <3>2. \A j \in 1 .. i - 1 : t[j] = n[j]
        BY <1>1, <2>1
      <3>3. CASE w \in mp
        <4>1. Cleared(n, i, w)
          BY <3>1, <3>3 DEF Guarded
        <4>2. PICK k \in 1 .. i - 1 :
                /\ n[k] = UnmapOf(w)
                /\ \A d \in Device : \E j \in k + 1 .. i - 1 : n[j] = KillOf(d, w)
          BY <4>1 DEF Cleared
        <4>3. \A j \in k + 1 .. i - 1 : j \in 1 .. i - 1
          BY <4>2
        <4>4. Cleared(t, i, w)
          BY <3>2, <4>2, <4>3 DEF Cleared
        <4> QED BY <3>3, <4>4 DEF w
      <3>4. CASE w \notin mp
        <4>1. Swept(n, i, w, dw)
          BY <3>1, <3>4 DEF Guarded
        <4>2. Swept(t, i, w, dw)
          BY <3>2, <4>1 DEF Swept
        <4> QED BY <3>4, <4>2 DEF w
      <3> QED BY <3>3, <3>4
    <2>2. CASE i - L \in 1 .. Len(s) /\ t[i] = s[i - L]
      <3> DEFINE h == i - L
      <3>1. h \in DOMAIN s /\ s[h].op = "unlist" /\ s[h].win = w /\ h \in Nat
        BY <1>1, <2>2 DEF w
      <3>2. ASSUME NEW j \in Int, j <= h - 1, j >= 1
            PROVE  t[j + L] = s[j] /\ j + L \in Int /\ j + L <= i - 1 /\ j + L >= 1
        BY <1>1, <1>2, <2>2, <3>2
      <3>3. CASE w \in mp
        <4>1. Cleared(s, h, w)
          BY <3>1, <3>3 DEF Guarded
        <4>2. PICK k \in 1 .. h - 1 :
                /\ s[k] = UnmapOf(w)
                /\ \A d \in Device : \E j \in k + 1 .. h - 1 : s[j] = KillOf(d, w)
          BY <4>1 DEF Cleared
        <4>3. k + L \in 1 .. i - 1 /\ t[k + L] = UnmapOf(w)
          BY <1>1, <3>1, <3>2, <4>2
        <4>4. ASSUME NEW d \in Device
              PROVE  \E j \in k + L + 1 .. i - 1 : t[j] = KillOf(d, w)
          <5>1. PICK j \in k + 1 .. h - 1 : s[j] = KillOf(d, w)
            BY <4>2
          <5>2. j + L \in k + L + 1 .. i - 1 /\ t[j + L] = KillOf(d, w)
            BY <1>1, <3>1, <3>2, <5>1
          <5> QED BY <5>2
        <4>5. Cleared(t, i, w)
          BY <4>3, <4>4 DEF Cleared
        <4> QED BY <3>3, <4>5 DEF w
      <3>4. CASE w \notin mp
        <4>1. Swept(s, h, w, dv)
          BY <3>1, <3>4 DEF Guarded
        <4>2. ASSUME NEW d \in Device, dw[d].grabbed, dw[d].grab.win = w
              PROVE  \E j \in 1 .. i - 1 : t[j] = KillOf(d, w)
          <5>1. dv[d].grabbed /\ dv[d].grab.win = w
            BY <3>4, <4>2 DEF Onward
          <5>2. PICK j \in 1 .. h - 1 : s[j] = KillOf(d, w)
            BY <4>1, <5>1 DEF Swept
          <5>3. j + L \in 1 .. i - 1 /\ t[j + L] = KillOf(d, w)
            BY <1>1, <3>1, <3>2, <5>2
          <5> QED BY <5>3
        <4>3. Swept(t, i, w, dw)
          BY <4>2 DEF Swept
        <4> QED BY <3>4, <4>3 DEF w
      <3> QED BY <3>3, <3>4
    <2> QED BY <1>3, <2>1, <2>2
  <1> QED BY <1>4, <1>5, <1>6 DEF t

LEMMA PopHolds ==
    ASSUME NEW s \in Seq(Frame), s # <<>>, NEW dv, NEW dw, NEW mp, NEW mq,
           Arming(s, dv), Replaying(s, dv), Guarded(s, mp, dv),
           mq = IF Head(s).op = "unmap" THEN mp \ {Head(s).win} ELSE mp,
           Onward(dv, dw, mq),
           \A d \in Device : dw[d].grabbed => Head(s) # KillOf(d, dw[d].grab.win)
    PROVE  NoReplay(Tail(s)) /\ Arming(Tail(s), dw) /\ Guarded(Tail(s), mq, dw)
  <1> DEFINE t == Tail(s)
  <1>1. /\ Len(s) \in Nat /\ Len(s) >= 1 /\ t \in Seq(Frame) /\ Len(t) = Len(s) - 1
        /\ DOMAIN s = 1 .. Len(s) /\ DOMAIN t = 1 .. Len(s) - 1 /\ Head(s) = s[1]
        /\ \A i \in 1 .. Len(s) - 1 : t[i] = s[i + 1]
    OBVIOUS
  <1>2. ASSUME NEW j \in Int, j >= 2, j <= Len(s)
        PROVE  t[j - 1] = s[j]
    <2>1. j - 1 \in 1 .. Len(s) - 1 /\ (j - 1) + 1 = j
      BY <1>1, <1>2
    <2> QED BY <1>1, <2>1
  <1>3. \A i \in DOMAIN t : i + 1 \in DOMAIN s /\ t[i] = s[i + 1] /\ i + 1 # 1
    BY <1>1
  <1> HIDE DEF t
  <1>4. NoReplay(t)
    BY <1>3 DEF NoReplay, Replaying
  <1>5. Arming(t, dw)
    <2> SUFFICES ASSUME NEW i \in DOMAIN t, t[i].op = "arm"
                 PROVE  t[i].ev.kind = "press" /\ (dw[t[i].ev.dev].grabbed => dw[t[i].ev.dev].auto)
      BY DEF Arming
    <2>1. t[i].ev.dev \in Device
      BY <1>1, FrameParts
    <2>2. t[i].ev.kind = "press" /\ (dv[t[i].ev.dev].grabbed => dv[t[i].ev.dev].auto)
      BY <1>3 DEF Arming
    <2> QED BY <2>1, <2>2 DEF Onward
  <1>6. Guarded(t, mq, dw)
    <2> SUFFICES ASSUME NEW i \in DOMAIN t, t[i].op = "unlist"
                 PROVE  IF t[i].win \in mq THEN Cleared(t, i, t[i].win)
                                           ELSE Swept(t, i, t[i].win, dw)
      BY DEF Guarded
    <2> DEFINE w == t[i].win
    <2>1. /\ i + 1 \in DOMAIN s /\ s[i + 1].op = "unlist" /\ s[i + 1].win = w
          /\ i \in Int /\ i + 1 <= Len(s) /\ (i + 1) - 1 = i
      BY <1>1, <1>3
    <2> HIDE DEF w
    <2>2. CASE w \in mq
      <3>1. Cleared(s, i + 1, w)
        BY <2>1, <2>2 DEF Guarded
      <3>2. PICK k \in 1 .. i :
              /\ s[k] = UnmapOf(w)
              /\ \A d \in Device : \E j \in k + 1 .. i : s[j] = KillOf(d, w)
        BY <2>1, <3>1 DEF Cleared
      <3>3. k # 1
        <4>1. UnmapOf(w).op = "unmap" /\ UnmapOf(w).win = w
          BY DEF UnmapOf
        <4> QED BY <1>1, <2>2, <3>2, <4>1
      <3>4. k - 1 \in 1 .. i - 1 /\ t[k - 1] = UnmapOf(w)
        BY <1>1, <1>2, <2>1, <3>2, <3>3
      <3>5. ASSUME NEW d \in Device
            PROVE  \E j \in (k - 1) + 1 .. i - 1 : t[j] = KillOf(d, w)
        <4>1. PICK j \in k + 1 .. i : s[j] = KillOf(d, w)
          BY <3>2
        <4>2. j - 1 \in (k - 1) + 1 .. i - 1 /\ t[j - 1] = KillOf(d, w)
          BY <1>1, <1>2, <2>1, <3>2, <4>1
        <4> QED BY <4>2
      <3>6. Cleared(t, i, w)
        BY <3>4, <3>5 DEF Cleared
      <3> QED BY <2>2, <3>6 DEF w
    <2>3. CASE w \notin mq
      <3>1. ASSUME NEW d \in Device, dw[d].grabbed, dw[d].grab.win = w
            PROVE  \E j \in 1 .. i - 1 : t[j] = KillOf(d, w)
        <4>1. \E j \in 1 .. i : j # 1 /\ s[j] = KillOf(d, w)
          <5>1. CASE w \in mp
            <6>1. Cleared(s, i + 1, w)
              BY <2>1, <5>1 DEF Guarded
            <6>2. PICK k \in 1 .. i : \E j \in k + 1 .. i : s[j] = KillOf(d, w)
              BY <2>1, <6>1 DEF Cleared
            <6>3. PICK j \in k + 1 .. i : s[j] = KillOf(d, w)
              BY <6>2
            <6> QED BY <2>1, <6>2, <6>3
          <5>2. CASE w \notin mp
            <6>1. Swept(s, i + 1, w, dv)
              BY <2>1, <5>2 DEF Guarded
            <6>2. dv[d].grabbed /\ dv[d].grab.win = w
              BY <2>3, <3>1 DEF Onward
            <6>3. PICK j \in 1 .. i : s[j] = KillOf(d, w)
              BY <2>1, <6>1, <6>2 DEF Swept
            <6>4. j # 1
              BY <1>1, <3>1, <6>3
            <6> QED BY <6>3, <6>4
          <5> QED BY <5>1, <5>2
        <4>2. PICK j \in 1 .. i : j # 1 /\ s[j] = KillOf(d, w)
          BY <4>1
        <4>3. j - 1 \in 1 .. i - 1 /\ t[j - 1] = KillOf(d, w)
          BY <1>1, <1>2, <2>1, <4>2
        <4> QED BY <4>3
      <3>2. Swept(t, i, w, dw)
        BY <3>1 DEF Swept
      <3> QED BY <2>3, <3>2 DEF w
    <2> QED BY <2>2, <2>3
  <1> QED BY <1>4, <1>5, <1>6 DEF t

\* Calls that keep no event and take no window off the list.
Plain(n) == \A i \in DOMAIN n : n[i].op \notin {"arm", "replay", "unlist"}

LEMMA PlainCalls ==
    ASSUME NEW n, NEW dv, NEW mp, Plain(n)
    PROVE  NoReplay(n) /\ Arming(n, dv) /\ Replaying(n, dv) /\ Guarded(n, mp, dv)
  BY DEF Plain, NoReplay, Arming, Replaying, Guarded

LEMMA PlaysPlain == Plays \in Seq(Frame) /\ Plain(Plays)
  <1>1. Play \in Frame /\ Play.op = "play"
    BY DEF Play, Frame
  <1> QED BY <1>1 DEF Plays, Plain

LEMMA NothingPlain == <<>> \in Seq(Frame) /\ Plain(<<>>)
  BY DEF Plain

LEMMA NoReplayHere ==
    ASSUME NEW s \in Seq(Frame), s # <<>>, NEW dv, Replaying(s, dv), Head(s).op # "replay"
    PROVE  NoReplay(s)
  BY DEF Replaying, NoReplay

-----------------------------------------------------------------------------
(* The handlers, seen from the calls below them.                           *)

\* What they begin with: the device of the event is not frozen.
Fit(dv) == ButtonDown(dv) /\ EventsOwn(dv) /\ Windowed(dv, exists)

LEMMA OnwardSame ==
    ASSUME NEW dv, NEW mp
    PROVE  Onward(dv, dv, mp)
  BY DEF Onward

\* Something plain is put above the calls below.
LEMMA PlainSound ==
    ASSUME NEW rest \in Seq(Frame), NEW n \in Seq(Frame), Plain(n),
           NEW dv, NEW dw, Onward(dv, dw, mapped), Below(rest, dv), Fit(dw)
    PROVE  Sound(dw, n \o rest)
  <1>1. Arming(n, dw) /\ Replaying(n, dw) /\ Guarded(n, mapped, dw)
    BY PlainCalls
  <1>2. NoReplay(rest) /\ Arming(rest, dv) /\ Guarded(rest, mapped, dv)
    BY DEF Below
  <1>3. /\ Arming(n \o rest, dw) /\ Replaying(n \o rest, dw)
        /\ Guarded(n \o rest, mapped, dw)
    BY <1>1, <1>2, PushHolds
  <1> QED BY <1>3 DEF Sound, Fit

LEMMA PlaysSound ==
    ASSUME NEW rest \in Seq(Frame), NEW dv, NEW dw,
           Onward(dv, dw, mapped), Below(rest, dv), Fit(dw)
    PROVE  Sound(dw, Plays \o rest) /\ Sound(dw, rest)
  <1>1. Sound(dw, Plays \o rest)
    BY PlaysPlain, PlainSound
  <1>2. <<>> \o rest = rest
    OBVIOUS
  <1>3. Sound(dw, <<>> \o rest)
    BY NothingPlain, PlainSound
  <1> QED BY <1>1, <1>2, <1>3

LEMMA CheckDeviceGrabsSound ==
    ASSUME NEW dv \in Devices, NEW d \in Device, NEW e \in Event, e.dev = d,
           NEW first, NEW direct \in BOOLEAN, NEW rest \in Seq(Frame),
           passive \subseteq PassiveGrabs, mapped \subseteq exists,
           d = Pointer => dv[d].down # {}, d # Pointer => ButtonDown(dv),
           EventsOwn(dv), Windowed(dv, exists), Below(rest, dv),
           CheckDeviceGrabs(dv, d, e, first, direct, rest)
    PROVE  Sound(dev', stack')
  <1>1. PICK p \in Caught(dv, d, e, first) :
          /\ dev' = ActivateGrab(dv, d, p.grab, TRUE)
          /\ stack' = Plays \o <<[op |-> "arm", ev |-> e, direct |-> direct]>> \o rest
    BY DEF CheckDeviceGrabs
  <1>2. p.grab \in Grab /\ p.grab.win \in mapped /\ e.kind = "press"
    BY GrabsAssumption DEF Caught, Grab
  <1>3. ASSUME NEW x \in Device
        PROVE  /\ dev'[x].down = dv[x].down /\ dev'[x].event = dv[x].event
               /\ x = d => dev'[x].grabbed /\ dev'[x].grab = p.grab /\ dev'[x].auto
                           /\ dev'[x].state # "FROZEN_WITH_EVENT"
               /\ x # d => /\ dev'[x].grabbed = dv[x].grabbed /\ dev'[x].grab = dv[x].grab
                           /\ dev'[x].auto = dv[x].auto /\ dev'[x].state = dv[x].state
    <2>1. Begun(dv, ActivateGrab(dv, d, p.grab, TRUE), d, p.grab, TRUE)
      BY <1>2, ActivateLeaves
    <2> QED BY <1>1, <2>1 DEF Begun
  <1>4. Onward(dv, dev', mapped)
    BY <1>2, <1>3 DEF Onward
  <1>5. ButtonDown(dev')
    BY <1>3, DevicesAssumption DEF ButtonDown
  <1>6. EventsOwn(dev')
    <2>1. \A x \in Device : dev'[x].event = dv[x].event
      BY <1>3
    <2> QED BY <2>1 DEF EventsOwn
  <1>7. Windowed(dev', exists)
    BY <1>2, <1>3 DEF Windowed
  <1> DEFINE arm == <<[op |-> "arm", ev |-> e, direct |-> direct]>>
  <1>8. arm \in Seq(Frame)
    BY DEF Frame
  <1>9. /\ Arming(arm, dev') /\ Replaying(arm, dev') /\ Guarded(arm, mapped, dev')
        /\ NoReplay(arm)
    <2>1. DOMAIN arm = {1} /\ arm[1].op = "arm" /\ arm[1].ev = e
      OBVIOUS
    <2>2. dev'[e.dev].auto
      BY <1>3
    <2> HIDE DEF arm
    <2> QED BY <1>2, <2>1, <2>2 DEF Arming, Replaying, Guarded, NoReplay
  <1>10. Plays \in Seq(Frame)
    BY PlaysPlain
  <1>11. stack' = Plays \o (arm \o rest)
    <2>1. stack' = Plays \o arm \o rest
      BY <1>1
    <2> HIDE DEF arm
    <2> QED BY <1>8, <1>10, <2>1
  <1> HIDE DEF arm
  <1>12. NoReplay(rest) /\ Arming(rest, dv) /\ Guarded(rest, mapped, dv)
    BY DEF Below
  <1>13. /\ Arming(arm \o rest, dev') /\ Guarded(arm \o rest, mapped, dev')
    BY <1>4, <1>8, <1>9, <1>12, PushHolds
  <1>14. arm \o rest \in Seq(Frame)
    BY <1>8
  <1>15. NoReplay(arm \o rest)
    <2> SUFFICES ASSUME NEW i \in DOMAIN (arm \o rest)
                 PROVE  (arm \o rest)[i].op # "replay"
      BY DEF NoReplay
    <2>1. CASE i \in 1 .. Len(arm)
      BY <1>8, <1>9, <2>1 DEF NoReplay
    <2>2. CASE i \notin 1 .. Len(arm)
      <3>1. i - Len(arm) \in DOMAIN rest /\ (arm \o rest)[i] = rest[i - Len(arm)]
        BY <1>8, <2>2
      <3> QED BY <1>12, <3>1 DEF NoReplay
    <2> QED BY <2>1, <2>2
  <1>16. Below(arm \o rest, dev')
    BY <1>13, <1>15 DEF Below
  <1>17. Fit(dev')
    BY <1>5, <1>6, <1>7 DEF Fit
  <1>18. Sound(dev', Plays \o (arm \o rest))
    <2>1. Onward(dev', dev', mapped)
      BY OnwardSame
    <2> QED BY <1>14, <1>16, <1>17, <2>1, PlaysSound
  <1> QED BY <1>11, <1>18

LEMMA DeliverDeviceEventsSound ==
    ASSUME NEW dv \in Devices, NEW d \in Device, NEW e, NEW rest \in Seq(Frame),
           mapped \subseteq exists, Fit(dv), Below(rest, dv),
           d = Pointer /\ e.kind = "press" => dv[d].down # {},
           DeliverDeviceEvents(dv, d, e, rest)
    PROVE  Sound(dev', stack')
  <1>1. CASE dev' = dv /\ stack' = rest
    <2>1. Onward(dv, dv, mapped)
      BY OnwardSame
    <2> QED BY <1>1, <2>1, PlaysSound
  <1>2. CASE ~(dev' = dv /\ stack' = rest)
    <2>1. PICK s \in Selections :
            /\ s[2] \in mapped /\ d = Pointer /\ e.kind = "press"
            /\ dev' = ActivateGrab(dv, d, ButtonGrab(s), TRUE) /\ stack' = Plays \o rest
      BY <1>2 DEF DeliverDeviceEvents, ButtonGrab
    <2>2. ButtonGrab(s) \in Grab /\ ButtonGrab(s).win \in mapped
      BY <2>1, ButtonGrabHolds
    <2>3. Begun(dv, dev', d, ButtonGrab(s), TRUE)
      BY <2>1, <2>2, ActivateLeaves
    <2>4. Onward(dv, dev', mapped)
      BY <2>2, <2>3 DEF Onward, Begun
    <2>5. ButtonDown(dev')
      BY <2>1, <2>3, DevicesAssumption DEF ButtonDown, Begun
    <2>6. EventsOwn(dev')
      BY <2>3 DEF EventsOwn, Begun, Fit
    <2>7. Windowed(dev', exists)
      BY <2>2, <2>3 DEF Windowed, Begun, Fit
    <2>8. Fit(dev')
      BY <2>5, <2>6, <2>7 DEF Fit
    <2> QED BY <2>1, <2>4, <2>8, PlaysSound
  <1> QED BY <1>1, <1>2

LEMMA KeyedLeaves ==
    ASSUME dev \in Devices, NEW d \in Device, NEW e \in Event, NEW x \in Device
    PROVE  LET k == Keyed(d, e)[x]
               r == dev[x]
           IN /\ k.event = r.event /\ k.grabbed = r.grabbed /\ k.grab = r.grab
              /\ k.auto = r.auto /\ k.state = r.state
              /\ x # d => k.down = r.down
              /\ x = d => CASE e.kind = "press"   -> k.down = r.down \cup {e.detail}
                            [] e.kind = "release" -> k.down = r.down \ {e.detail}
                            [] OTHER -> k.down = r.down
  <1> DEFINE n == CASE e.kind = "press"   -> dev[d].down \cup {e.detail}
                    [] e.kind = "release" -> dev[d].down \ {e.detail}
                    [] OTHER -> dev[d].down
             k == WithDown(dev, d, n)[x]
  <1>1. Keyed(d, e)[x] = k
    BY DEF Keyed, WithDown
  <1> HIDE DEF n
  <1>2. /\ k.down = IF x = d THEN n ELSE dev[x].down
        /\ k.event = dev[x].event /\ k.grabbed = dev[x].grabbed /\ k.grab = dev[x].grab
        /\ k.auto = dev[x].auto /\ k.state = dev[x].state
    BY DownLeaves
  <1> HIDE DEF k
  <1>3. x # d => k.down = dev[x].down
    BY <1>2
  <1>4. x = d => CASE e.kind = "press"   -> k.down = dev[x].down \cup {e.detail}
                   [] e.kind = "release" -> k.down = dev[x].down \ {e.detail}
                   [] OTHER -> k.down = dev[x].down
    BY <1>2 DEF n
  <1> QED BY <1>1, <1>2, <1>3, <1>4

\* The keys are noted.
LEMMA KeyedFits ==
    ASSUME dev \in Devices, NEW d \in Device, NEW e \in Event, Fit(dev)
    PROVE  LET k == Keyed(d, e)
           IN /\ EventsOwn(k) /\ Windowed(k, exists) /\ Onward(dev, k, mapped)
              /\ d # Pointer => ButtonDown(k)
              /\ d = Pointer /\ e.kind = "press" => k[d].down # {}
  <1> DEFINE k == Keyed(d, e)
  <1>1. ASSUME NEW x \in Device
        PROVE  /\ k[x].event = dev[x].event /\ k[x].grabbed = dev[x].grabbed
               /\ k[x].grab = dev[x].grab /\ k[x].auto = dev[x].auto
               /\ k[x].state = dev[x].state /\ (x # d => k[x].down = dev[x].down)
               /\ x = d /\ e.kind = "press" => k[x].down = dev[x].down \cup {e.detail}
    BY KeyedLeaves
  <1> HIDE DEF k
  <1>2. EventsOwn(k) /\ Windowed(k, exists) /\ Onward(dev, k, mapped)
    BY <1>1 DEF EventsOwn, Windowed, Onward, Fit
  <1>3. d # Pointer => ButtonDown(k)
    BY <1>1, DevicesAssumption DEF ButtonDown, Fit
  <1>4. d = Pointer /\ e.kind = "press" => k[d].down # {}
    BY <1>1
  <1> QED BY <1>2, <1>3, <1>4 DEF k

LEMMA BelowOnward ==
    ASSUME NEW rest \in Seq(Frame), NEW dv, NEW dw, Onward(dv, dw, mapped), Below(rest, dv)
    PROVE  Below(rest, dw)
  <1>1. NoReplay(rest) /\ Arming(rest, dv) /\ Guarded(rest, mapped, dv)
    BY DEF Below
  <1>2. \A i \in DOMAIN rest : rest[i].op = "arm" => rest[i].ev.dev \in Device
    BY FrameParts
  <1>3. Arming(rest, dw)
    BY <1>1, <1>2 DEF Arming, Onward
  <1>4. Guarded(rest, mapped, dw)
    BY <1>1 DEF Guarded, Swept, Onward
  <1> QED BY <1>1, <1>3, <1>4 DEF Below

LEMMA FreezeEvents ==
    ASSUME NEW dv \in Devices, NEW d \in Device, NEW e \in Event, NEW x \in Device
    PROVE  LET a == FreezeOnEvent(dv, d, e)
           IN a[x].event = dv[x].event \/ (x = d /\ a[x].event = e)
  <1> DEFINE old == dv[x]
             new == FreezeOnEvent(dv, d, e)[x]
  <1>1. old \in DeviceRecord
    BY DEF Devices
  <1>2. \/ new = old
        \/ x = d /\ new = [old EXCEPT !.state = "FROZEN_WITH_EVENT", !.frozen = TRUE,
                                      !.event = e]
        \/ \E s, o : new = [old EXCEPT !.frozen = TRUE, !.state = s, !.other = o]
    BY DEF FreezeOnEvent
  <1> HIDE DEF old, new
  <1>3. new.event = old.event \/ (x = d /\ new.event = e)
    BY <1>1, <1>2 DEF DeviceRecord
  <1> QED BY <1>3 DEF old, new

LEMMA DeliverSound ==
    ASSUME dev \in Devices, HeldByGrab(dev), FrozenIsHeld(dev), Fit(dev),
           NEW d \in Device, NEW e \in Event, e.dev = d, ~dev[d].frozen,
           NEW rest \in Seq(Frame), Below(rest, dev), Deliver(d, e, rest)
    PROVE  Sound(dev', stack')
  <1> DEFINE k == Keyed(d, e)
  <1>1. k \in Devices
    BY KeyedHolds
  <1>2. ASSUME NEW x \in Device
        PROVE  /\ k[x].event = dev[x].event /\ k[x].grabbed = dev[x].grabbed
               /\ k[x].grab = dev[x].grab /\ k[x].auto = dev[x].auto
               /\ k[x].state = dev[x].state
               /\ x # d => k[x].down = dev[x].down
               /\ x = d => CASE e.kind = "press"   -> k[x].down = dev[x].down \cup {e.detail}
                             [] e.kind = "release" -> k[x].down = dev[x].down \ {e.detail}
                             [] OTHER -> k[x].down = dev[x].down
    BY KeyedLeaves
  <1>3. /\ EventsOwn(k) /\ Windowed(k, exists) /\ Onward(dev, k, mapped)
        /\ d # Pointer => ButtonDown(k)
    BY KeyedFits
  <1> HIDE DEF k
  <1>4. Below(rest, k)
    BY <1>3, BelowOnward
  <1>5. dev[d].state # "FROZEN_WITH_EVENT"
    BY DEF FrozenIsHeld, Frozen
  <1>6. CASE Ends(d, e)
    <2>1. dev' = DeactivateGrab(k, d) /\ stack' = Plays \o rest
      BY <1>6 DEF Deliver, k
    <2>2. Tame(k, dev') /\ ~dev'[d].grabbed
      BY <1>1, <2>1, DeactivateTame
    <2>3. /\ Onward(k, dev', mapped) /\ EventsOwn(dev') /\ Windowed(dev', exists)
          /\ ButtonDown(k) => ButtonDown(dev')
      BY <1>3, <2>2, TameHolds
    <2>4. ButtonDown(dev')
      <3>1. CASE d = Pointer
        <4>1. ~dev'[d].grabbed /\ dev'[d].state # "FROZEN_WITH_EVENT"
          BY <1>2, <1>5, <2>2 DEF Tame
        <4> QED BY <3>1, <4>1 DEF ButtonDown
      <3>2. CASE d # Pointer
        BY <1>3, <2>3, <3>2
      <3> QED BY <3>1, <3>2
    <2>5. Fit(dev')
      BY <2>3, <2>4 DEF Fit
    <2> QED BY <1>4, <2>1, <2>3, <2>5, PlaysSound
  <1>7. CASE ~Ends(d, e)
    <2>1. dev' = k \/ dev' = FreezeOnEvent(k, d, e)
      BY <1>7 DEF Deliver, k
    <2>2. stack' = rest
      <3>1. stack' = <<>> \o rest
        BY <1>7 DEF Deliver
      <3> QED BY <3>1
    <2>3. ASSUME NEW x \in Device
          PROVE  /\ dev'[x].down = k[x].down /\ dev'[x].grabbed = k[x].grabbed
                 /\ dev'[x].grab = k[x].grab /\ dev'[x].auto = k[x].auto
                 /\ dev'[x].state = "FROZEN_WITH_EVENT" =>
                      \/ x = d /\ dev'[x].event = e
                      \/ k[x].state = "FROZEN_WITH_EVENT" /\ dev'[x].event = k[x].event
      <3>1. CASE dev' = k
        BY <3>1
      <3>2. CASE dev' = FreezeOnEvent(k, d, e)
        BY <1>1, <3>2, FreezeLeaves
      <3> QED BY <2>1, <3>1, <3>2
    <2>4. EventsOwn(dev')
      <3>1. \A x \in Device : dev'[x].event = k[x].event \/ (x = d /\ dev'[x].event = e)
        BY <1>1, <2>1, FreezeEvents
      <3> QED BY <1>3, <3>1 DEF EventsOwn
    <2>5. Onward(k, dev', mapped) /\ Windowed(dev', exists)
      BY <1>3, <2>3 DEF Onward, Windowed
    <2>6. ButtonDown(dev')
      <3>1. CASE d = Pointer
        <4>1. dev'[d].grabbed /\ dev'[d].auto => dev'[d].down # {}
          <5>1. ASSUME dev[d].grabbed, dev[d].auto
                PROVE  k[d].down # {}
            <6>1. dev[d].down # {}
              BY <3>1, <5>1 DEF Fit, ButtonDown
            <6>2. e.kind = "release" => ~(dev[d].down \subseteq {e.detail})
              BY <1>7, <3>1, <5>1 DEF Ends
            <6>3. CASE e.kind = "release"
              <7>1. k[d].down = dev[d].down \ {e.detail}
                BY <1>2, <6>3
              <7> QED BY <6>2, <6>3, <7>1
            <6>4. CASE e.kind = "press"
              <7>1. k[d].down = dev[d].down \cup {e.detail}
                BY <1>2, <6>4
              <7> QED BY <7>1
            <6>5. CASE e.kind \notin {"press", "release"}
              <7>1. k[d].down = dev[d].down
                BY <1>2, <6>5
              <7> QED BY <6>1, <7>1
            <6> QED BY <6>3, <6>4, <6>5
          <5> QED BY <1>2, <2>3, <5>1
        <4>2. dev'[d].state = "FROZEN_WITH_EVENT" /\ dev'[d].event.kind = "press"
                => dev'[d].down # {}
          <5> SUFFICES ASSUME dev'[d].state = "FROZEN_WITH_EVENT", dev'[d].event.kind = "press"
                       PROVE  dev'[d].down # {}
            OBVIOUS
          <5>1. k[d].state # "FROZEN_WITH_EVENT"
            BY <1>2, <1>5
          <5>2. e.kind = "press"
            BY <2>3, <5>1
          <5>3. k[d].down = dev[d].down \cup {e.detail}
            BY <1>2, <5>2
          <5> QED BY <2>3, <5>3
        <4> QED BY <3>1, <4>1, <4>2 DEF ButtonDown
      <3>2. CASE d # Pointer
        <4>1. ButtonDown(k)
          BY <1>3, <3>2
        <4> QED BY <2>3, <3>2, <4>1, DevicesAssumption DEF ButtonDown
      <3> QED BY <3>1, <3>2
    <2>7. Fit(dev')
      BY <2>4, <2>5, <2>6 DEF Fit
    <2> QED BY <1>4, <2>2, <2>5, <2>7, PlaysSound
  <1> QED BY <1>6, <1>7

LEMMA HandleSound ==
    ASSUME dev \in Devices, HeldByGrab(dev), FrozenIsHeld(dev), Fit(dev),
           passive \subseteq PassiveGrabs, mapped \subseteq exists,
           NEW d \in Device, NEW e \in Event, e.dev = d, ~dev[d].frozen,
           NEW rest \in Seq(Frame), Below(rest, dev), Handle(d, e, rest)
    PROVE  Sound(dev', stack')
  <1>1. CASE Ignored(d, e)
    <2>1. dev' = dev /\ stack' = rest
      BY <1>1 DEF Handle
    <2>2. Onward(dev, dev, mapped)
      BY OnwardSame
    <2>3. Sound(dev, rest)
      BY <2>2, PlaysSound
    <2> QED BY <2>1, <2>3
  <1>2. CASE ~Ignored(d, e) /\ ~dev[d].grabbed /\ Caught(Keyed(d, e), d, e, 1) # {}
    <2> DEFINE k == Keyed(d, e)
    <2>1. CheckDeviceGrabs(k, d, e, 1, TRUE, rest) /\ e.kind = "press"
      BY <1>2 DEF Handle, Caught
    <2>2. k \in Devices
      BY KeyedHolds
    <2>3. /\ EventsOwn(k) /\ Windowed(k, exists) /\ Onward(dev, k, mapped)
          /\ d # Pointer => ButtonDown(k)
          /\ d = Pointer => k[d].down # {}
      BY <2>1, KeyedFits
    <2> HIDE DEF k
    <2>4. Below(rest, k)
      BY <2>3, BelowOnward
    <2>5. TRUE \in BOOLEAN
      OBVIOUS
    <2> QED BY <2>1, <2>2, <2>3, <2>4, <2>5, CheckDeviceGrabsSound
  <1>3. CASE ~Ignored(d, e) /\ dev[d].grabbed
    <2>1. Deliver(d, e, rest)
      BY <1>3 DEF Handle
    <2> QED BY <2>1, DeliverSound
  <1>4. CASE ~Ignored(d, e) /\ ~dev[d].grabbed /\ ~(Caught(Keyed(d, e), d, e, 1) # {})
    <2> DEFINE k == Keyed(d, e)
    <2>1. DeliverDeviceEvents(k, d, e, rest)
      BY <1>4 DEF Handle
    <2>2. k \in Devices
      BY KeyedHolds
    <2>3. /\ EventsOwn(k) /\ Windowed(k, exists) /\ Onward(dev, k, mapped)
          /\ d # Pointer => ButtonDown(k)
          /\ d = Pointer /\ e.kind = "press" => k[d].down # {}
      BY KeyedFits
    <2>4. k[d].grabbed = dev[d].grabbed /\ k[d].state = dev[d].state
      BY KeyedLeaves
    <2>5. dev[d].state # "FROZEN_WITH_EVENT"
      BY DEF FrozenIsHeld, Frozen
    <2> HIDE DEF k
    <2>6. ButtonDown(k)
      BY <1>4, <2>3, <2>4, <2>5 DEF ButtonDown
    <2>7. Fit(k)
      BY <2>3, <2>6 DEF Fit
    <2>8. Below(rest, k)
      BY <2>3, BelowOnward
    <2> QED BY <2>1, <2>2, <2>3, <2>7, <2>8, DeliverDeviceEventsSound
  <1> QED BY <1>1, <1>2, <1>3, <1>4

LEMMA ProcessSound ==
    ASSUME dev \in Devices, HeldByGrab(dev), FrozenIsHeld(dev), Fit(dev),
           passive \subseteq PassiveGrabs, mapped \subseteq exists,
           NEW e \in Event, ~dev[e.dev].frozen,
           NEW rest \in Seq(Frame), Below(rest, dev), Process(e, rest)
    PROVE  Sound(dev', stack')
  <1> DEFINE d == e.dev
             half == [e EXCEPT !.kind = "release"]
             again == <<[op |-> "again", ev |-> e]>>
  <1>1. d \in Device /\ half \in Event /\ half.dev = d
    BY DEF Event
  <1>2. CASE d = Keyboard /\ e.kind = "press" /\ e.detail \in dev[d].down
    <2>1. Handle(d, half, again \o rest)
      BY <1>2 DEF Process
    <2>2. again \in Seq(Frame) /\ Plain(again)
      BY DEF Frame, Plain
    <2> HIDE DEF d, half, again
    <2>3. Sound(dev, again \o rest)
      <3>1. Onward(dev, dev, mapped)
        BY OnwardSame
      <3> QED BY <2>2, <3>1, PlainSound
    <2>4. again \o rest \in Seq(Frame)
      BY <2>2
    <2>5. NoReplay(again \o rest)
      <3> SUFFICES ASSUME NEW i \in DOMAIN (again \o rest)
                   PROVE  (again \o rest)[i].op # "replay"
        BY DEF NoReplay
      <3>1. CASE i \in 1 .. Len(again)
        BY <2>2, <3>1 DEF Plain
      <3>2. CASE i \notin 1 .. Len(again)
        <4>1. i - Len(again) \in DOMAIN rest /\ (again \o rest)[i] = rest[i - Len(again)]
          BY <2>2, <3>2
        <4> QED BY <4>1 DEF Below, NoReplay
      <3> QED BY <3>1, <3>2
    <2>6. Below(again \o rest, dev)
      BY <2>3, <2>5 DEF Below, Sound
    <2>7. ~dev[d].frozen
      BY DEF d
    <2> QED BY <1>1, <2>1, <2>4, <2>6, <2>7, HandleSound
  <1>3. CASE ~(d = Keyboard /\ e.kind = "press" /\ e.detail \in dev[d].down)
    <2>1. Handle(d, e, rest)
      BY <1>3 DEF Process
    <2> QED BY <1>1, <2>1, HandleSound
  <1> QED BY <1>2, <1>3

-----------------------------------------------------------------------------
(* The steps.                                                              *)

LEMMA EndInitially == Init => EndInv
  <1> SUFFICES ASSUME Init PROVE EndInv
    OBVIOUS
  <1>1. \A d \in Device : /\ ~dev[d].grabbed /\ dev[d].state = "NOT_GRABBED"
                          /\ dev[d].event.kind = "none"
    BY DEF Init, NoEvent
  <1>2. ButtonDown(dev)
    BY <1>1, DevicesAssumption DEF ButtonDown
  <1>3. EventsOwn(dev) /\ Windowed(dev, exists)
    BY <1>1 DEF EventsOwn, Windowed
  <1>4. Arming(stack, dev) /\ Replaying(stack, dev) /\ Guarded(stack, mapped, dev)
    BY NothingPlain, PlainCalls DEF Init
  <1>5. mapped \subseteq exists
    BY DEF Init
  <1> QED BY <1>2, <1>3, <1>4, <1>5 DEF EndInv, Sound

LEMMA SoundNext ==
    ASSUME EndInv, UNCHANGED <<exists, mapped>>, Sound(dev', stack')
    PROVE  EndInv'
  BY DEF EndInv, Sound

LEMMA SoundFits == EndInv => Fit(dev)
  BY DEF EndInv, Sound, Fit

LEMMA WorldKept ==
    ASSUME UNCHANGED world
    PROVE  UNCHANGED <<exists, mapped>>
  BY DEF world

\* A call that changes nothing the others look at returns.
LEMMA BelowTop ==
    ASSUME IInv, EndInv, stack # <<>>, Head(stack).op \notin {"kill", "unmap"}
    PROVE  Tail(stack) \in Seq(Frame) /\ Below(Tail(stack), dev)
  <1>1. stack \in Seq(Frame)
    BY WorldParts
  <1>2. \A d \in Device : Head(stack) # KillOf(d, dev[d].grab.win)
    BY DEF KillOf
  <1>3. Onward(dev, dev, mapped)
    BY OnwardSame
  <1>4. Arming(stack, dev) /\ Replaying(stack, dev) /\ Guarded(stack, mapped, dev)
    BY DEF EndInv, Sound
  <1>5. mapped = IF Head(stack).op = "unmap" THEN mapped \ {Head(stack).win} ELSE mapped
    OBVIOUS
  <1>6. /\ NoReplay(Tail(stack)) /\ Arming(Tail(stack), dev)
        /\ Guarded(Tail(stack), mapped, dev)
    BY <1>1, <1>2, <1>3, <1>4, <1>5, PopHolds
  <1> QED BY <1>1, <1>6 DEF Below

LEMMA BelowIdle ==
    ASSUME NEW dv
    PROVE  <<>> \in Seq(Frame) /\ Below(<<>>, dv)
  BY NothingPlain, PlainCalls DEF Below

LEMMA BelowStack ==
    ASSUME IInv, EndInv, stack # <<>>, Head(stack).op # "replay"
    PROVE  stack \in Seq(Frame) /\ Below(stack, dev)
  <1>1. stack \in Seq(Frame)
    BY WorldParts
  <1>2. Arming(stack, dev) /\ Replaying(stack, dev) /\ Guarded(stack, mapped, dev)
    BY DEF EndInv, Sound
  <1>3. NoReplay(stack)
    BY <1>1, <1>2, NoReplayHere
  <1> QED BY <1>1, <1>2, <1>3 DEF Below

LEMMA EventSound ==
    ASSUME IInv, EndInv, NEW e \in Event, NEW rest \in Seq(Frame), Below(rest, dev),
           ~dev[e.dev].frozen, Process(e, rest)
    PROVE  Sound(dev', stack')
  <1>1. /\ dev \in Devices /\ HeldByGrab(dev) /\ FrozenIsHeld(dev)
        /\ passive \subseteq PassiveGrabs
    BY WorldParts
  <1>2. mapped \subseteq exists
    BY DEF EndInv
  <1> QED BY <1>1, <1>2, SoundFits, ProcessSound

LEMMA InputProcSound ==
    ASSUME IInv, EndInv, NEW e \in Event, NEW rest \in Seq(Frame), Below(rest, dev),
           ProcessInputProc(e, rest)
    PROVE  Sound(dev', stack')
  <1>1. CASE dev[e.dev].frozen
    <2>1. dev' = dev /\ stack' = rest
      BY <1>1 DEF ProcessInputProc
    <2>2. Sound(dev, rest)
      BY OnwardSame, SoundFits, PlaysSound
    <2> QED BY <2>1, <2>2
  <1>2. CASE ~dev[e.dev].frozen
    <2>1. Process(e, rest)
      BY <1>2 DEF ProcessInputProc
    <2> QED BY <1>2, <2>1, EventSound
  <1> QED BY <1>1, <1>2

\* A step that lets go of devices and plays.
LEMMA TameSound ==
    ASSUME EndInv, Tame(dev, dev'), NEW rest \in Seq(Frame), Below(rest, dev)
    PROVE  Sound(dev', Plays \o rest) /\ Sound(dev', rest)
  <1>1. Fit(dev)
    BY SoundFits
  <1>2. Onward(dev, dev', mapped) /\ Fit(dev')
    BY <1>1, TameHolds DEF Fit
  <1> QED BY <1>2, PlaysSound

LEMMA TameRequest ==
    ASSUME EndInv, Tame(dev, dev'), stack' = Plays
    PROVE  Sound(dev', stack')
  <1>1. Plays \in Seq(Frame)
    BY PlaysPlain
  <1>2. Plays \o <<>> = Plays
    BY <1>1
  <1> QED BY <1>2, BelowIdle, TameSound

LEMMA EndInputStep ==
    ASSUME IInv, EndInv, NEW d \in Device, NEW kind \in {"press", "release", "motion"},
           NEW b \in Detail, Input(d, kind, b)
    PROVE  EndInv'
  <1> DEFINE e == [dev |-> d, kind |-> kind, detail |-> b, n |-> sent[d] + 1]
  <1>1. ProcessInputProc(e, <<>>) /\ UNCHANGED world
    BY DEF Input
  <1>2. e \in Event
    <2>1. sent[d] + 1 \in Nat
      BY DEF IInv, TypeOK
    <2> QED BY <2>1 DEF Event
  <1> HIDE DEF e
  <1>3. Sound(dev', stack')
    BY <1>1, <1>2, BelowIdle, InputProcSound
  <1> QED BY <1>1, <1>3, WorldKept, SoundNext

LEMMA EndAgainStep ==
    ASSUME IInv, EndInv, Again
    PROVE  EndInv'
  <1>1. /\ stack # <<>> /\ Head(stack).op = "again" /\ UNCHANGED world
        /\ ProcessInputProc(Head(stack).ev, Tail(stack))
    BY DEF Again
  <1>2. Tail(stack) \in Seq(Frame) /\ Below(Tail(stack), dev)
    BY <1>1, BelowTop
  <1>3. Head(stack).ev \in Event
    BY <1>1, Under, FrameParts
  <1>4. Sound(dev', stack')
    BY <1>1, <1>2, <1>3, InputProcSound
  <1> QED BY <1>1, <1>4, WorldKept, SoundNext

LEMMA EndPlayStep ==
    ASSUME IInv, EndInv, PlayReleasedEvents
    PROVE  EndInv'
  <1>1. /\ stack # <<>> /\ Head(stack).op = "play" /\ UNCHANGED world
    BY DEF PlayReleasedEvents
  <1>2. PICK i \in DOMAIN pending : IsNext(i) /\ Process(pending[i], stack)
    BY DEF PlayReleasedEvents
  <1>3. pending[i] \in Event /\ ~dev[pending[i].dev].frozen
    BY <1>2 DEF IsNext, IInv, TypeOK
  <1>4. stack \in Seq(Frame) /\ Below(stack, dev)
    BY <1>1, BelowStack
  <1>5. Sound(dev', stack')
    BY <1>2, <1>3, <1>4, EventSound
  <1> QED BY <1>1, <1>5, WorldKept, SoundNext

LEMMA EndPlayDoneStep ==
    ASSUME IInv, EndInv, PlayDone
    PROVE  EndInv'
  <1>1. /\ stack # <<>> /\ Head(stack).op = "play" /\ stack' = Tail(stack)
        /\ dev' = dev /\ UNCHANGED world
    BY DEF PlayDone
  <1>2. Tail(stack) \in Seq(Frame) /\ Below(Tail(stack), dev)
    BY <1>1, BelowTop
  <1>3. Sound(dev, Tail(stack))
    BY <1>2, OnwardSame, SoundFits, PlaysSound
  <1> QED BY <1>1, <1>3, WorldKept, SoundNext

\* The press kept is that of an automatic grab, whose button is down.
LEMMA EndArmStep ==
    ASSUME IInv, EndInv, Arm
    PROVE  EndInv'
  <1> DEFINE e == Head(stack).ev
             d == e.dev
             keeps == dev[d].state = "FROZEN_NO_EVENT"
  <1>1. /\ stack # <<>> /\ Head(stack).op = "arm" /\ stack' = Tail(stack)
        /\ UNCHANGED world
    BY DEF Arm
  <1>2. /\ dev \in Devices /\ HeldByGrab(dev) /\ stack \in Seq(Frame)
    BY WorldParts
  <1>3. e \in Event /\ d \in Device
    BY <1>1, Under, FrameParts
  <1>4. e.kind = "press" /\ (dev[d].grabbed => dev[d].auto)
    <2>1. 1 \in DOMAIN stack /\ stack[1] = Head(stack)
      BY <1>1, <1>2
    <2>2. Arming(stack, dev)
      BY DEF EndInv, Sound
    <2> QED BY <1>1, <2>1, <2>2 DEF Arming
  <1>5. ASSUME NEW x \in Device
        PROVE  /\ dev'[x].down = dev[x].down /\ dev'[x].grabbed = dev[x].grabbed
               /\ dev'[x].grab = dev[x].grab /\ dev'[x].auto = dev[x].auto
               /\ \/ dev'[x].state = dev[x].state /\ dev'[x].event = dev[x].event
                  \/ x = d /\ keeps /\ dev'[x].event = e
    <2> DEFINE old == dev[x]
               new == dev'[x]
               k == e.detail
    <2>1. old \in DeviceRecord
      BY <1>2 DEF Devices
    <2>2. \/ new = old
          \/ new = [old EXCEPT !.activating = k]
          \/ x = d /\ keeps /\ new = [old EXCEPT !.state = "FROZEN_WITH_EVENT", !.event = e]
          \/ x = d /\ keeps
             /\ new = [[old EXCEPT !.state = "FROZEN_WITH_EVENT", !.event = e]
                        EXCEPT !.activating = k]
      <3> DEFINE dv == IF keeps
                       THEN [dev EXCEPT ![d].state = "FROZEN_WITH_EVENT", ![d].event = e]
                       ELSE dev
      <3>1. dev' = IF Head(stack).direct /\ d # Pointer
                   THEN [dv EXCEPT ![d].activating = e.detail] ELSE dv
        BY DEF Arm
      <3>2. dv[x] = IF x = d /\ keeps
                    THEN [old EXCEPT !.state = "FROZEN_WITH_EVENT", !.event = e]
                    ELSE old
        BY <1>2, <1>3 DEF Devices
      <3>3. DOMAIN dv = Device
        BY <1>2 DEF Devices
      <3> HIDE DEF dv, e, d, old, keeps
      <3>4. new = dv[x] \/ new = [dv[x] EXCEPT !.activating = k]
        BY <3>1, <3>3 DEF k
      <3> QED BY <3>2, <3>4
    <2> HIDE DEF old, new, k, e, d, keeps
    <2>3. /\ new.down = old.down /\ new.grabbed = old.grabbed
          /\ new.grab = old.grab /\ new.auto = old.auto
          /\ \/ new.state = old.state /\ new.event = old.event
             \/ x = d /\ keeps /\ new.event = e
      BY <2>1, <2>2 DEF DeviceRecord
    <2> QED BY <2>3 DEF old, new
  <1>6. keeps => dev[d].grabbed /\ dev[d].auto
    BY <1>2, <1>3, <1>4 DEF HeldByGrab
  <1> HIDE DEF e, d, keeps
  <1>7. Fit(dev)
    BY SoundFits
  <1>8. Onward(dev, dev', mapped)
    BY <1>5 DEF Onward
  <1>9. EventsOwn(dev')
    BY <1>5, <1>7 DEF EventsOwn, Fit, d
  <1>10. Windowed(dev', exists)
    BY <1>5, <1>7 DEF Windowed, Fit
  <1>11. ButtonDown(dev')
    BY <1>5, <1>6, <1>7, DevicesAssumption DEF ButtonDown, Fit
  <1>12. Tail(stack) \in Seq(Frame) /\ Below(Tail(stack), dev)
    BY <1>1, BelowTop
  <1>13. Sound(dev', stack')
    BY <1>1, <1>8, <1>9, <1>10, <1>11, <1>12, PlaysSound DEF Fit
  <1> QED BY <1>1, <1>13, WorldKept, SoundNext

LEMMA EndReplayStep ==
    ASSUME IInv, EndInv, Replay
    PROVE  EndInv'
  <1> DEFINE h == Head(stack)
             d == h.dev
             w == h.win
             e == dev[d].event
  <1>1. stack # <<>> /\ h.op = "replay" /\ UNCHANGED world
    BY DEF Replay
  <1>2. /\ dev \in Devices /\ passive \subseteq PassiveGrabs /\ stack \in Seq(Frame)
        /\ mapped \subseteq exists
    BY WorldParts DEF EndInv
  <1>3. d \in Device
    BY <1>1, Under, FrameParts
  <1>4. Tail(stack) \in Seq(Frame) /\ Below(Tail(stack), dev)
    BY <1>1, BelowTop
  <1>5. CASE w \in mapped /\ Caught(dev, d, e, w + 1) # {}
    <2>1. CheckDeviceGrabs(dev, d, e, w + 1, FALSE, Tail(stack))
      BY <1>5 DEF Replay
    <2>2. e.kind = "press"
      BY <1>5 DEF Caught
    <2>3. e \in Event
      <3>1. dev[d] \in DeviceRecord
        BY <1>2, <1>3 DEF Devices
      <3>2. e \in Event \cup {NoEvent}
        BY <3>1 DEF DeviceRecord
      <3>3. NoEvent.kind # "press"
        BY DEF NoEvent
      <3> QED BY <2>2, <3>2, <3>3
    <2>4. ButtonDown(dev) /\ EventsOwn(dev) /\ Windowed(dev, exists)
      BY DEF EndInv, Sound
    <2>5. e.dev = d
      BY <1>3, <2>2, <2>4 DEF EventsOwn
    <2>6. d = Pointer => dev[d].down # {}
      <3>1. 1 \in DOMAIN stack /\ stack[1] = Head(stack)
        BY <1>1, <1>2
      <3>2. Replaying(stack, dev)
        BY DEF EndInv, Sound
      <3> QED BY <1>1, <2>2, <3>1, <3>2 DEF Replaying
    <2>7. FALSE \in BOOLEAN
      OBVIOUS
    <2> HIDE DEF h, d, w, e
    <2>8. Sound(dev', stack')
      BY <1>2, <1>3, <1>4, <2>1, <2>3, <2>4, <2>5, <2>6, <2>7, CheckDeviceGrabsSound
    <2> QED BY <1>1, <2>8, WorldKept, SoundNext
  <1>6. CASE ~(w \in mapped /\ Caught(dev, d, e, w + 1) # {})
    <2>1. DeliverDeviceEvents(dev, d, e, Tail(stack))
      BY <1>6 DEF Replay
    <2>2. Fit(dev)
      BY SoundFits
    <2>3. d = Pointer /\ e.kind = "press" => dev[d].down # {}
      <3>1. 1 \in DOMAIN stack /\ stack[1] = Head(stack)
        BY <1>1, <1>2
      <3>2. Replaying(stack, dev)
        BY DEF EndInv, Sound
      <3> QED BY <1>1, <3>1, <3>2 DEF Replaying
    <2> HIDE DEF h, d, w, e
    <2>4. Sound(dev', stack')
      BY <1>2, <1>3, <1>4, <2>1, <2>2, <2>3, DeliverDeviceEventsSound
    <2> QED BY <1>1, <2>4, WorldKept, SoundNext
  <1> QED BY <1>5, <1>6

LEMMA EndKillStep ==
    ASSUME IInv, EndInv, Kill
    PROVE  EndInv'
  <1> DEFINE h == Head(stack)
             d == h.dev
  <1>1. stack # <<>> /\ h.op = "kill" /\ UNCHANGED world
    BY DEF Kill
  <1>2. dev \in Devices /\ stack \in Seq(Frame) /\ Tail(stack) \in Seq(Frame)
    BY <1>1, WorldParts
  <1>3. d \in Device /\ h = KillOf(d, h.win)
    BY <1>1, Under, FrameParts
  <1>4. Tame(dev, dev') /\ ~(dev'[d].grabbed /\ dev'[d].grab.win = h.win)
    <2>1. CASE dev[d].grabbed /\ dev[d].grab.win = h.win
      <3>1. dev' = DeactivateGrab(dev, d)
        BY <2>1 DEF Kill
      <3> HIDE DEF h, d
      <3> QED BY <1>2, <1>3, <3>1, DeactivateTame
    <2>2. CASE ~(dev[d].grabbed /\ dev[d].grab.win = h.win)
      <3>1. dev' = dev
        BY <2>2 DEF Kill
      <3> QED BY <2>2, <3>1 DEF Tame
    <2> QED BY <2>1, <2>2
  <1>5. stack' = Plays \o Tail(stack) \/ stack' = Tail(stack)
    BY DEF Kill
  <1> HIDE DEF h, d
  <1>6. Fit(dev)
    BY SoundFits
  <1>7. Onward(dev, dev', mapped) /\ Fit(dev')
    BY <1>4, <1>6, TameHolds DEF Fit
  <1>8. ASSUME NEW x \in Device, dev'[x].grabbed
        PROVE  Head(stack) # KillOf(x, dev'[x].grab.win)
    <2>1. KillOf(x, dev'[x].grab.win).dev = x /\ KillOf(x, dev'[x].grab.win).win = dev'[x].grab.win
      BY DEF KillOf
    <2> QED BY <1>4, <1>8, <2>1 DEF h, d
  <1>9. Arming(stack, dev) /\ Replaying(stack, dev) /\ Guarded(stack, mapped, dev)
    BY DEF EndInv, Sound
  <1>10. mapped = IF Head(stack).op = "unmap" THEN mapped \ {Head(stack).win} ELSE mapped
    BY <1>1 DEF h
  <1>11. /\ NoReplay(Tail(stack)) /\ Arming(Tail(stack), dev')
         /\ Guarded(Tail(stack), mapped, dev')
    BY <1>1, <1>2, <1>7, <1>8, <1>9, <1>10, PopHolds
  <1>12. Below(Tail(stack), dev')
    BY <1>11 DEF Below
  <1>13. Sound(dev', stack')
    BY <1>2, <1>5, <1>7, <1>12, OnwardSame, PlaysSound
  <1> QED BY <1>1, <1>13, WorldKept, SoundNext

LEMMA EndUnmapStep ==
    ASSUME IInv, EndInv, Unmap
    PROVE  EndInv'
  <1>1. /\ stack # <<>> /\ Head(stack).op = "unmap" /\ stack' = Tail(stack)
        /\ mapped' = mapped \ {Head(stack).win} /\ UNCHANGED <<dev, exists>>
    BY DEF Unmap
  <1>2. stack \in Seq(Frame) /\ Fit(dev)
    BY WorldParts, SoundFits
  <1>3. \A d \in Device : Head(stack) # KillOf(d, dev[d].grab.win)
    BY <1>1 DEF KillOf
  <1>4. Onward(dev, dev, mapped')
    BY OnwardSame
  <1>5. Arming(stack, dev) /\ Replaying(stack, dev) /\ Guarded(stack, mapped, dev)
    BY DEF EndInv, Sound
  <1>6. mapped' = IF Head(stack).op = "unmap" THEN mapped \ {Head(stack).win} ELSE mapped
    BY <1>1
  <1>7. /\ NoReplay(Tail(stack)) /\ Arming(Tail(stack), dev)
        /\ Guarded(Tail(stack), mapped', dev)
    BY <1>1, <1>2, <1>3, <1>4, <1>5, <1>6, PopHolds
  <1>8. Replaying(Tail(stack), dev)
    BY <1>7 DEF NoReplay, Replaying
  <1>9. mapped' \subseteq exists
    BY <1>1 DEF EndInv
  <1> QED BY <1>1, <1>2, <1>7, <1>8, <1>9 DEF EndInv, Sound, Fit

\* The window that leaves the list is not in the trace, and no grab is on it.
LEMMA EndUnlistStep ==
    ASSUME IInv, EndInv, Unlist
    PROVE  EndInv'
  <1> DEFINE w == Head(stack).win
  <1>1. /\ stack # <<>> /\ Head(stack).op = "unlist" /\ stack' = Tail(stack)
        /\ exists' = exists \ {w} /\ UNCHANGED <<dev, mapped>>
    BY DEF Unlist
  <1>2. stack \in Seq(Frame) /\ Fit(dev)
    BY WorldParts, SoundFits
  <1>3. w \notin mapped /\ \A d \in Device : ~(dev[d].grabbed /\ dev[d].grab.win = w)
    <2>1. 1 \in DOMAIN stack /\ stack[1] = Head(stack)
      BY <1>1, <1>2
    <2>2. IF w \in mapped THEN Cleared(stack, 1, w) ELSE Swept(stack, 1, w, dev)
      BY <1>1, <2>1 DEF EndInv, Sound, Guarded
    <2>3. 1 .. 1 - 1 = {}
      OBVIOUS
    <2> QED BY <2>2, <2>3 DEF Cleared, Swept
  <1> HIDE DEF w
  <1>4. mapped' \subseteq exists'
    BY <1>1, <1>3 DEF EndInv
  <1>5. Windowed(dev, exists')
    BY <1>1, <1>2, <1>3 DEF Windowed, Fit
  <1>6. Tail(stack) \in Seq(Frame) /\ Below(Tail(stack), dev)
    BY <1>1, BelowTop
  <1>7. /\ Arming(Tail(stack), dev) /\ Replaying(Tail(stack), dev)
        /\ Guarded(Tail(stack), mapped, dev)
    BY <1>6 DEF Below, NoReplay, Replaying
  <1> QED BY <1>1, <1>2, <1>4, <1>5, <1>7 DEF EndInv, Sound, Fit

LEMMA EndReleaseStep ==
    ASSUME IInv, EndInv, ReleaseActiveGrabs
    PROVE  EndInv'
  <1>1. /\ stack # <<>> /\ Head(stack).op = "release" /\ UNCHANGED <<exists, mapped>>
    BY DEF ReleaseActiveGrabs
  <1>2. \/ \E d \in Device : dev' = DeactivateGrab(dev, d) /\ stack' = Plays \o stack
        \/ stack' = Tail(stack) /\ dev' = dev
    BY DEF ReleaseActiveGrabs
  <1>3. ASSUME NEW d \in Device, dev' = DeactivateGrab(dev, d), stack' = Plays \o stack
        PROVE  Sound(dev', stack')
    <2>1. stack \in Seq(Frame) /\ Below(stack, dev)
      BY <1>1, BelowStack
    <2>2. dev \in Devices
      BY WorldParts
    <2>3. Tame(dev, dev')
      BY <1>3, <2>2, DeactivateTame
    <2> QED BY <1>3, <2>1, <2>3, TameSound
  <1>4. ASSUME stack' = Tail(stack), dev' = dev
        PROVE  Sound(dev', stack')
    <2>1. Tail(stack) \in Seq(Frame) /\ Below(Tail(stack), dev)
      BY <1>1, BelowTop
    <2>2. Sound(dev, Tail(stack))
      BY <2>1, OnwardSame, SoundFits, PlaysSound
    <2> QED BY <1>4, <2>2
  <1>5. Sound(dev', stack')
    BY <1>2, <1>3, <1>4
  <1> QED BY <1>1, <1>5, SoundNext

\* Calls a above calls b.
Joined(c, a, b) ==
    /\ Len(c) = Len(a) + Len(b)
    /\ \A i \in 1 .. Len(a) : c[i] = a[i]
    /\ \A i \in 1 .. Len(b) : c[Len(a) + i] = b[i]

LEMMA ConcatJoins ==
    ASSUME NEW a \in Seq(Frame), NEW b \in Seq(Frame)
    PROVE  a \o b \in Seq(Frame) /\ Joined(a \o b, a, b)
  BY DEF Joined

LEMMA CallsOf ==
    ASSUME NEW w \in Window
    PROVE  LET p == KillOf(Pointer, w)
               k == KillOf(Keyboard, w)
               s == UnmapCalls(w)
               t == DeleteCalls(w)
               n == IF w \in mapped THEN 3 ELSE 0
           IN /\ s \in Seq(Frame) /\ Plain(s)
              /\ t \in Seq(Frame) /\ Len(t) = n + 3
              /\ n = 3 => t[1] = p /\ t[2] = k /\ t[3] = UnmapOf(w)
              /\ t[n + 1] = p /\ t[n + 2] = k /\ t[n + 3] = [op |-> "unlist", win |-> w]
  <1> DEFINE p == KillOf(Pointer, w)
             k == KillOf(Keyboard, w)
             u == <<UnmapOf(w)>>
             l == <<[op |-> "unlist", win |-> w]>>
             q == Kills(w)
             s == UnmapCalls(w)
             t == DeleteCalls(w)
             n == IF w \in mapped THEN 3 ELSE 0
  <1>1. /\ p \in Frame /\ k \in Frame /\ UnmapOf(w) \in Frame
        /\ [op |-> "unlist", win |-> w] \in Frame
        /\ p.op = "kill" /\ k.op = "kill" /\ UnmapOf(w).op = "unmap"
    BY DevicesAssumption DEF KillOf, UnmapOf, Frame
  <1>2. /\ u \in Seq(Frame) /\ Len(u) = 1 /\ u[1] = UnmapOf(w)
        /\ l \in Seq(Frame) /\ Len(l) = 1 /\ l[1] = [op |-> "unlist", win |-> w]
    BY <1>1
  <1>3. q \in Seq(Frame) /\ Len(q) = 2 /\ q[1] = p /\ q[2] = k
    <2>1. q = <<p, k>>
      BY DEF Kills, KillOf
    <2> HIDE DEF q, p, k
    <2> QED BY <1>1, <2>1
  <1>4. s = IF w \in mapped THEN q \o u ELSE <<>>
    BY DEF UnmapCalls, UnmapOf
  <1>5. t = (s \o q) \o l
    BY DEF DeleteCalls
  <1> HIDE DEF p, k, u, l, q, s, t, n
  <1>6. /\ s \in Seq(Frame) /\ Len(s) = n
        /\ n = 3 => s[1] = p /\ s[2] = k /\ s[3] = UnmapOf(w)
    <2>1. CASE w \in mapped
      <3>1. s = q \o u
        BY <1>4, <2>1
      <3>2. s \in Seq(Frame) /\ Joined(s, q, u)
        BY <1>2, <1>3, <3>1, ConcatJoins
      <3>3. 1 \in 1 .. 2 /\ 2 \in 1 .. 2 /\ 1 \in 1 .. 1 /\ 2 + 1 = 3
        OBVIOUS
      <3> QED BY <1>2, <1>3, <2>1, <3>2, <3>3 DEF n, Joined
    <2>2. CASE w \notin mapped
      BY <1>4, <2>2 DEF n
    <2> QED BY <2>1, <2>2
  <1>7. n \in {0, 3}
    BY DEF n
  <1>8. Plain(s)
    <2>1. DOMAIN s = 1 .. n
      BY <1>6
    <2>2. \A i \in DOMAIN s : i = 1 \/ i = 2 \/ i = 3
      BY <1>7, <2>1
    <2>3. \A i \in DOMAIN s : n = 3
      BY <1>7, <2>1
    <2> QED BY <1>1, <1>6, <2>2, <2>3 DEF Plain
  <1>9. /\ s \o q \in Seq(Frame) /\ Len(s \o q) = n + 2
        /\ \A i \in 1 .. n : (s \o q)[i] = s[i]
        /\ (s \o q)[n + 1] = p /\ (s \o q)[n + 2] = k
    <2> DEFINE c == s \o q
    <2>1. c \in Seq(Frame) /\ Joined(c, s, q)
      BY <1>3, <1>6, ConcatJoins
    <2>2. 1 \in 1 .. 2 /\ 2 \in 1 .. 2
      OBVIOUS
    <2> HIDE DEF c
    <2>3. /\ c \in Seq(Frame) /\ Len(c) = n + 2 /\ (\A i \in 1 .. n : c[i] = s[i])
          /\ c[n + 1] = p /\ c[n + 2] = k
      BY <1>3, <1>6, <2>1, <2>2 DEF Joined
    <2> QED BY <2>3 DEF c
  <1> DEFINE r == s \o q
  <1>10. r \in Seq(Frame) /\ t = r \o l
    BY <1>5, <1>9
  <1>11. /\ Len(r) = n + 2 /\ r[n + 1] = p /\ r[n + 2] = k
         /\ \A i \in 1 .. n : r[i] = s[i]
    BY <1>9
  <1> HIDE DEF r
  <1>12. /\ t \in Seq(Frame) /\ Len(t) = n + 3
         /\ \A i \in 1 .. n + 2 : t[i] = r[i]
         /\ t[n + 3] = [op |-> "unlist", win |-> w]
    <2>1. t \in Seq(Frame) /\ Joined(t, r, l)
      BY <1>2, <1>10, ConcatJoins
    <2>2. 1 \in 1 .. 1 /\ (n + 2) + 1 = n + 3
      BY <1>7
    <2> QED BY <1>2, <1>11, <2>1, <2>2 DEF Joined
  <1>13. t[n + 1] = p /\ t[n + 2] = k
    <2>1. n + 1 \in 1 .. n + 2 /\ n + 2 \in 1 .. n + 2
      BY <1>7
    <2> QED BY <1>11, <1>12, <2>1
  <1>14. n = 3 => t[1] = p /\ t[2] = k /\ t[3] = UnmapOf(w)
    <2> SUFFICES ASSUME n = 3 PROVE t[1] = p /\ t[2] = k /\ t[3] = UnmapOf(w)
      OBVIOUS
    <2>1. /\ 1 \in 1 .. n /\ 2 \in 1 .. n /\ 3 \in 1 .. n
          /\ \A i \in 1 .. n : i \in 1 .. n + 2
      OBVIOUS
    <2>2. \A i \in 1 .. n : t[i] = s[i]
      BY <1>11, <1>12, <2>1
    <2> QED BY <1>6, <2>1, <2>2
  <1> QED BY <1>6, <1>8, <1>12, <1>13, <1>14 DEF n, p, k, s, t

\* The core devices are all the devices whose grabs a window's end ends.
LEMMA DeleteGuarded ==
    ASSUME Device = {Pointer, Keyboard}, NEW w \in Window, NEW dv
    PROVE  /\ Arming(DeleteCalls(w), dv) /\ Replaying(DeleteCalls(w), dv)
           /\ Guarded(DeleteCalls(w), mapped, dv)
  <1> DEFINE s == DeleteCalls(w)
             p == KillOf(Pointer, w)
             k == KillOf(Keyboard, w)
             u == UnmapOf(w)
             l == [op |-> "unlist", win |-> w]
             n == IF w \in mapped THEN 3 ELSE 0
  <1>1. /\ s \in Seq(Frame) /\ Len(s) = n + 3
        /\ n = 3 => s[1] = p /\ s[2] = k /\ s[3] = u
        /\ s[n + 1] = p /\ s[n + 2] = k /\ s[n + 3] = l
    BY CallsOf
  <1>2. /\ p.op = "kill" /\ k.op = "kill" /\ u.op = "unmap"
        /\ l.op = "unlist" /\ l.win = w
    BY DEF KillOf, UnmapOf
  <1>3. n \in {0, 3} /\ (n = 3 <=> w \in mapped)
    OBVIOUS
  <1> HIDE DEF s, p, k, u, l, n
  <1>4. DOMAIN s = 1 .. n + 3
    BY <1>1, <1>3
  <1>5. \A i \in DOMAIN s : s[i].op \in {"kill", "unmap"} \/ (i = n + 3 /\ s[i] = l)
    BY <1>1, <1>2, <1>3, <1>4
  <1>6. Arming(s, dv) /\ Replaying(s, dv)
    BY <1>2, <1>5 DEF Arming, Replaying
  <1>7. ASSUME NEW d \in Device
        PROVE  \E j \in n + 1 .. n + 2 : s[j] = KillOf(d, w)
    <2>1. n + 1 \in n + 1 .. n + 2 /\ n + 2 \in n + 1 .. n + 2
      BY <1>3
    <2> QED BY <1>1, <2>1 DEF p, k
  <1>8. CASE w \in mapped
    <2>1. n = 3
      BY <1>3, <1>8
    <2>2. Cleared(s, n + 3, w)
      <3>1. 3 \in 1 .. (n + 3) - 1 /\ s[3] = UnmapOf(w)
        BY <1>1, <2>1 DEF u
      <3>2. \A d \in Device : \E j \in 3 + 1 .. (n + 3) - 1 : s[j] = KillOf(d, w)
        BY <1>7, <2>1
      <3> QED BY <3>1, <3>2 DEF Cleared
    <2> QED BY <1>2, <1>5, <1>6, <1>8, <2>2 DEF Guarded, s
  <1>9. CASE w \notin mapped
    <2>1. n = 0
      BY <1>3, <1>9
    <2>2. Swept(s, n + 3, w, dv)
      <3>1. \A d \in Device : \E j \in 1 .. (n + 3) - 1 : s[j] = KillOf(d, w)
        BY <1>7, <2>1
      <3> QED BY <3>1 DEF Swept
    <2> QED BY <1>2, <1>5, <1>6, <1>9, <2>2 DEF Guarded, s
  <1> QED BY <1>8, <1>9

LEMMA EndFreeStep ==
    ASSUME Device = {Pointer, Keyboard}, IInv, EndInv, FreeClientResources
    PROVE  EndInv'
  <1>1. /\ stack # <<>> /\ Head(stack).op = "free"
        /\ dev' = dev /\ UNCHANGED <<exists, mapped>>
    BY DEF FreeClientResources
  <1>2. \/ stack' = stack
        \/ \E w \in exists : stack' = DeleteCalls(w) \o stack
        \/ stack' = Tail(stack)
    BY DEF FreeClientResources
  <1>3. stack \in Seq(Frame) /\ Below(stack, dev)
    BY <1>1, BelowStack
  <1>4. CASE stack' = stack
    <2>1. Sound(dev', stack')
      BY <1>1, <1>4 DEF EndInv
    <2> QED BY <1>1, <2>1, SoundNext
  <1>5. ASSUME NEW w \in exists, stack' = DeleteCalls(w) \o stack
        PROVE  EndInv'
    <2>1. w \in Window
      BY WorldParts
    <2>2. DeleteCalls(w) \in Seq(Frame)
      BY <2>1, CallsOf
    <2>3. /\ Arming(DeleteCalls(w), dev) /\ Replaying(DeleteCalls(w), dev)
          /\ Guarded(DeleteCalls(w), mapped, dev)
      BY <2>1, DeleteGuarded
    <2>4. Onward(dev, dev, mapped)
      BY OnwardSame
    <2>5. /\ Arming(DeleteCalls(w) \o stack, dev) /\ Replaying(DeleteCalls(w) \o stack, dev)
          /\ Guarded(DeleteCalls(w) \o stack, mapped, dev)
      BY <1>3, <2>2, <2>3, <2>4, PushHolds DEF Below
    <2>6. Sound(dev', stack')
      BY <1>1, <1>5, <2>5 DEF EndInv, Sound
    <2> QED BY <1>1, <2>6, SoundNext
  <1>6. CASE stack' = Tail(stack)
    <2>1. Tail(stack) \in Seq(Frame) /\ Below(Tail(stack), dev)
      BY <1>1, BelowTop
    <2>2. Sound(dev, Tail(stack))
      BY <2>1, OnwardSame, SoundFits, PlaysSound
    <2> QED BY <1>1, <1>6, <2>2, SoundNext
  <1> QED BY <1>2, <1>4, <1>5, <1>6

LEMMA EndContinueStep ==
    ASSUME Device = {Pointer, Keyboard}, IInv, EndInv, Continue
    PROVE  EndInv'
  BY EndAgainStep, EndArmStep, EndPlayStep, EndPlayDoneStep, EndReplayStep, EndKillStep, EndUnmapStep,
     EndUnlistStep, EndReleaseStep, EndFreeStep DEF Continue

LEMMA EndAllowStep ==
    ASSUME IInv, EndInv, NEW c \in Client, NEW d \in Device, AllowSome(c, d)
    PROVE  EndInv'
  <1>0. dev \in Devices /\ HeldByGrab(dev)
    BY WorldParts
  <1>1. UNCHANGED world /\ stack = <<>>
    BY DEF AllowSome, AllowThaw, AllowNextEvent, AllowBoth, AllowOthers, AllowReplay,
           Allowed, Request
  <1>2. Held("THAWED") /\ Held("FREEZE_NEXT_EVENT") /\ Held("FREEZE_BOTH_NEXT_EVENT")
    BY DEF Held, State
  <1>3. ASSUME NEW s, Held(s), s # "FROZEN_WITH_EVENT",
               dev' = ReleaseThis(c, d, s), stack' = Plays
        PROVE  EndInv'
    <2>1. Tame(dev, dev')
      BY <1>0, <1>3, ReleaseThisTame
    <2> QED BY <1>1, <1>3, <2>1, TameRequest, WorldKept, SoundNext
  <1>4. ASSUME NEW s, NEW D, Held(s), s # "FROZEN_WITH_EVENT",
               dev' = Release(c, D, s), stack' = Plays
        PROVE  EndInv'
    <2>1. Tame(dev, dev')
      BY <1>0, <1>4, ReleaseTame
    <2> QED BY <1>1, <1>4, <2>1, TameRequest, WorldKept, SoundNext
  <1>5. CASE AllowThaw(c, d)
    BY <1>2, <1>3, <1>5 DEF AllowThaw
  <1>6. CASE AllowNextEvent(c, d)
    BY <1>2, <1>3, <1>6 DEF AllowNextEvent
  <1>7. CASE \E s \in {"THAWED", "FREEZE_BOTH_NEXT_EVENT"} : AllowBoth(c, d, s)
    <2>1. PICK s \in {"THAWED", "FREEZE_BOTH_NEXT_EVENT"} : AllowBoth(c, d, s)
      BY <1>7
    <2>2. Held(s) /\ s # "FROZEN_WITH_EVENT"
      BY <1>2
    <2>3. dev' = Release(c, Device, s) /\ stack' = Plays
      BY <2>1 DEF AllowBoth
    <2> QED BY <1>4, <2>2, <2>3
  <1>8. CASE AllowOthers(c, d)
    BY <1>2, <1>4, <1>8 DEF AllowOthers
  <1>9. CASE AllowReplay(c, d)
    <2> DEFINE replay == [op |-> "replay", dev |-> d, win |-> dev[d].grab.win]
    <2>1. Tame(dev, dev')
      BY <1>0, <1>9, ReplayedTame
    <2>2. stack' = <<replay, Play>> /\ dev[d].state = "FROZEN_WITH_EVENT"
      BY <1>9 DEF AllowReplay
    <2>3. replay.op = "replay" /\ replay.dev = d /\ Play.op = "play"
      BY DEF Play
    <2> HIDE DEF replay
    <2>4. /\ DOMAIN stack' = 1 .. 2 /\ stack'[1] = replay /\ stack'[2] = Play
      BY <2>2
    <2>5. /\ \A i \in DOMAIN stack' : i = 1 \/ stack'[i].op = "play"
          /\ \A i \in DOMAIN stack' : stack'[i].op \notin {"arm", "unlist"}
      BY <2>3, <2>4
    <2>6. Arming(stack', dev') /\ Guarded(stack', mapped, dev')
      BY <2>5 DEF Arming, Guarded
    <2>7. Fit(dev)
      BY SoundFits
    <2>8. Fit(dev')
      BY <2>1, <2>7, TameHolds DEF Fit
    <2>9. d = Pointer /\ dev'[Pointer].event.kind = "press" => dev'[Pointer].down # {}
      <3>1. dev'[d].event = dev[d].event /\ dev'[d].down = dev[d].down
        BY <2>1 DEF Tame
      <3> QED BY <2>2, <2>7, <3>1 DEF Fit, ButtonDown
    <2>10. Replaying(stack', dev')
      BY <2>3, <2>4, <2>5, <2>9 DEF Replaying
    <2>11. Sound(dev', stack')
      BY <2>6, <2>8, <2>10 DEF Sound, Fit
    <2> QED BY <1>1, <2>11, WorldKept, SoundNext
  <1> QED BY <1>5, <1>6, <1>7, <1>8, <1>9 DEF AllowSome

\* A request that puts calls on an empty stack.
LEMMA EndCalls ==
    ASSUME EndInv, dev' = dev, UNCHANGED <<exists, mapped>>,
           Arming(stack', dev), Replaying(stack', dev), Guarded(stack', mapped, dev)
    PROVE  EndInv'
  BY DEF EndInv, Sound

LEMMA EndClientStep ==
    ASSUME Device = {Pointer, Keyboard}, IInv, EndInv, NEW c \in Client,
           \/ \E d \in Device : UngrabDevice(c, d) \/ AllowSome(c, d)
           \/ \E w \in Window : UnmapWindow(c, w) \/ MapWindow(c, w) \/ DestroyWindow(c, w)
           \/ CloseDownClient(c)
    PROVE  EndInv'
  <1>1. ASSUME NEW d \in Device, UngrabDevice(c, d) PROVE EndInv'
    <2>1. dev' = DeactivateGrab(dev, d) /\ stack' = Plays /\ UNCHANGED world
      BY <1>1 DEF UngrabDevice
    <2>2. dev \in Devices
      BY WorldParts
    <2>3. Tame(dev, dev')
      BY <2>1, <2>2, DeactivateTame
    <2> QED BY <2>1, <2>3, TameRequest, WorldKept, SoundNext
  <1>2. ASSUME NEW d \in Device, AllowSome(c, d) PROVE EndInv'
    BY <1>2, EndAllowStep
  <1>3. ASSUME NEW w \in Window, UnmapWindow(c, w) PROVE EndInv'
    <2>1. dev' = dev /\ stack' = UnmapCalls(w) /\ UNCHANGED <<exists, mapped>>
      BY <1>3 DEF UnmapWindow, world
    <2>2. Plain(stack')
      BY <2>1, CallsOf
    <2> QED BY <2>1, <2>2, PlainCalls, EndCalls
  <1>4. ASSUME NEW w \in Window, MapWindow(c, w) PROVE EndInv'
    <2>1. /\ stack = <<>> /\ stack' = stack /\ dev' = dev /\ exists' = exists
          /\ mapped' = mapped \cup {w} /\ w \in exists
      BY <1>4 DEF MapWindow, Request, Last
    <2>2. Arming(stack', dev) /\ Replaying(stack', dev) /\ Guarded(stack', mapped', dev)
      BY <2>1, NothingPlain, PlainCalls
    <2> QED BY <2>1, <2>2 DEF EndInv, Sound
  <1>5. ASSUME NEW w \in Window, DestroyWindow(c, w) PROVE EndInv'
    <2>1. dev' = dev /\ stack' = DeleteCalls(w) /\ UNCHANGED <<exists, mapped>>
      BY <1>5 DEF DestroyWindow, world
    <2> QED BY <2>1, DeleteGuarded, EndCalls
  <1>6. CASE CloseDownClient(c)
    <2>1. /\ dev' = dev /\ UNCHANGED <<exists, mapped>>
          /\ stack' = <<[op |-> "release", client |-> c], [op |-> "free", client |-> c]>>
      BY <1>6 DEF CloseDownClient, world
    <2>2. Plain(stack')
      BY <2>1 DEF Plain
    <2> QED BY <2>1, <2>2, PlainCalls, EndCalls
  <1> QED BY <1>1, <1>2, <1>3, <1>4, <1>5, <1>6

LEMMA EndGrabDeviceStep ==
    ASSUME IInv, EndInv, NEW p \in ActiveGrabs, GrabDevice(p)
    PROVE  EndInv'
  <1> DEFINE d == p.dev
             g == p.grab
  <1>1. /\ dev' = ActivateGrab(dev, d, g, FALSE) /\ stack' = Plays /\ UNCHANGED world
    BY DEF GrabDevice
  <1>2. d \in Device /\ g \in Grab
    BY GrabsAssumption DEF Grab
  <1>3. dev \in Devices /\ Fit(dev) /\ mapped \subseteq exists
    BY WorldParts, SoundFits DEF EndInv
  <1>4. g.win \in mapped
    BY DEF GrabDevice
  <1> HIDE DEF d, g
  <1>5. Begun(dev, dev', d, g, FALSE)
    BY <1>1, <1>2, <1>3, ActivateLeaves
  <1>6. EventsOwn(dev')
    <2>1. \A x \in Device : dev'[x].event = dev[x].event
      BY <1>5 DEF Begun
    <2> QED BY <1>3, <2>1 DEF EventsOwn, Fit
  <1>7. Windowed(dev', exists)
    BY <1>3, <1>4, <1>5 DEF Windowed, Begun, Fit
  <1>8. ButtonDown(dev')
    <2>1. CASE d = Pointer
      BY <1>2, <1>5, <2>1 DEF ButtonDown, Begun
    <2>2. CASE d # Pointer
      <3>1. LET p1 == dev'[Pointer]
                p0 == dev[Pointer]
            IN /\ p1.down = p0.down /\ p1.event = p0.event /\ p1.grabbed = p0.grabbed
               /\ p1.auto = p0.auto /\ p1.state = p0.state
        BY <1>5, <2>2, DevicesAssumption DEF Begun
      <3> QED BY <1>3, <3>1 DEF ButtonDown, Fit
    <2> QED BY <2>1, <2>2
  <1>9. Sound(dev', stack')
    <2>1. Arming(stack', dev') /\ Replaying(stack', dev') /\ Guarded(stack', mapped, dev')
      BY <1>1, PlaysPlain, PlainCalls
    <2> QED BY <1>6, <1>7, <1>8, <2>1 DEF Sound
  <1> QED BY <1>1, <1>9, WorldKept, SoundNext

LEMMA EndPassiveStep ==
    ASSUME EndInv, NEW p \in PassiveGrabs, GrabButton(p) \/ UngrabButton(p)
    PROVE  EndInv'
  <1>1. UNCHANGED <<dev, stack, exists, mapped>>
    BY DEF GrabButton, UngrabButton
  <1> QED BY <1>1 DEF EndInv, Sound

LEMMA EndInductive ==
    ASSUME Device = {Pointer, Keyboard}
    PROVE  IInv /\ EndInv /\ [Next]_vars => EndInv'
  <1> SUFFICES ASSUME IInv, EndInv, [Next]_vars PROVE EndInv'
    OBVIOUS
  <1>1. CASE Continue
    BY <1>1, EndContinueStep
  <1>2. ASSUME NEW d \in Device, NEW k \in {"press", "release", "motion"}, NEW b \in Detail,
               Input(d, k, b)
        PROVE  EndInv'
    BY <1>2, EndInputStep
  <1>3. ASSUME NEW c \in Client,
               \/ \E d \in Device : UngrabDevice(c, d) \/ AllowSome(c, d)
               \/ \E w \in Window : UnmapWindow(c, w) \/ MapWindow(c, w) \/ DestroyWindow(c, w)
               \/ CloseDownClient(c)
        PROVE  EndInv'
    BY <1>3, EndClientStep
  <1>4. ASSUME NEW p \in ActiveGrabs, GrabDevice(p) PROVE EndInv'
    BY <1>4, EndGrabDeviceStep
  <1>5. ASSUME NEW p \in PassiveGrabs, GrabButton(p) \/ UngrabButton(p) PROVE EndInv'
    BY <1>5, EndPassiveStep
  <1>6. CASE UNCHANGED vars
    BY <1>6 DEF vars, world, EndInv, Sound
  <1> QED BY <1>1, <1>2, <1>3, <1>4, <1>5, <1>6 DEF Next

LEMMA EndHolds == EndInv => GrabEnds
  BY DEF EndInv, Sound, GrabEnds, ButtonDown, Windowed

\* An automatic grab of the pointer lasts while buttons are down, and no grab
\* outlasts its window, whatever events the end of a grab plays: with every
\* client, window and grab, for the devices whose grabs DeleteWindowFromAnyEvents
\* ends (events.c:4330-4345), the core pointer and the core keyboard.
THEOREM GrabsEnd ==
    ASSUME Device = {Pointer, Keyboard}
    PROVE  Spec => []GrabEnds
  <1>1. Init => EndInv
    BY EndInitially
  <1>2. IInv /\ EndInv /\ [Next]_vars => EndInv'
    BY EndInductive
  <1>3. Spec => []IInv
    BY Invariant
  <1>4. EndInv => GrabEnds
    BY EndHolds
  <1> QED BY <1>1, <1>2, <1>3, <1>4, PTL DEF Spec
=============================================================================
