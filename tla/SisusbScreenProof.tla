-------------------------- MODULE SisusbScreenProof --------------------------
(***************************************************************************)
(* Theorems of SisusbScreen for every size of the panel, every rotation    *)
(* and every failure: the rotation RandR reports is the one in force, and, *)
(* on a screen started upright, no update leaves the buffers and all that  *)
(* is drawn reaches its place.  The invariant has three parts: rotations   *)
(* that agree, sides that do not change, and a picture that is in the      *)
(* frame buffer and on the panel wherever it is not damaged.               *)
(***************************************************************************)
EXTENDS SisusbScreen, TLAPS

\* The turns of KdAddRotation and KdSubRotation, alone.
AddTurn(a, b) == IF a * b > 8 THEN (a * b) \div 16 ELSE a * b
SubTurn(a, b) == IF (a * 16) \div b > 8 THEN ((a * 16) \div b) \div 16 ELSE (a * 16) \div b

\* A sum of turns is a turn.
LEMMA AddTurnType == \A a, b \in Turns : AddTurn(a, b) \in Turns
<1> SUFFICES ASSUME NEW a \in Turns, NEW b \in Turns PROVE AddTurn(a, b) \in Turns
  OBVIOUS
<1>1. CASE a = 1 BY <1>1 DEF AddTurn, Turns
<1>2. CASE a = 2 BY <1>2 DEF AddTurn, Turns
<1>3. CASE a = 4 BY <1>3 DEF AddTurn, Turns
<1>4. CASE a = 8 BY <1>4 DEF AddTurn, Turns
<1>5. QED BY <1>1, <1>2, <1>3, <1>4 DEF Turns

\* Subtraction of a turn yields a turn, and undoes its addition.
LEMMA SubTurnUndone ==
  \A a, b \in Turns : SubTurn(a, b) \in Turns /\ AddTurn(b, SubTurn(a, b)) = a
<1> SUFFICES ASSUME NEW a \in Turns, NEW b \in Turns
             PROVE  SubTurn(a, b) \in Turns /\ AddTurn(b, SubTurn(a, b)) = a
  OBVIOUS
<1>1. CASE b = 1
  <2>1. (a * 16) \div b = 16 * a BY <1>1 DEF Turns
  <2>2. SubTurn(a, b) = a BY <2>1 DEF SubTurn, Turns
  <2>3. QED BY <2>2, <1>1 DEF AddTurn, Turns
<1>2. CASE b = 2
  <2>1. (a * 16) \div b = 8 * a BY <1>2 DEF Turns
  <2>2. SubTurn(a, b) = IF a = 1 THEN 8 ELSE a \div 2 BY <2>1 DEF SubTurn, Turns
  <2>3. QED BY <2>2, <1>2 DEF AddTurn, Turns
<1>3. CASE b = 4
  <2>1. (a * 16) \div b = 4 * a BY <1>3 DEF Turns
  <2>2. SubTurn(a, b) = IF a \in {1, 2} THEN 4 * a ELSE a \div 4 BY <2>1 DEF SubTurn, Turns
  <2>3. QED BY <2>2, <1>3 DEF AddTurn, Turns
<1>4. CASE b = 8
  <2>1. (a * 16) \div b = 2 * a BY <1>4 DEF Turns
  <2>2. SubTurn(a, b) = IF a = 8 THEN 1 ELSE 2 * a BY <2>1 DEF SubTurn, Turns
  <2>3. QED BY <2>2, <1>4 DEF AddTurn, Turns
<1>5. QED BY <1>1, <1>2, <1>3, <1>4 DEF Turns

\* Reflections are added and subtracted alike, and twice is not at all.
LEMMA DifferTwice ==
  ASSUME NEW S, NEW s \in SUBSET S, NEW t \in SUBSET S
  PROVE  Differ(s, t) \in SUBSET S /\ Differ(t, Differ(s, t)) = s
BY DEF Differ

\* A sum of rotations is a rotation.
LEMMA AddType == \A a, b \in AllRotations : KdAddRotation(a, b) \in AllRotations
<1> SUFFICES ASSUME NEW a \in AllRotations, NEW b \in AllRotations
             PROVE  KdAddRotation(a, b) \in AllRotations
  OBVIOUS
<1>1. AddTurn(a.turn, b.turn) \in Turns BY AddTurnType DEF AllRotations
<1>2. Differ(a.reflect, b.reflect) \in SUBSET {"X", "Y"} BY DifferTwice DEF AllRotations
<1>3. KdAddRotation(a, b) = [turn |-> AddTurn(a.turn, b.turn),
                             reflect |-> Differ(a.reflect, b.reflect)]
  BY DEF KdAddRotation, AddTurn
<1>4. QED BY <1>1, <1>2, <1>3 DEF AllRotations

\* KdSubRotation finds what KdAddRotation added: the arithmetic on the bits of
\* kdrive.c:412-432 is that of rotations.
THEOREM SubUndoesAdd ==
  \A a, b \in AllRotations :
      KdSubRotation(a, b) \in AllRotations /\ KdAddRotation(b, KdSubRotation(a, b)) = a
<1> SUFFICES ASSUME NEW a \in AllRotations, NEW b \in AllRotations
             PROVE  /\ KdSubRotation(a, b) \in AllRotations
                    /\ KdAddRotation(b, KdSubRotation(a, b)) = a
  OBVIOUS
<1> DEFINE t == SubTurn(a.turn, b.turn)
           f == Differ(a.reflect, b.reflect)
<1>1. KdSubRotation(a, b) = [turn |-> t, reflect |-> f] BY DEF KdSubRotation, SubTurn
<1>2. t \in Turns /\ AddTurn(b.turn, t) = a.turn BY SubTurnUndone DEF AllRotations
<1>3. f \in SUBSET {"X", "Y"} /\ Differ(b.reflect, f) = a.reflect
  BY DifferTwice DEF AllRotations
<1>4. a = [turn |-> a.turn, reflect |-> a.reflect] BY DEF AllRotations
<1>5. KdAddRotation(b, [turn |-> t, reflect |-> f])
        = [turn |-> AddTurn(b.turn, t), reflect |-> Differ(b.reflect, f)]
  BY DEF KdAddRotation, AddTurn
<1>6. [turn |-> t, reflect |-> f] \in AllRotations BY <1>2, <1>3 DEF AllRotations
<1>7. QED BY <1>1, <1>2, <1>3, <1>4, <1>5, <1>6

-----------------------------------------------------------------------------
RotationInv ==
    /\ randr \in AllRotations
    /\ crtc \in AllRotations \cup {NULL}
    /\ RotationReported

\* RRCrtcSet keeps the rotations in step, whatever it takes the crtc to be set
\* to, as long as that is in step with randr.
LEMMA RRCrtcSetKeeps ==
  ASSUME RotationInv, NEW now, NEW r \in AllRotations \cup {NULL},
         now \in AllRotations \cup {NULL},
         now # NULL => KdAddRotation(StartRandr, now) = randr,
         RRCrtcSet(now, r)
  PROVE  RotationInv'
<1>1. CASE /\ now = r \/ r = NULL
           /\ crtc' = r
           /\ UNCHANGED <<randr, shadow>>
  BY <1>1 DEF RotationInv, RotationReported
<1>2. CASE now # r /\ r # NULL /\ Succeed(r) /\ crtc' = r
  <2>1. r \in AllRotations BY <1>2
  <2>2. randr' = KdAddRotation(StartRandr, r) /\ shadow' = randr' /\ crtc' = r
    BY <1>2 DEF Succeed
  <2>3. randr' \in AllRotations BY <2>1, <2>2, AddType, ScreenAssumption
  <2>4. QED BY <2>1, <2>2, <2>3 DEF RotationInv, RotationReported
<1>3. CASE now # r /\ r # NULL /\ Fail /\ crtc' = now
  BY <1>3 DEF Fail, RotationInv, RotationReported
<1>4. QED BY <1>1, <1>2, <1>3 DEF RRCrtcSet

\* No step takes the driver, the shadow and RandR out of step.
LEMMA RotationStep == RotationInv /\ [Next]_vars => RotationInv'
<1> SUFFICES ASSUME RotationInv, [Next]_vars PROVE RotationInv'
  OBVIOUS
<1>0. StartRandr \in AllRotations /\ Rotations \subseteq AllRotations
  BY ScreenAssumption
<1>1. InForce \in AllRotations /\ KdAddRotation(StartRandr, InForce) = randr
  BY <1>0, SubUndoesAdd DEF InForce, RotationInv
<1>2. ASSUME NEW p \in Pixels(size), NEW c \in Colours, Draw(p, c) PROVE RotationInv'
  BY <1>2 DEF Draw, RotationInv, RotationReported
<1>3. CASE Redisplay BY <1>3 DEF Redisplay, RotationInv, RotationReported
<1>4. CASE ProcRRGetScreenInfo
  BY <1>4, <1>1 DEF ProcRRGetScreenInfo, RotationInv, RotationReported
<1>5. ASSUME NEW r \in Rotations, ProcRRSetScreenConfig(r) PROVE RotationInv'
  <2>1. CASE size = Panel
    <3>1. RRCrtcSet(InForce, r) BY <1>5, <2>1 DEF ProcRRSetScreenConfig
    <3>2. QED BY <3>1, <1>0, <1>1, RRCrtcSetKeeps
  <2>2. CASE size # Panel
    <3>1. RRCrtcSet(NULL, r) BY <1>5, <2>2 DEF ProcRRSetScreenConfig
    <3>2. QED BY <3>1, <1>0, RRCrtcSetKeeps
  <2>3. QED BY <2>1, <2>2
<1>6. ASSUME NEW r \in Rotations \cup {NULL}, ProcRRSetCrtcConfig(r) PROVE RotationInv'
  <2>1. RRCrtcSet(crtc, r) BY <1>6 DEF ProcRRSetCrtcConfig
  <2>2. crtc \in AllRotations \cup {NULL}
        /\ (crtc # NULL => KdAddRotation(StartRandr, crtc) = randr)
    BY DEF RotationInv, RotationReported
  <2>3. r \in AllRotations \cup {NULL} BY <1>0
  <2>4. QED BY <2>1, <2>2, <2>3, RRCrtcSetKeeps
<1>7. CASE Regenerate BY <1>7, <1>0 DEF Regenerate, RotationInv, RotationReported
<1>8. CASE UNCHANGED vars BY <1>8 DEF vars, RotationInv, RotationReported
<1>9. QED BY <1>2, <1>3, <1>4, <1>5, <1>6, <1>7, <1>8 DEF Next

\* Whatever succeeds or fails, the driver, the shadow and RandR agree on the
\* rotation of the screen.
THEOREM RotationAgreed == Spec => []RotationReported
<1>1. Init => RotationInv
  BY ScreenAssumption DEF Init, RotationInv, RotationReported
<1>2. RotationInv => RotationReported BY DEF RotationInv
<1>3. QED BY <1>1, <1>2, RotationStep, PTL DEF Spec

-----------------------------------------------------------------------------
\* Where the screen was started upright, its sides never change, the damage is
\* on it, and the pixmap describes the buffer the driver has, unless the last
\* configuration failed.
BoundInv ==
    /\ size = Panel
    /\ damage \subseteq Cells
    /\ ~failed => pixmap = [ptr |-> buf, width |-> Width, height |-> Height,
                            stride |-> Stride(randr)]

\* The pixels of the screen are the cells of the frame buffer.
LEMMA PanelCells == Pixels(Panel) = Cells
BY DEF Pixels, Panel, Cells

\* A pixel's address, rows being Width words, is in the shadow buffer.
LEMMA RowMajor ==
  ASSUME NEW w \in Nat, NEW h \in Nat, NEW i \in 0 .. w - 1, NEW j \in 0 .. h - 1
  PROVE  j * w + i \in 0 .. w * h - 1
<1>1. j * w \in Nat OBVIOUS
<1>2. (h - 1 - j) * w \in Nat OBVIOUS
<1>3. (h - 1 - j) * w = h * w - w - j * w OBVIOUS
<1>4. w * h = h * w OBVIOUS
<1>5. QED BY <1>1, <1>2, <1>3, <1>4

\* What a configuration does to the size, the damage and the pixmap.
LEMMA ConfigurationBound ==
  ASSUME BoundInv, NEW r \in AllRotations, Succeed(r) \/ Fail
  PROVE  BoundInv'
<1>1. CASE Succeed(r)
  <2>1. damage' \subseteq damage \cup Pixels(Panel) BY <1>1 DEF Succeed, Paint
  <2>2. QED BY <1>1, <2>1, PanelCells DEF Succeed, BoundInv, Panel
<1>2. CASE Fail
  <2>1. damage' \subseteq damage \cup Pixels(Panel) BY <1>2 DEF Fail, Paint
  <2>2. QED BY <1>2, <2>1, PanelCells DEF Fail, BoundInv, Panel
<1>3. QED BY <1>1, <1>2

\* RRCrtcSet configures the screen or leaves it alone.
LEMMA RRCrtcSetBound ==
  ASSUME BoundInv, NEW now, NEW r \in Rotations \cup {NULL}, RRCrtcSet(now, r)
  PROVE  BoundInv'
<1>1. CASE UNCHANGED <<randr, buf, pixmap, size, shadow, damage, bits, frame, panel,
                       drawn, failed>>
  BY <1>1 DEF BoundInv
<1>2. CASE r # NULL /\ (Succeed(r) \/ Fail)
  BY <1>2, ScreenAssumption, ConfigurationBound
<1>3. QED BY <1>1, <1>2 DEF RRCrtcSet

\* No step changes the sides of a screen started upright.
LEMMA BoundStep ==
  ASSUME ~Quarter(StartRandr)
  PROVE  BoundInv /\ [Next]_vars => BoundInv'
<1> SUFFICES ASSUME BoundInv, [Next]_vars PROVE BoundInv'
  OBVIOUS
<1>1. ASSUME NEW p \in Pixels(size), NEW c \in Colours, Draw(p, c) PROVE BoundInv'
  BY <1>1, PanelCells DEF Draw, BoundInv
<1>2. CASE Redisplay BY <1>2 DEF Redisplay, BoundInv
<1>3. CASE ProcRRGetScreenInfo BY <1>3 DEF ProcRRGetScreenInfo, BoundInv
<1>4. ASSUME NEW r \in Rotations, ProcRRSetScreenConfig(r) PROVE BoundInv'
  BY <1>4, RRCrtcSetBound DEF ProcRRSetScreenConfig
<1>5. ASSUME NEW r \in Rotations \cup {NULL}, ProcRRSetCrtcConfig(r) PROVE BoundInv'
  BY <1>5, RRCrtcSetBound DEF ProcRRSetCrtcConfig
<1>6. CASE Regenerate
  <2>1. StartSize = Panel BY DEF StartSize
  <2>2. StartPixmap(buf') = [ptr |-> buf', width |-> Width, height |-> Height,
                             stride |-> Stride(StartRandr)]
    BY <2>1 DEF StartPixmap, Panel
  <2>3. QED BY <1>6, <2>1, <2>2, PanelCells DEF Regenerate, BoundInv, Stride
<1>7. CASE UNCHANGED vars BY <1>7 DEF vars, BoundInv
<1>8. QED BY <1>1, <1>2, <1>3, <1>4, <1>5, <1>6, <1>7 DEF Next

\* Not turned by a quarter, a pixel is moved along its row and its column, or
\* from the other end of them.
LEMMA PlaceInCells ==
  ASSUME RotationInv, BoundInv, Upright, ~failed, NEW p \in Cells
  PROVE  Place(p) \in Cells
<1>1. pixmap.width = Width /\ pixmap.height = Height BY DEF BoundInv
<1>2. p[1] \in 0 .. Width - 1 /\ p[2] \in 0 .. Height - 1 BY DEF Cells
<1>3. Width \in Nat /\ Height \in Nat BY ScreenAssumption
<1>4. shadow \in AllRotations /\ shadow.turn \in {1, 4}
  BY DEF RotationInv, RotationReported, Upright, Quarter, AllRotations, Turns
<1>5. Along("right", p) \in 0 .. Width - 1 /\ Along("left", p) \in 0 .. Width - 1
  BY <1>1, <1>2, <1>3 DEF Along
<1>6. Along("down", p) \in 0 .. Height - 1 /\ Along("up", p) \in 0 .. Height - 1
  BY <1>1, <1>2, <1>3 DEF Along
<1>7. Walk(shadow)[1] \in {"left", "right"} /\ Walk(shadow)[2] \in {"up", "down"}
  BY <1>4 DEF Walk, Back
<1>8. QED BY <1>5, <1>6, <1>7 DEF Place, Cells

\* Nor is its word outside the shadow buffer.
LEMMA AddressInBuffer ==
  ASSUME BoundInv, Upright, ~failed, NEW p \in Cells
  PROVE  Address(p) \in Addresses
<1>1. pixmap.stride = Width BY DEF BoundInv, Upright, Stride
<1>2. QED BY <1>1, ScreenAssumption, RowMajor DEF Address, Addresses, Cells

\* The invariants imply that updates stay in bounds.
LEMMA InvInBounds == RotationInv /\ BoundInv => InBounds
BY PlaceInCells, AddressInBuffer DEF InBounds, BoundInv

\* Started upright, no update of the frame buffer reads beyond the shadow
\* buffer or writes beyond the frame buffer, whatever the damage left from
\* before a configuration.
THEOREM UpdatesInBounds ==
  ASSUME ~Quarter(StartRandr)
  PROVE  Spec => []InBounds
<1>1. Init => RotationInv
  BY ScreenAssumption DEF Init, RotationInv, RotationReported
<1>2. Init => BoundInv
  <2> SUFFICES ASSUME Init PROVE BoundInv
    OBVIOUS
  <2>1. StartSize = Panel BY DEF StartSize
  <2>2. StartPixmap(buf) = [ptr |-> buf, width |-> Width, height |-> Height,
                            stride |-> Stride(StartRandr)]
    BY <2>1 DEF StartPixmap, Panel
  <2>3. QED BY <2>1, <2>2, PanelCells DEF Init, BoundInv, Stride
<1>3. RotationInv /\ BoundInv /\ [Next]_vars => RotationInv' /\ BoundInv'
  BY RotationStep, BoundStep
<1>4. QED BY <1>1, <1>2, <1>3, InvInBounds, PTL DEF Spec

-----------------------------------------------------------------------------
\* Two pixels have no address in common.
LEMMA RowMajorInjective ==
  ASSUME NEW w \in Nat
  PROVE  \A i, k \in 0 .. w - 1 : \A j, l \in Nat :
             j * w + i = l * w + k => i = k /\ j = l
<1> SUFFICES ASSUME NEW i \in 0 .. w - 1, NEW k \in 0 .. w - 1,
                    NEW j \in Nat, NEW l \in Nat, j * w + i = l * w + k
             PROVE  i = k /\ j = l
  OBVIOUS
<1>1. ASSUME j < l PROVE FALSE
  <2>1. (l - j - 1) * w \in Nat BY <1>1
  <2>2. (l - j - 1) * w = l * w - j * w - w OBVIOUS
  <2>3. QED BY <2>1, <2>2
<1>2. ASSUME l < j PROVE FALSE
  <2>1. (j - l - 1) * w \in Nat BY <1>2
  <2>2. (j - l - 1) * w = j * w - l * w - w OBVIOUS
  <2>3. QED BY <2>1, <2>2
<1>3. QED BY <1>1, <1>2

\* The same, of pixels of the screen.
LEMMA AddressInjective ==
  ASSUME BoundInv, Upright, ~failed, NEW p \in Cells, NEW q \in Cells,
         Address(p) = Address(q)
  PROVE  p = q
<1>1. pixmap.stride = Width BY DEF BoundInv, Upright, Stride
<1>2. Width \in Nat /\ Height \in Nat BY ScreenAssumption
<1>3. /\ p[1] \in 0 .. Width - 1 /\ p[2] \in Nat
      /\ q[1] \in 0 .. Width - 1 /\ q[2] \in Nat
  BY <1>2 DEF Cells
<1>4. p[2] * Width + p[1] = q[2] * Width + q[1] BY <1>1 DEF Address
<1>5. \A i, k \in 0 .. Width - 1 : \A j, l \in Nat :
          j * Width + i = l * Width + k => i = k /\ j = l
  BY <1>2, RowMajorInjective, Zenon
<1>6. p[1] = q[1] /\ p[2] = q[2]
  <2> DEFINE i == p[1]  k == q[1]  j == p[2]  l == q[2]
  <2>1. i \in 0 .. Width - 1 /\ k \in 0 .. Width - 1 /\ j \in Nat /\ l \in Nat
    BY <1>3
  <2>2. j * Width + i = l * Width + k BY <1>4
  <2> HIDE DEF i, j, k, l
  <2>3. i = k /\ j = l BY <1>5, <2>1, <2>2
  <2>4. QED BY <2>3 DEF i, j, k, l
<1>7. QED BY <1>6 DEF Cells

\* Nor do two pixels come to the same place.
LEMMA PlaceInjective ==
  ASSUME RotationInv, BoundInv, Upright, ~failed, NEW p \in Cells, NEW q \in Cells,
         Place(p) = Place(q)
  PROVE  p = q
<1>1. pixmap.width = Width /\ pixmap.height = Height BY DEF BoundInv
<1>2. Width \in Nat /\ Height \in Nat BY ScreenAssumption
<1>3. /\ p[1] \in Nat /\ p[2] \in Nat /\ q[1] \in Nat /\ q[2] \in Nat
  BY <1>2 DEF Cells
<1>4. shadow \in AllRotations /\ shadow.turn \in {1, 4}
  BY DEF RotationInv, RotationReported, Upright, Quarter, AllRotations, Turns
<1>5. Walk(shadow)[1] \in {"left", "right"} /\ Walk(shadow)[2] \in {"up", "down"}
  BY <1>4 DEF Walk, Back
<1>6. /\ Along(Walk(shadow)[1], p) = Along(Walk(shadow)[1], q)
      /\ Along(Walk(shadow)[2], p) = Along(Walk(shadow)[2], q)
  BY DEF Place
<1>7. p[1] = q[1] BY <1>1, <1>2, <1>3, <1>5, <1>6 DEF Along
<1>8. p[2] = q[2] BY <1>1, <1>2, <1>3, <1>5, <1>6 DEF Along
<1>9. QED BY <1>7, <1>8 DEF Cells

\* What is drawn and not damaged is in the frame buffer and on the panel.
PictureInv ==
    /\ drawn \subseteq Cells
    /\ Upright /\ ~failed =>
           \A p \in drawn \ damage :
               /\ frame[Place(p)] = bits[Address(p)]
               /\ panel[Place(p)] = bits[Address(p)]

LEMMA DrawPicture ==
  ASSUME RotationInv, BoundInv, PictureInv, NEW d \in Pixels(size), NEW c \in Colours,
         Draw(d, c)
  PROVE  PictureInv'
<1>1. d \in Cells BY PanelCells DEF BoundInv
<1>2. drawn' \subseteq Cells BY <1>1 DEF Draw, PictureInv
<1>3. ASSUME Upright', ~failed', NEW p \in drawn' \ damage'
      PROVE  /\ frame'[Place(p)'] = bits'[Address(p)']
             /\ panel'[Place(p)'] = bits'[Address(p)']
  <2>1. Upright /\ ~failed BY <1>3 DEF Draw, Upright
  <2>2. p \in drawn \ damage /\ p # d BY <1>3 DEF Draw
  <2>3. p \in Cells BY <2>2 DEF PictureInv
  <2>4. Place(p)' = Place(p) BY DEF Draw, Place, Along
  <2>5. Address(p)' = Address(p) BY DEF Draw, Address
  <2>6. Address(p) # Address(d) BY <1>1, <2>1, <2>2, <2>3, AddressInjective
  <2>7. Address(p) \in Addresses BY <2>1, <2>3, AddressInBuffer
  <2>8. bits'[Address(p)] = bits[Address(p)] BY <2>6, <2>7 DEF Draw
  <2>9. frame' = frame /\ panel' = panel BY DEF Draw
  <2>10. frame[Place(p)] = bits[Address(p)] /\ panel[Place(p)] = bits[Address(p)]
    BY <2>1, <2>2 DEF PictureInv
  <2>11. QED BY <2>4, <2>5, <2>8, <2>9, <2>10
<1>4. QED BY <1>2, <1>3 DEF PictureInv

\* The update of a cell is that of the one pixel that has its place there.
LEMMA RedisplayPicture ==
  ASSUME RotationInv, BoundInv, PictureInv, Redisplay
  PROVE  PictureInv'
<1>1. ASSUME Upright, ~failed, NEW p \in drawn
      PROVE  Updated[Place(p)] = bits[Address(p)]
  <2> DEFINE here == {q \in damage : Place(q) = Place(p) /\ Address(q) \in Addresses}
  <2>1. p \in Cells BY DEF PictureInv
  <2>3. Address(p) \in Addresses BY <1>1, <2>1, AddressInBuffer
  <2>4. Place(p) \in Cells BY <1>1, <2>1, PlaceInCells
  <2>5. Updated[Place(p)] = IF here = {} THEN frame[Place(p)]
                            ELSE bits[Address(CHOOSE q \in here : TRUE)]
    BY <2>4 DEF Updated
  <2>6. \A q \in here : q = p
    BY <1>1, <2>1, PlaceInjective DEF BoundInv
  <2>7. CASE p \in damage
    <3>1. p \in here BY <2>3, <2>7
    <3>2. (CHOOSE q \in here : TRUE) \in here BY <3>1
    <3>3. (CHOOSE q \in here : TRUE) = p BY <3>2, <2>6
    <3>4. QED BY <2>5, <3>1, <3>3
  <2>8. CASE p \notin damage
    <3>1. here = {} BY <2>6, <2>8
    <3>2. frame[Place(p)] = bits[Address(p)] BY <1>1, <2>8 DEF PictureInv
    <3>3. QED BY <2>5, <3>1, <3>2
  <2>9. QED BY <2>7, <2>8
<1>2. ASSUME Upright', ~failed', NEW p \in drawn' \ damage'
      PROVE  /\ frame'[Place(p)'] = bits'[Address(p)']
             /\ panel'[Place(p)'] = bits'[Address(p)']
  <2>1. Upright /\ ~failed /\ p \in drawn BY <1>2 DEF Redisplay, Upright
  <2>2. Place(p)' = Place(p) BY DEF Redisplay, Place, Along
  <2>3. Address(p)' = Address(p) BY DEF Redisplay, Address
  <2>4. frame' = Updated /\ panel' = Updated /\ bits' = bits BY DEF Redisplay
  <2>5. QED BY <1>1, <2>1, <2>2, <2>3, <2>4
<1>3. drawn' \subseteq Cells BY DEF Redisplay, PictureInv
<1>4. QED BY <1>2, <1>3 DEF PictureInv

\* A configuration that succeeds damages all it paints; after one that fails
\* nothing is promised.
LEMMA ConfigurationPicture ==
  ASSUME BoundInv, NEW r \in AllRotations, Succeed(r) \/ Fail
  PROVE  PictureInv'
<1>1. CASE Succeed(r)
  <2>1. drawn' \subseteq Pixels(Panel) /\ drawn' \subseteq damage'
    BY <1>1 DEF Succeed, Paint
  <2>2. QED BY <2>1, PanelCells DEF PictureInv
<1>2. CASE Fail
  <2>1. drawn' \subseteq Pixels(Panel) /\ failed' BY <1>2 DEF Fail, Paint
  <2>2. QED BY <2>1, PanelCells DEF PictureInv
<1>3. QED BY <1>1, <1>2

\* Nothing moves on the screen if the picture and its place do not change.
LEMMA StillPicture ==
  ASSUME PictureInv,
         UNCHANGED <<randr, buf, pixmap, size, shadow, damage, bits, frame, panel,
                     drawn, failed>>
  PROVE  PictureInv'
<1>1. \A p : Place(p)' = Place(p) BY DEF Place, Along
<1>2. \A p : Address(p)' = Address(p) BY DEF Address
<1>3. QED BY <1>1, <1>2 DEF PictureInv, Upright

\* RRCrtcSet paints and damages all of the screen or leaves the picture alone.
LEMMA RRCrtcSetPicture ==
  ASSUME BoundInv, PictureInv, NEW now, NEW r \in Rotations \cup {NULL},
         RRCrtcSet(now, r)
  PROVE  PictureInv'
<1>1. CASE UNCHANGED <<randr, buf, pixmap, size, shadow, damage, bits, frame, panel,
                       drawn, failed>>
  BY <1>1, StillPicture
<1>2. CASE r # NULL /\ (Succeed(r) \/ Fail)
  BY <1>2, ScreenAssumption, ConfigurationPicture
<1>3. QED BY <1>1, <1>2 DEF RRCrtcSet

\* No step loses what is drawn.
LEMMA PictureStep ==
  ASSUME ~Quarter(StartRandr)
  PROVE  RotationInv /\ BoundInv /\ PictureInv /\ [Next]_vars => PictureInv'
<1> SUFFICES ASSUME RotationInv, BoundInv, PictureInv, [Next]_vars PROVE PictureInv'
  OBVIOUS
<1>1. ASSUME NEW p \in Pixels(size), NEW c \in Colours, Draw(p, c) PROVE PictureInv'
  BY <1>1, DrawPicture
<1>2. CASE Redisplay BY <1>2, RedisplayPicture
<1>3. CASE ProcRRGetScreenInfo BY <1>3, StillPicture DEF ProcRRGetScreenInfo
<1>4. ASSUME NEW r \in Rotations, ProcRRSetScreenConfig(r) PROVE PictureInv'
  BY <1>4, RRCrtcSetPicture DEF ProcRRSetScreenConfig
<1>5. ASSUME NEW r \in Rotations \cup {NULL}, ProcRRSetCrtcConfig(r) PROVE PictureInv'
  BY <1>5, RRCrtcSetPicture DEF ProcRRSetCrtcConfig
<1>6. CASE Regenerate
  <2>1. StartSize = Panel BY DEF StartSize
  <2>2. drawn' = Pixels(Panel) /\ damage' = drawn' BY <1>6, <2>1 DEF Regenerate
  <2>3. QED BY <2>2, PanelCells DEF PictureInv
<1>7. CASE UNCHANGED vars BY <1>7, StillPicture DEF vars
<1>8. QED BY <1>1, <1>2, <1>3, <1>4, <1>5, <1>6, <1>7 DEF Next

\* Started upright, what is drawn on a screen of any size is on the display, at
\* the place its rotation or reflection gives it, or is damaged and will be.
THEOREM PictureMirrored ==
  ASSUME ~Quarter(StartRandr)
  PROVE  Spec => []Mirrored
<1> DEFINE IInv == RotationInv /\ BoundInv /\ PictureInv
<1>1. Init => IInv
  <2> SUFFICES ASSUME Init PROVE IInv
    OBVIOUS
  <2>1. StartSize = Panel BY DEF StartSize
  <2>2. RotationInv BY ScreenAssumption DEF Init, RotationInv, RotationReported
  <2>3. StartPixmap(buf) = [ptr |-> buf, width |-> Width, height |-> Height,
                            stride |-> Stride(StartRandr)]
    BY <2>1 DEF StartPixmap, Panel
  <2>4. BoundInv BY <2>1, <2>3, PanelCells DEF Init, BoundInv, Stride
  <2>5. PictureInv BY <2>1, PanelCells DEF Init, PictureInv
  <2>6. QED BY <2>2, <2>4, <2>5
<1>2. IInv /\ [Next]_vars => IInv'
  BY RotationStep, BoundStep, PictureStep
<1>3. IInv => Mirrored
  <2> SUFFICES ASSUME IInv, Upright, ~failed, NEW p \in drawn \ damage
               PROVE  Place(p) \in Cells /\ panel[Place(p)] = bits[Address(p)]
    BY DEF Mirrored
  <2>1. p \in Cells BY DEF PictureInv
  <2>2. Place(p) \in Cells BY <2>1, PlaceInCells
  <2>3. QED BY <2>2 DEF PictureInv
<1>4. QED BY <1>1, <1>2, <1>3, PTL DEF Spec
=============================================================================
