---------------------------- MODULE SisusbScreen ----------------------------
(***************************************************************************)
(* The screen of the sisusb server (hw/kdrive/sisusb/sisusb.c and          *)
(* sisusb_device.c, with hw/kdrive/src/kshadow.c and miext/shadow): all    *)
(* drawing goes to a shadow buffer; before the server sleeps, or when a    *)
(* client reads the screen back, the damaged part is copied, rotated, to   *)
(* the frame buffer priv->base, and the whole of that is written to the    *)
(* USB device.  The RandR extension rotates the screen, which replaces     *)
(* both buffers and may fail for want of memory; a server reset starts it  *)
(* all over.                                                               *)
(*                                                                         *)
(* All of this is done by the one thread of the server, a request, a wait  *)
(* or a reset at a time.  A pixel is one word (32 bits per pixel).  malloc *)
(* of priv->base, xalloc at startup and the write to the device succeed.   *)
(***************************************************************************)
EXTENDS Integers, FiniteSets

CONSTANTS
    Width, Height,      \* screen->width and height: the mode of the device
    StartRandr,         \* screen->randr: the rotation on the command line
    Rotations,          \* the rotations RandR clients ask for
    Buffers,            \* addresses xalloc may return for the shadow
    Colours,            \* what clients draw
    Ground,             \* the background of the root window, in Colours
    Junk,               \* what fresh memory holds, not in Colours
    NULL                \* no buffer, no mode

VARIABLES
    randr,              \* scrpriv->randr
    buf,                \* screen->fb[0].frameBuffer, the shadow buffer
    pixmap,             \* the screen pixmap: its ptr, width, height, stride
    size,               \* pScreen->width and height
    shadow,             \* pBuf->randr, NULL while no shadow is registered
    damage,             \* the region of pBuf->pDamage, in pixels
    bits,               \* the words the screen pixmap's pointer leads to
    frame,              \* priv->base
    panel,              \* the memory of the device
    crtc,               \* crtc->rotation, NULL while crtc->mode is
    drawn,              \* history: pixels drawn since the last configuration
    failed              \* history: the last configuration failed

vars == <<randr, buf, pixmap, size, shadow, damage, bits, frame, panel, crtc,
          drawn, failed>>

Turns == {1, 2, 4, 8}                   \* RR_Rotate_0, 90, 180, 270
AllRotations == [turn : Turns, reflect : SUBSET {"X", "Y"}]

ASSUME ScreenAssumption ==
    /\ Height \in Nat \ {0} /\ Width \in Nat /\ Height < Width
    /\ StartRandr \in AllRotations /\ Rotations \subseteq AllRotations
    /\ Buffers # {} /\ NULL \notin Buffers
    /\ Ground \in Colours /\ Junk \notin Colours

Addresses == 0 .. Width * Height - 1    \* of the words of a shadow buffer
Cells == (0 .. Width - 1) \X (0 .. Height - 1)      \* of the frame buffer
Panel == [width |-> Width, height |-> Height]

Quarter(r) == r.turn \in {2, 8}
Pixels(s) == (0 .. s.width - 1) \X (0 .. s.height - 1)
Address(p) == p[2] * pixmap.stride + p[1]

-----------------------------------------------------------------------------
Differ(s, t) == (s \ t) \cup (t \ s)

KdAddRotation(a, b) ==
    LET turn == a.turn * b.turn
    IN  [turn |-> IF turn > 8 THEN turn \div 16 ELSE turn,
         reflect |-> Differ(a.reflect, b.reflect)]

KdSubRotation(a, b) ==
    LET turn == (a.turn * 16) \div b.turn
    IN  [turn |-> IF turn > 8 THEN turn \div 16 ELSE turn,
         reflect |-> Differ(a.reflect, b.reflect)]

Back == [right |-> "left", left |-> "right", down |-> "up", up |-> "down"]

\* Which way the shadow is walked for a row and for a column of the frame.
Walk(r) ==
    LET over == IF "X" \in r.reflect THEN "left" ELSE "right"
        down == IF "Y" \in r.reflect THEN "up" ELSE "down"
    IN  CASE r.turn = 1 -> <<over, down>>
          [] r.turn = 2 -> <<down, Back[over]>>
          [] r.turn = 4 -> <<Back[over], Back[down]>>
          [] r.turn = 8 -> <<Back[down], over>>

Along(way, p) ==
    CASE way = "right" -> p[1]
      [] way = "left"  -> pixmap.width - 1 - p[1]
      [] way = "down"  -> p[2]
      [] way = "up"    -> pixmap.height - 1 - p[2]

\* Where shadowUpdateRotatePacked puts a pixel of the shadow.
Place(p) == <<Along(Walk(shadow)[1], p), Along(Walk(shadow)[2], p)>>

-----------------------------------------------------------------------------
\* KdSetRootClip(TRUE), MapWindow of the root: everything is exposed and
\* painted, but for a pixel of a window without background.
Paint(pix, s, old, pending) ==
    \E bare \in {{}} \cup {{p} : p \in Pixels(s)} :
        LET painted == Pixels(s) \ bare
            At(p) == p[2] * pix.stride + p[1]
        IN  /\ bits' = [a \in Addresses |->
                            IF \E p \in painted : At(p) = a THEN Ground ELSE old[a]]
            /\ damage' = pending \cup painted
            /\ drawn' = painted

Fresh == [a \in Addresses |-> Junk]
Unwritten == [c \in Cells |-> Junk]

\* KdShadowFbAlloc swaps the sides for a quarter turn.
Stride(r) == IF Quarter(r) THEN Height ELSE Width

\* KdScreenInit, sisusbCreateResources, InitRootWindow: the sides are those of
\* the rotation on the command line, all is painted.
StartSize == IF Quarter(StartRandr) THEN [width |-> Height, height |-> Width] ELSE Panel
StartPixmap(b) == [ptr |-> b, width |-> StartSize.width, height |-> StartSize.height,
                   stride |-> Stride(StartRandr)]

Init ==
    /\ randr = StartRandr /\ shadow = StartRandr
    /\ buf \in Buffers /\ pixmap = StartPixmap(buf) /\ size = StartSize
    /\ bits = [a \in Addresses |-> Ground]
    /\ damage = Pixels(StartSize) /\ drawn = Pixels(StartSize)
    /\ frame = Unwritten /\ panel = Unwritten
    /\ crtc = NULL /\ failed = FALSE

\* The server is reset: KdCloseScreen, then all of the above again; the device
\* is closed and opened and keeps what it shows.
Regenerate ==
    /\ randr' = StartRandr /\ shadow' = StartRandr
    /\ buf' \in Buffers /\ pixmap' = StartPixmap(buf') /\ size' = StartSize
    /\ bits' = [a \in Addresses |-> Ground]
    /\ damage' = Pixels(StartSize) /\ drawn' = Pixels(StartSize)
    /\ frame' = Unwritten
    /\ crtc' = NULL /\ failed' = FALSE
    /\ UNCHANGED panel

-----------------------------------------------------------------------------
\* A client draws a pixel, in a window or on the root.
Draw(p, c) ==
    /\ p \in Pixels(size)
    /\ bits' = [a \in Addresses |-> IF a = Address(p) THEN c ELSE bits[a]]
    /\ damage' = damage \cup {p}
    /\ drawn' = drawn \cup {p}
    /\ UNCHANGED <<randr, buf, pixmap, size, shadow, frame, panel, crtc, failed>>

\* The words of the frame buffer after shadowUpdateRotatePacked; what it reads
\* or writes beyond a buffer is left out.
Updated ==
    [c \in Cells |->
        LET here == {p \in damage : Place(p) = c /\ Address(p) \in Addresses}
        IN  IF here = {} THEN frame[c] ELSE bits[Address(CHOOSE p \in here : TRUE)]]

\* (Mutants: the device is written before the frame buffer is brought up to
\* date; the region is not emptied.)
RedisplayEarly ==
    /\ shadow # NULL /\ damage # {}
    /\ frame' = Updated
    /\ panel' = frame
    /\ damage' = {}
    /\ UNCHANGED <<randr, buf, pixmap, size, shadow, bits, crtc, drawn, failed>>
RedisplayAgain ==
    /\ shadow # NULL /\ damage # {}
    /\ frame' = Updated
    /\ panel' = frame'
    /\ UNCHANGED <<randr, buf, pixmap, size, shadow, damage, bits, crtc, drawn, failed>>
\* shadowRedisplay with sisusbShadowUpdate and sisusbResendFrame.
Redisplay ==
    /\ shadow # NULL /\ damage # {}
    /\ frame' = Updated
    /\ panel' = frame'
    /\ damage' = {}
    /\ UNCHANGED <<randr, buf, pixmap, size, shadow, bits, crtc, drawn, failed>>

-----------------------------------------------------------------------------
\* (Mutants: ModifyPixmapHeader is left out; the shadow is set up before randr
\* is assigned.)
SucceedSilently(r) ==
    /\ randr' = KdAddRotation(StartRandr, r)
    /\ buf' \in Buffers
    /\ shadow' = randr'
    /\ size' = Panel
    /\ frame' = Unwritten
    /\ Paint(pixmap, size', Fresh, damage)
    /\ failed' = FALSE
    /\ UNCHANGED <<pixmap, panel>>
SucceedOutOfOrder(r) ==
    /\ randr' = KdAddRotation(StartRandr, r)
    /\ buf' \in Buffers
    /\ shadow' = randr
    /\ size' = Panel
    /\ pixmap' = [ptr |-> buf', width |-> Width, height |-> Height,
                  stride |-> Stride(randr')]
    /\ frame' = Unwritten
    /\ Paint(pixmap', size', Fresh, damage)
    /\ failed' = FALSE
    /\ UNCHANGED panel
\* sisusbRandRSetConfig, the shadow buffer having been allocated or not, the
\* second time either (the first time, it has been freed).
Succeed(r) ==
    /\ randr' = KdAddRotation(StartRandr, r)
    /\ buf' \in Buffers
    /\ shadow' = randr'
    /\ size' = Panel
    /\ pixmap' = [ptr |-> buf', width |-> Width, height |-> Height,
                  stride |-> Stride(randr')]
    /\ frame' = Unwritten
    /\ Paint(pixmap', size', Fresh, damage)
    /\ failed' = FALSE
    /\ UNCHANGED panel

\* bail4.  The pixmap is not told of the buffer it has been given back.
Fail ==
    /\ buf' \in Buffers \cup {NULL}
    /\ size' = Panel
    /\ frame' = Unwritten
    /\ Paint(pixmap, size', bits, damage)
    /\ failed' = TRUE
    /\ UNCHANGED <<randr, shadow, pixmap, panel>>

\* RRCrtcSet, for what the crtc is set to already.
RRCrtcSet(now, r) ==
    \/ /\ now = r \/ r = NULL
       /\ crtc' = r
       /\ UNCHANGED <<randr, buf, pixmap, size, shadow, damage, bits, frame, panel,
                      drawn, failed>>
    \/ now # r /\ r # NULL /\ Succeed(r) /\ crtc' = r
    \/ now # r /\ r # NULL /\ Fail /\ crtc' = now

\* RRGetInfo: RandR takes over what sisusbRandRGetInfo says is in force.
InForce == KdSubRotation(randr, StartRandr)

ProcRRGetScreenInfo ==
    /\ crtc' = InForce
    /\ UNCHANGED <<randr, buf, pixmap, size, shadow, damage, bits, frame, panel,
                   drawn, failed>>

\* The crtc is first disabled where the size of the screen is to change.
ProcRRSetScreenConfig(r) == RRCrtcSet(IF size = Panel THEN InForce ELSE NULL, r)

\* There is no crtc to name before RRGetInfo has made one; what this reaches from
\* there, a client reaches by asking, disabling it and setting it.
ProcRRSetCrtcConfig(r) == RRCrtcSet(crtc, r)

Next ==
    \/ \E p \in Pixels(size), c \in Colours : Draw(p, c)
    \/ Redisplay
    \/ ProcRRGetScreenInfo
    \/ \E r \in Rotations : ProcRRSetScreenConfig(r)
    \/ \E r \in Rotations \cup {NULL} : ProcRRSetCrtcConfig(r)
    \/ Regenerate

\* WaitForSomething calls the block handlers every time Dispatch comes round.
Spec == Init /\ [][Next]_vars /\ WF_vars(Redisplay)

-----------------------------------------------------------------------------
TypeOK ==
    /\ randr \in AllRotations /\ shadow \in AllRotations \cup {NULL}
    /\ buf \in Buffers \cup {NULL}
    /\ pixmap.ptr \in Buffers /\ pixmap.stride \in {Width, Height}
    /\ size \in {Panel, StartSize}
    /\ [width |-> pixmap.width, height |-> pixmap.height] \in {Panel, StartSize}
    /\ bits \in [Addresses -> Colours \cup {Junk}]
    /\ frame \in [Cells -> Colours \cup {Junk}]
    /\ panel \in [Cells -> Colours \cup {Junk}]
    /\ crtc \in AllRotations \cup {NULL}
    /\ failed \in BOOLEAN

\* The screen is not turned by a quarter: the size sisusbSetScreenSizes gives it
\* is right for its rotation.
Upright == ~Quarter(randr)

\* What has been drawn since the screen was configured is on the display, at
\* the place the rotation gives it, or will be written there by the next
\* update, through every change of the configuration, while the screen is not
\* turned by a quarter.
Mirrored ==
    Upright /\ ~failed =>
        \A p \in drawn \ damage :
            Place(p) \in Cells /\ panel[Place(p)] = bits[Address(p)]

\* No update reads or writes outside the two buffers, unless the screen is
\* turned by a quarter or its configuration failed.
InBounds ==
    Upright /\ ~failed =>
        /\ pixmap.ptr = buf
        /\ \A p \in damage : Place(p) \in Cells /\ Address(p) \in Addresses

\* Whatever fails, the rotation RandR reports is the one the driver and the
\* shadow use.
RotationReported ==
    /\ shadow = randr
    /\ crtc # NULL => KdAddRotation(StartRandr, crtc) = randr

\* Every drawing reaches the display.
Shown == []<>(damage = {})

\* The sides are swapped for a quarter turn.
RRCrtcGetScanoutSize(r) ==
    IF Quarter(r) THEN [width |-> Height, height |-> Width] ELSE Panel
\* randr/rrcrtc.c:771 relies on it that the driver sets the size of the screen
\* along with the mode: the screen has the size the crtc scans out.
ScannedOut == crtc # NULL => size = RRCrtcGetScanoutSize(crtc)
=============================================================================
