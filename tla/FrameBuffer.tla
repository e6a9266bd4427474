----------------------------- MODULE FrameBuffer -----------------------------
(***************************************************************************)
(* The frame buffer driver video/fb.c: its probe, the modes it accepts and *)
(* what it makes of them, and the registers of the video controller, which *)
(* reads memory from then on.  Addresses are relative to the video memory. *)
(* The fb core is external: it checks the offsets of a pan against the     *)
(* mode, and nothing else of the caller's structure; sets a mode by        *)
(* fb_check_var, fb_set_par and fb_pan_display in turn; and holds its lock *)
(* meanwhile.                                                              *)
(***************************************************************************)
EXTENDS Words

CONSTANTS
    VIDEOMEM_SIZE,  \* bytes of video memory, a power of 2
    UintBits,       \* bits of an unsigned int
    MaxX, MaxY,     \* 640 and 480
    XPanStep,       \* fix.xpanstep
    Xs, Ys,         \* resolutions asked for
    Offsets,        \* pan offsets asked for
    Depths          \* depths and bits per pixel asked for

\* The first mode fits, which the code does not check.
ASSUME FrameBufferAssumption ==
    /\ UintBits \in Nat /\ UintBits >= 8
    /\ \E m \in 0..UintBits - 2 : VIDEOMEM_SIZE = Pow2[m]
    /\ MaxX \in Nat \ {0} /\ MaxY \in Nat \ {0} /\ XPanStep \in Nat \ {0}
    /\ \E k \in 0..UintBits - 2 : MaxX \div 2 <= Pow2[k] /\ MaxY * Pow2[k + 1] <= VIDEOMEM_SIZE
    /\ Xs \subseteq 0..Pow2[UintBits] - 1 /\ Ys \subseteq 0..Pow2[UintBits] - 1
    /\ Offsets \subseteq 0..Pow2[UintBits] - 1 /\ Depths \subseteq 0..Pow2[UintBits] - 1

VARIABLES
    stage,   \* where the driver is
    memory,  \* the pages of the video memory: "none", "held", "freed"
    var,     \* info->var
    line_length,  \* info->fix.line_length
    cr,      \* the controller's registers
    asked,   \* ghost: the lines that the mode was asked to have
    panned   \* ghost: the bits per pixel that the last pan was given

fbVars == <<stage, memory, var, line_length, cr, asked, panned>>

NoMode == [bpp |-> 0, xres |-> 0, yres |-> 0, xv |-> 0, yv |-> 0, xo |-> 0, yo |-> 0]
Off    == [enable |-> FALSE, base |-> 0, width |-> 0, height |-> 0, bpl |-> 0]

FbInit ==
    /\ stage = "init" /\ memory = "none"
    /\ var = NoMode /\ line_length = 0 /\ cr = Off /\ asked = 0 /\ panned = 0

FbOff ==
    /\ stage = "off" /\ memory = "none"
    /\ var = NoMode /\ line_length = 0 /\ cr = Off /\ asked = 0 /\ panned = 0

-----------------------------------------------------------------------------
Uint(n) == n % Pow2[UintBits]
\* A shift by a negative number, or by more than a word, uses its low bits.
By(n) == n % UintBits
Shl(n, by) == Uint(n * Pow2[By(by)])
ilog2(n) == IF n = 0 THEN -1 ELSE CHOOSE k \in 0..UintBits : Pow2[k] <= n /\ n < Pow2[k + 1]

Min2(a, b) == IF a < b THEN a ELSE b
Abs(n) == IF n < 0 THEN -n ELSE n

\* The mode asked for: depth is the sum of the lengths of its colours.
Depth(depth, bpp) == IF depth = 0 \/ Abs(depth - bpp) >= 8 THEN bpp ELSE depth

log2xres(xv) == ilog2(Uint(xv - 1)) + 1
log2bpl(xv, depth) == log2xres(xv) + ilog2(depth) - 3

\* Mutant: the virtual resolution is not rounded up for the check.
EnoughMemoryUnrounded(yres, xv, depth) == Shl(yres, ilog2(xv) + ilog2(depth) - 3) <= VIDEOMEM_SIZE

EnoughMemory(yres, xv, depth) == Shl(yres, log2bpl(xv, depth)) <= VIDEOMEM_SIZE

Accepted(yres, xv, depth) ==
    depth \in {4, 8, 16, 32} /\ EnoughMemory(yres, xv, depth)

\* iris_check_var
CheckVar(xres, yres, xv, depth) ==
    [bpp |-> depth,
     xres |-> Min2(xres, MaxX), yres |-> Min2(yres, MaxY),
     xv |-> Shl(1, log2xres(xv)), yv |-> VIDEOMEM_SIZE \div Pow2[By(log2bpl(xv, depth))],
     xo |-> 0, yo |-> 0]

\* iris_set_par: the controller is off while its registers change; the base is
\* not one of them.
Bpl(v) == Shl(v.xv, ilog2(v.bpp) - 3)
SetPar(v) ==
    /\ var' = v
    /\ cr' = [cr EXCEPT !.enable = TRUE, !.width = v.xres, !.height = v.yres, !.bpl = Bpl(v)]
    /\ line_length' = Bpl(v)

\* iris_pan_display: the depth is that of the structure it is given, the length
\* of a line that of the mode.
PanBase(xo, yo, bpp) == Uint(Shl(yo, ilog2(line_length)) + Shl(xo, ilog2(bpp) - 3))

-----------------------------------------------------------------------------
\* iris_init and iris_probe.

\* platform_driver_register, platform_device_alloc, platform_device_add
Load ==
    /\ stage = "init"
    /\ stage' \in {"probe", "failed"}
    /\ UNCHANGED <<memory, var, line_length, cr, asked, panned>>

GetFreePages ==
    /\ stage = "probe"
    /\ \/ memory' = "held" /\ stage' = "framebuffer_alloc"
       \/ memory' = memory /\ stage' = "failed"
    /\ UNCHANGED <<var, line_length, cr, asked, panned>>

FramebufferAlloc ==
    /\ stage = "framebuffer_alloc"
    /\ \/ stage' = "set_mode" /\ UNCHANGED memory
       \/ stage' = "failed" /\ memory' = "freed"
    /\ UNCHANGED <<var, line_length, cr, asked, panned>>

\* Nothing is undone when it fails: the controller goes on reading.
RegisterFramebuffer ==
    /\ stage = "register_framebuffer"
    /\ stage' \in {"ready", "failed"}
    /\ UNCHANGED <<memory, var, line_length, cr, asked, panned>>

\* The base is the start of the memory; the first mode is 16 bits deep, half as
\* wide as can be, and not checked for an error.
FirstMode ==
    /\ stage = "set_mode"
    /\ SetPar(CheckVar(MaxX \div 2, MaxY, MaxX \div 2, 16))
    /\ asked' = MaxY
    /\ stage' = "register_framebuffer"
    /\ UNCHANGED <<memory, panned>>

-----------------------------------------------------------------------------
\* Calls of the fb core.

SetMode ==
    /\ stage = "ready"
    /\ \E xres, xv \in Xs, yres \in Ys, d, bpp \in Depths :
          LET wide  == IF xv < xres THEN xres ELSE xv
              depth == Depth(d, bpp)
          IN  /\ Accepted(yres, wide, depth)
              /\ SetPar(CheckVar(xres, yres, wide, depth))
              /\ asked' = yres
    /\ stage' = "pan"
    /\ UNCHANGED <<memory, panned>>

PanDisplay ==
    /\ stage = "pan"
    /\ cr' = [cr EXCEPT !.base = PanBase(var.xo, var.yo, var.bpp)]
    /\ panned' = var.bpp
    /\ stage' = "ready"
    /\ UNCHANGED <<memory, var, line_length, asked>>

\* FBIOPAN_DISPLAY: the offsets that leave the resolution within the virtual
\* one; the differences are unsigned.
XOffsets == {xo \in Offsets : xo <= Uint(var.xv - var.xres) /\ xo % XPanStep = 0}
YOffsets == {yo \in Offsets : yo <= Uint(var.yv - var.yres)}

\* The structure is the caller's; only its offsets go into info->var.
Pan(xo, yo, bpp) ==
    /\ stage = "ready"
    /\ cr' = [cr EXCEPT !.base = PanBase(xo, yo, bpp)]
    /\ var' = [var EXCEPT !.xo = xo, !.yo = yo]
    /\ panned' = bpp
    /\ UNCHANGED <<stage, memory, line_length, asked>>

FbNext ==
    \/ Load
    \/ GetFreePages
    \/ FramebufferAlloc
    \/ FirstMode
    \/ RegisterFramebuffer
    \/ SetMode
    \/ PanDisplay
    \/ \E xo \in XOffsets, yo \in YOffsets, bpp \in Depths : Pan(xo, yo, bpp)

-----------------------------------------------------------------------------
\* The end of what the controller reads.
ScanEnd == cr.base + (cr.height - 1) * cr.bpl + (cr.width * var.bpp + 7) \div 8

\* The size of the lines asked for does not fit in an unsigned int, and the
\* test for enough memory has wrapped.
LineShift == log2bpl(var.xv, var.bpp)
Wrapped == asked * Pow2[IF LineShift < 0 THEN LineShift + UintBits ELSE LineShift] >= Pow2[UintBits]

\* The virtual width did not fit.
Narrow == var.xv < var.xres

\* A pan to the right was given more bits per pixel than the mode has, or none
\* that make a byte, which shift by a negative number.
Misplaced == var.xo # 0 /\ ilog2(panned) \notin 3..ilog2(var.bpp)

\* The controller reads the video memory and nothing else, and never after it
\* has been freed.  There are five exceptions: a mode of so many lines that
\* the test for enough memory wraps; one of so wide lines that the virtual
\* width does; the time between iris_set_par, which leaves the base of the old
\* mode, and the pan that follows; the offsets of a mode of 4 bits per pixel,
\* for which shifts are by -1; and a pan by a structure of another depth.
ScansVideoMemory ==
    cr.enable /\ cr.height > 0 =>
        /\ memory = "held"
        /\ \/ cr.base >= 0 /\ ScanEnd <= VIDEOMEM_SIZE
           \/ Wrapped
           \/ Narrow
           \/ stage = "pan"
           \/ var.bpp = 4 /\ <<var.xo, var.yo>> # <<0, 0>>
           \/ Misplaced
=============================================================================
