----------------------------- MODULE VideoScaler -----------------------------
(***************************************************************************)
(* src/inc/VideoScaler.h: the region of interest that is cut out of every  *)
(* decoded frame before it is broadcast.  The members m_roi_* begin as the *)
(* options of the request; every frame that they do not fit changes them   *)
(* for good, so a stream whose size changes leaves its mark.               *)
(*                                                                         *)
(* The two axes are treated alike.  Pixels are left out: what is kept of a *)
(* delivered frame is how it was made and its size.                        *)
(***************************************************************************)
EXTENDS Integers

CONSTANTS
    IntMax,      \* INT_MAX: the options and the members of VideoScaler are ints
    Option,      \* values of the options roi_x, roi_y, roi_width and roi_height
    OutOption,   \* values of the options width and height, 0 when not given
    Dim          \* widths and heights of the frames

\* An option is whatever std::stoi returns.
ASSUME ScalerAssumption ==
    /\ IntMax \in Nat
    /\ Option \subseteq -(IntMax + 1)..IntMax
    /\ OutOption \subseteq -(IntMax + 1)..IntMax
    /\ Dim \subseteq 1..IntMax

VARIABLES
    x, y,            \* m_roi_x and m_roi_y
    w, h,            \* m_roi_width and m_roi_height
    asked,           \* the region of the options: position and extent by axis (history)
    fits,            \* the asked region fitted all frames so far (history)
    width, height,   \* m_width and m_height
    rotated,         \* m_rotation is not kVideoRotation_0
    fw, fh,          \* the size of the last frame, 0 before the first
    sent             \* the last frame given to m_broadcaster

roi        == <<x, y, w, h>>
scalerVars == <<roi, asked, fits, width, height, rotated, fw, fh, sent>>

Nothing == [how |-> "nothing", w |-> 0, h |-> 0]

\* A mutant of Clamp: the options are taken as they are.
Clamp_None(o) == o

\* The constructor ignores negative positions and extents.
Clamp(o) == IF o < 0 THEN 0 ELSE o

ScalerInit ==
    /\ \E ox, oy, ow, oh \in Option :
          /\ x = Clamp(ox) /\ y = Clamp(oy)
          /\ w = Clamp(ow) /\ h = Clamp(oh)
    /\ asked = [x |-> x, y |-> y, w |-> w, h |-> h]
    /\ fits = TRUE
    /\ width \in OutOption /\ height \in OutOption
    /\ rotated \in BOOLEAN
    /\ fw = 0 /\ fh = 0
    /\ sent = Nothing

-----------------------------------------------------------------------------
\* What an int holds of a sum or a product: the code's arithmetic wraps around.
Wrap(n) ==
    LET range == 2 * (IntMax + 1)
    IN  ((n + IntMax + 1) % range) - (IntMax + 1)

\* A mutant of Position: a position at the edge is taken to be inside.
Position_AtEdge(p, size) == IF p # 0 /\ p > size THEN 0 ELSE p

\* "The ROI position protrudes beyond the edge of the image": the position is ignored.
Position(p, size) == IF p # 0 /\ p >= size THEN 0 ELSE p

\* Mutants of Extent: an extent beyond the edge is kept; the defaults are filled in
\* before the protruding extents are dropped; a new frame always sets the extent.
Extent_Protruding(e, p, size) == IF e = 0 THEN size - p ELSE e
Extent_ZeroLast(e, p, size) == IF e = 0 THEN size - p ELSE IF Wrap(e + p) > size THEN 0 ELSE e
Extent_Rest(e, p, size) == size - p

\* An extent that protrudes is ignored; without an extent the rest of the frame is
\* taken.  The sum of a large extent and a position wraps around and seems to fit.
Extent(e, p, size) == IF e = 0 \/ Wrap(e + p) > size THEN size - p ELSE e

\* A division of createOutputBuffer, truncated towards zero.  RegionInsideFrame excludes
\* the divisor 0, which would end the process.
Quotient(n, d) ==
    IF d = 0 THEN 0
    ELSE IF n < 0 THEN -((-n) \div d) ELSE n \div d

\* createOutputBuffer for a region of rw x rh pixels.  Nothing tests the sizes that
\* I420Buffer::Create gets: negative options go through.
OutputWidth(rw, rh) ==
    IF width # 0 THEN width
    ELSE IF height = 0 THEN rw ELSE Quotient(Wrap(rw * height), rh)
OutputHeight(rw, rh) ==
    IF height # 0 THEN height
    ELSE IF width = 0 THEN rh ELSE Quotient(Wrap(rh * width), rw)

\* OnFrame for a frame of a x b pixels.  A region of full height and a native buffer
\* are passed on as they are.
OnFrame(a, b, native) ==
    LET px == Position(x, a)
        py == Position(y, b)
        ex == Extent(w, px, a)
        ey == Extent(h, py, b)
        how == IF (ex # a /\ ey = b /\ ~rotated) \/ native THEN "frame"
               ELSE IF ex # a \/ ey # b THEN "crop" ELSE "scale"
    IN
    /\ fw' = a /\ fh' = b
    /\ x' = px /\ y' = py
    /\ w' = ex /\ h' = ey
    /\ sent' = IF how = "frame"
               THEN [how |-> how, w |-> a, h |-> b]
               ELSE [how |-> how, w |-> OutputWidth(ex, ey), h |-> OutputHeight(ex, ey)]
    /\ fits' = (fits /\ asked.x < a /\ asked.x + asked.w <= a
                     /\ asked.y < b /\ asked.y + asked.h <= b)
    /\ UNCHANGED <<asked, width, height, rotated>>

ScalerNext == \E a, b \in Dim, native \in BOOLEAN : OnFrame(a, b, native)

ScalerSpec == ScalerInit /\ [][ScalerNext]_scalerVars

-----------------------------------------------------------------------------
\* The members keep their types: no option and no frame makes a position or an extent
\* negative.
ScalerTypeOK ==
    /\ {x, y, w, h} \subseteq 0..IntMax
    /\ asked \in [x : 0..IntMax, y : 0..IntMax, w : 0..IntMax, h : 0..IntMax]
    /\ fits \in BOOLEAN
    /\ width \in OutOption /\ height \in OutOption
    /\ rotated \in BOOLEAN
    /\ fw \in Dim \cup {0} /\ fh \in Dim \cup {0}
    /\ sent \in [how : {"nothing", "frame", "crop", "scale"}, w : Int, h : Int]

\* Whatever sizes the frames had before, the region that CropAndScaleFrom is given is not
\* empty (createOutputBuffer divides by its extents), and on each axis it lies inside the
\* frame it is applied to, unless the sum of the asked position and extent of that axis is
\* no int: then OnFrame's test of the far edge is passed by a region that protrudes.
RegionInsideFrame ==
    fw # 0 /\ fh # 0 =>
        /\ w > 0 /\ (asked.x + asked.w <= IntMax => x + w <= fw)
        /\ h > 0 /\ (asked.y + asked.h <= IntMax => y + h <= fh)

\* A frame of the same size as the one before leaves the region alone: the picture
\* does not jump while the stream stays the same.
RegionIsStable == [][fw' = fw /\ fh' = fh => UNCHANGED roi]_scalerVars

\* A region that was asked for and fits every frame of the stream is the one in use,
\* whatever else changed.
AskedRegionIsKept ==
    fits => /\ x = asked.x /\ (asked.w > 0 => w = asked.w)
            /\ y = asked.y /\ (asked.h > 0 => h = asked.h)
=============================================================================
