------------------------------- MODULE Fbdev -------------------------------
(***************************************************************************)
(* How the X server's pixels reach the screen                              *)
(* (tools/x11-port/ddx/fbdev.c): the damage accumulator, the flush timer,  *)
(* the read back of the glamor texture into the shadow, the writes of      *)
(* whole rows to /dev/fb0 and the cursor that is painted over them.        *)
(*                                                                         *)
(* Everything runs on the dispatch thread, so that a callback is a step.   *)
(* What makes it hard is the order of the callbacks, and that rows are     *)
(* written of which only a part was read back.                             *)
(*                                                                         *)
(* A cell is a block of pixels, and its value the number of the drawing it *)
(* shows; 0 is the empty root and -1 the text of the boot console.         *)
(***************************************************************************)
EXTENDS Integers, FiniteSets

CONSTANTS
    Rows, Cols,     \* the size of the screen
    Gap,            \* FBDEV_BAND_MERGE_GAP
    MaxBands,       \* FBDEV_MAX_FLUSH_BANDS
    IdleTicks,      \* FBDEV_IDLE_FLUSH_TICKS
    RowBuf,         \* the entries of rowbuf, in which a row of the sprite is composed
    Shapes,         \* the sets of cells that X draws at once
    Loops,          \* those that an animation draws again and again
    Sprites,        \* the sizes of cursors, <<width, height>>
    Origins,        \* where their upper left corner may be, on the screen or off it
    MaxDraws,       \* bound: drawings
    MaxFaults       \* bound: writes that /dev/fb0 cuts short

Cells == (0..Cols - 1) \X (0..Rows - 1)

ASSUME SizeAssumption == Rows \in Nat /\ Cols \in Nat
ASSUME FlushAssumption == Gap \in Nat \ {0} /\ MaxBands \in Nat /\ IdleTicks \in Nat \ {0}
ASSUME ShapesAssumption == Shapes \subseteq SUBSET Cells /\ Loops \subseteq Shapes
ASSUME CursorAssumption ==
    Sprites \subseteq Nat \X Nat /\ Origins \subseteq Int \X Int /\ RowBuf \in Nat
ASSUME BoundsAssumption == MaxDraws \in Nat /\ MaxFaults \in Nat

VARIABLES
    glamor,         \* fbdev_glamor_active: X draws into a texture, not into the shadow
    contiguous,     \* shadowStride == pitch
    tex,            \* what X has drawn
    shadow,         \* screen->fb.frameBuffer
    fb,             \* /dev/fb0: what is shown in a cell, under the sprite if it is there
    sprite,         \* the cells of /dev/fb0 that show the sprite
    damage,         \* damage that the block handler has not reported yet
    accum,          \* fbdevAccum
    dirty,          \* fbdevDirtySinceTick
    idle,           \* fbdevIdleTicks
    idleFlushed,    \* fbdevIdleFlushed
    cur,            \* fbdevCur
    draws, faults,  \* how much of the bounds is used
    silent, lost    \* history: cells drawn without damage, and cells whose write was cut
                    \* short, as long as the screen does not show them

flags == <<dirty, idle, idleFlushed>>
build == <<glamor, contiguous>>
history == <<draws, faults, silent, lost>>
vars == <<build, tex, shadow, fb, sprite, damage, accum, flags, cur, history>>

\* size and origin belong to the sprite that is to be shown, drawnSize and drawnAt to the one
\* that is on the screen.
Cursor == [have : BOOLEAN, visible : BOOLEAN, drawn : BOOLEAN,
           size : Nat \X Nat, at : Int \X Int, drawnSize : Nat \X Nat, drawnAt : Int \X Int]

Versions == 0..MaxDraws

TypeOK ==
    /\ glamor \in BOOLEAN /\ contiguous \in BOOLEAN
    /\ tex \in [Cells -> Versions] /\ shadow \in [Cells -> Versions]
    /\ fb \in [Cells -> Versions \cup {-1}]
    /\ sprite \subseteq Cells /\ damage \subseteq Cells /\ accum \subseteq Cells
    /\ dirty \in BOOLEAN /\ idle \in 0..IdleTicks /\ idleFlushed \in BOOLEAN
    /\ cur \in Cursor
    /\ draws \in Versions /\ faults \in 0..MaxFaults
    /\ silent \subseteq Cells /\ lost \subseteq Cells

\* fbdevCreateResources has armed the timers.  The combination of glamor with a shadow of
\* another stride "is not a v1 target".
Init ==
    /\ glamor \in BOOLEAN /\ contiguous \in BOOLEAN /\ (glamor => contiguous)
    /\ tex = [c \in Cells |-> 0]
    /\ shadow = [c \in Cells |-> 0]
    /\ fb = [c \in Cells |-> -1]
    /\ sprite = {} /\ damage = {} /\ accum = {}
    /\ dirty = FALSE /\ idle = 0 /\ idleFlushed = FALSE
    /\ cur = [have |-> FALSE, visible |-> FALSE, drawn |-> FALSE, size |-> <<0, 0>>,
              at |-> <<0, 0>>, drawnSize |-> <<0, 0>>, drawnAt |-> <<0, 0>>]
    /\ draws = 0 /\ faults = 0
    /\ silent = Cells /\ lost = {}

-----------------------------------------------------------------------------
(* Which rows a present ships, and which of their cells it reads back.  A     *)
(* region is a set of cells; X keeps it as bands of rows, and fbdevNextSpan   *)
(* joins bands with fewer than Gap clean rows between them.                   *)

RowsOf(R) == {c[2] : c \in R}

ShippedRows(R, gap) ==
    {y \in 0..Rows - 1 : \E a, b \in RowsOf(R) : a <= y /\ y <= b /\ b - a <= gap}

SpanStarts(W) == {y \in W : y - 1 \notin W}

\* The rows of the span that y is in.
SpanOf(y, W) == {z \in W : \A v \in 0..Rows - 1 : (y <= v /\ v <= z) \/ (z <= v /\ v <= y) => v \in W}

\* Slip: the columns of the first band are not widened by the bands that join it.
ReadBack_FirstBand(R, W) ==
    {c \in Cells : c[2] \in W /\ \E b \in R : /\ b[1] = c[1] /\ b[2] \in SpanOf(c[2], W)
                                              /\ \A a \in R : a[2] \in SpanOf(c[2], W) => b[2] <= a[2]}

\* The columns between the leftmost and the rightmost damage of a span.
ReadBack(R, W) ==
    {c \in Cells :
        /\ c[2] \in W
        /\ LET span == SpanOf(c[2], W)
               part == {a \in R : a[2] \in span} IN
           \E a, b \in part : a[1] <= c[1] /\ c[1] <= b[1]}

\* The bounding box, when there are too many spans.
MergeGap(R) == IF Cardinality(SpanStarts(ShippedRows(R, Gap))) > MaxBands THEN Rows ELSE Gap

-----------------------------------------------------------------------------
(* The cursor *)

Box(size, at) ==
    {c \in Cells : /\ at[1] <= c[1] /\ c[1] < at[1] + size[1]
                   /\ at[2] <= c[2] /\ c[2] < at[2] + size[2]}

\* fbdevCursorDrawBox goes on to draw.
Paints(k) == k.have /\ contiguous /\ k.size[1] <= RowBuf /\ Box(k.size, k.at) # {}

DrawnBox(k) == IF k.drawn THEN Box(k.drawnSize, k.drawnAt) ELSE {}

\* fbdevCursorErase, and then fbdevCursorDrawBox of the cursor k if show says so.
Repaint(k, show) ==
    LET erased == IF contiguous THEN DrawnBox(cur) ELSE {}
        painted == IF show /\ Paints(k) THEN Box(k.size, k.at) ELSE {} IN
    /\ fb' = [c \in Cells |-> IF c \in erased \cup painted THEN shadow[c] ELSE fb[c]]
    /\ sprite' = (sprite \ erased) \cup painted
    /\ cur' = IF show /\ Paints(k) THEN [k EXCEPT !.drawn = TRUE, !.drawnSize = k.size, !.drawnAt = k.at]
              ELSE [k EXCEPT !.drawn = FALSE]
    /\ UNCHANGED <<build, tex, shadow, damage, accum, flags, history>>

fbdevSetCursor(size, at) ==
    Repaint([cur EXCEPT !.have = TRUE, !.visible = TRUE, !.size = size, !.at = at], TRUE)

\* A NULL cursor, or one that cannot be converted.
HideCursor ==
    /\ cur.visible
    /\ Repaint([cur EXCEPT !.visible = FALSE], FALSE)

fbdevMoveCursor(at) ==
    /\ cur.visible /\ cur.have
    /\ Repaint([cur EXCEPT !.at = at], TRUE)

-----------------------------------------------------------------------------
(* Drawing and damage *)

\* X draws S into the texture or, without glamor, into the shadow.
Draw(S, damaged) ==
    /\ draws < MaxDraws
    /\ draws' = draws + 1
    /\ tex' = [c \in Cells |-> IF c \in S THEN draws + 1 ELSE tex[c]]
    /\ shadow' = IF glamor THEN shadow ELSE tex'
    /\ IF damaged THEN damage' = damage \cup S /\ UNCHANGED silent
       ELSE silent' = silent \cup S /\ UNCHANGED damage
    /\ UNCHANGED <<build, fb, sprite, accum, flags, cur, faults, lost>>

\* An animation draws again the picture it has drawn: damage without end.
Redraw(S) ==
    /\ \A c \in S : tex[c] # 0
    /\ damage' = damage \cup S
    /\ UNCHANGED <<build, tex, shadow, fb, sprite, accum, flags, cur, history>>

\* Slip: damage replaces what is accumulated.
fbdevShadowUpdate_Replaces ==
    /\ damage # {}
    /\ accum' = damage /\ damage' = {} /\ dirty' = TRUE
    /\ UNCHANGED <<build, tex, shadow, fb, sprite, idle, idleFlushed, cur, history>>

fbdevShadowUpdate ==
    /\ damage # {}
    /\ accum' = accum \cup damage
    /\ damage' = {}
    /\ dirty' = TRUE
    /\ UNCHANGED <<build, tex, shadow, fb, sprite, idle, idleFlushed, cur, history>>

-----------------------------------------------------------------------------
(* The flush timer *)

\* The rows that a write which is cut short leaves out: the rest of one span, or a row when
\* they are written one by one.
CutShort(W) ==
    {{}} \cup (IF faults = MaxFaults THEN {}
               ELSE {{z \in SpanOf(y, W) : z >= y} : y \in W} \cup
                    (IF contiguous THEN {} ELSE {{y} : y \in W}))

\* Slip: the sprite is repainted only when its first row was shipped.
fbdevCursorAfterFlush_TopRow(W) ==
    IF cur.drawn /\ cur.visible /\ Paints(cur) /\ cur.drawnAt[2] \in W
    THEN Box(cur.size, cur.at) ELSE {}

\* The cells over which the sprite is painted again after the rows W were written.
fbdevCursorAfterFlush(W) ==
    IF cur.drawn /\ cur.visible /\ Paints(cur)
       /\ \E y \in W : cur.drawnAt[2] <= y /\ y < cur.drawnAt[2] + cur.drawnSize[2]
    THEN Box(cur.size, cur.at) ELSE {}

\* fbdevFlushRegion for every span of the rows W, with the cells B read back.  The spans are
\* disjoint; a sprite that reaches into several of them is repainted after each, and over the
\* final shadow after the last.
Flush(W, B) ==
    \E cut \in CutShort(W) :
        LET written == {c \in Cells : c[2] \in W \ cut}
            painted == fbdevCursorAfterFlush(W) IN
        /\ shadow' = [c \in Cells |-> IF glamor /\ contiguous /\ c \in B THEN tex[c] ELSE shadow[c]]
        /\ fb' = [c \in Cells |-> IF c \in written \cup painted THEN shadow'[c] ELSE fb[c]]
        /\ sprite' = (sprite \ written) \cup painted
        /\ cur' = IF painted = {} THEN cur ELSE [cur EXCEPT !.drawnSize = cur.size, !.drawnAt = cur.at]
        /\ faults' = IF cut = {} THEN faults ELSE faults + 1
        /\ silent' = {c \in silent : fb'[c] # tex[c]}
        /\ lost' = {c \in lost \cup {d \in Cells : d[2] \in cut} : fb'[c] # tex[c]}
        /\ UNCHANGED <<build, tex, damage, draws>>

PresentDamage ==
    /\ dirty
    /\ dirty' = FALSE /\ idle' = 0 /\ idleFlushed' = FALSE
    /\ \E W \in {ShippedRows(accum, MergeGap(accum))} : \E B \in {ReadBack(accum, W)} : Flush(W, B)
    /\ accum' = {}

\* Slip: the idle flush ships what is accumulated, which is nothing.
IdleFlush_Accum ==
    /\ ~dirty /\ ~idleFlushed /\ idle + 1 >= IdleTicks
    /\ idle' = idle + 1 /\ idleFlushed' = TRUE
    /\ Flush(RowsOf(accum), accum)
    /\ UNCHANGED <<accum, dirty>>

\* The whole screen, once after IdleTicks quiet ticks.
IdleFlush ==
    /\ ~dirty /\ ~idleFlushed /\ idle + 1 >= IdleTicks
    /\ idle' = idle + 1 /\ idleFlushed' = TRUE
    /\ Flush(0..Rows - 1, Cells)
    /\ UNCHANGED <<accum, dirty>>

\* Slip: quiet ticks are counted past the idle flush.
QuietTick_Forever ==
    /\ ~dirty /\ (idleFlushed \/ idle + 1 < IdleTicks)
    /\ idle' = idle + 1
    /\ UNCHANGED <<build, tex, shadow, fb, sprite, damage, accum, dirty, idleFlushed, cur, history>>

QuietTick ==
    /\ ~dirty /\ ~idleFlushed /\ idle + 1 < IdleTicks
    /\ idle' = idle + 1
    /\ UNCHANGED <<build, tex, shadow, fb, sprite, damage, accum, dirty, idleFlushed, cur, history>>

fbdevFlushTimerCb == QuietTick \/ IdleFlush \/ PresentDamage

-----------------------------------------------------------------------------
Next ==
    \/ \E S \in Shapes, damaged \in BOOLEAN : Draw(S, damaged)
    \/ \E S \in Loops : Redraw(S)
    \/ \E size \in Sprites, at \in Origins : fbdevSetCursor(size, at)
    \/ HideCursor
    \/ \E at \in Origins : fbdevMoveCursor(at)
    \/ fbdevShadowUpdate
    \/ fbdevFlushTimerCb

Spec == Init /\ [][Next]_vars

\* The block handler runs before the server waits, and the timer expires.
Fairness == WF_vars(fbdevShadowUpdate) /\ WF_vars(fbdevFlushTimerCb)

FairSpec == Spec /\ Fairness

-----------------------------------------------------------------------------
(* Properties *)

\* A cell that shows something older than what X drew there has a reason: its damage is on
\* the way, nobody was told of it, or the device refused it.  Rows are rewritten of which
\* only some columns were read back (lines 345-361), and a tick empties the accumulator in
\* any case (lines 727-729).
StaleIsExplained ==
    /\ \A c \in Cells : fb[c] # tex[c] => c \in damage \cup accum \cup silent \cup lost
    /\ accum # {} => dirty

\* The sprite is on the screen exactly where the cursor is, whole, and nowhere else: no
\* flush leaves a part of it behind and no move a trail (lines 1637-1702).
CursorIsWhole ==
    /\ sprite = DrawnBox(cur)
    /\ cur.visible /\ Paints(cur) => sprite = Box(cur.size, cur.at)
    /\ ~cur.visible => sprite = {}

\* The display keeps the promises of Display; what the code calls "a no-op in content"
\* (lines 359-360) is that no cell ever goes back to an older drawing.
D == INSTANCE Display WITH content <- tex, shown <- fb, owed <- damage \cup accum, refused <- lost

ImplementsDisplay == D!Spec

\* "static content reaches the display even with no further damage" (lines 954-955), by "one
\* whole-screen present after a second of quiet" (lines 735-740): once damage has stopped the
\* idle flush lies ahead as long as it has not been done, and all that was drawn without damage
\* until then is shown after it, unless the device refuses it.  Every tick with damage counts
\* the quiet from the start (lines 724-726), so nothing is promised while damage goes on.
SilentIsShown == <>[](damage = {}) => (~idleFlushed ~> idleFlushed /\ silent \subseteq lost)

-----------------------------------------------------------------------------
(* What a comment of the file says and the code does not do.  The README names the *)
(* constants that show it violated.                                                *)

\* "To guarantee static content reaches the display we re-blit the ENTIRE shadow buffer to
\* /dev/fb0 on a timer, independent of damage" (lines 637-638).
StaticIsShown == \A c \in Cells : c \in silent ~> (c \notin silent \/ c \in lost)
=============================================================================
