---------------------------- MODULE FbdevProofs ----------------------------
(* Proofs about Fbdev, for a screen of any size and any number of bands. *)
EXTENDS Fbdev, TLAPS

USE DEF Versions

-----------------------------------------------------------------------------
(* Regions *)

LEMMA GapIsNat ==
    ASSUME NEW R PROVE MergeGap(R) \in Nat
BY SizeAssumption, FlushAssumption DEF MergeGap

\* Every damaged row is shipped, and every damaged cell of a shipped row is read back.
LEMMA ShipsDamage ==
    ASSUME NEW R \in SUBSET Cells, NEW gap \in Nat, NEW c \in R
    PROVE  c[2] \in ShippedRows(R, gap)
<1>1. c[2] \in 0..Rows - 1
    BY SizeAssumption DEF Cells
<1>2. c[2] - c[2] <= gap /\ c[2] <= c[2]
    BY <1>1, SizeAssumption
<1>3. c[2] \in RowsOf(R)
    BY DEF RowsOf
<1> QED
    BY <1>1, <1>2, <1>3 DEF ShippedRows

\* A damaged cell of a row that is shipped is among the cells read back for it.
LEMMA ReadsDamage ==
    ASSUME NEW R \in SUBSET Cells, NEW W, NEW c \in R, c[2] \in W
    PROVE  c \in ReadBack(R, W)
<1>1. c[2] \in SpanOf(c[2], W)
    <2>1. ASSUME NEW v \in 0..Rows - 1, (c[2] <= v /\ v <= c[2]) \/ (c[2] <= v /\ v <= c[2])
          PROVE  v \in W
        <3>1. c[2] = v
            BY <2>1, SizeAssumption DEF Cells
        <3> QED
            BY <3>1
    <2> QED
        BY <2>1 DEF SpanOf
<1>2. c \in Cells /\ c[1] <= c[1]
    BY SizeAssumption DEF Cells
<1> QED
    BY <1>1, <1>2 DEF ReadBack

\* The rows shipped are rows of the screen, and the cells read back are cells of it.
LEMMA RegionTypes ==
    ASSUME NEW R, NEW W, NEW gap
    PROVE  ShippedRows(R, gap) \subseteq 0..Rows - 1 /\ ReadBack(R, W) \subseteq Cells
BY DEF ShippedRows, ReadBack

\* A box, clipped as the driver clips it, stays on the screen.
LEMMA BoxType == ASSUME NEW size, NEW at PROVE Box(size, at) \subseteq Cells
BY DEF Box

-----------------------------------------------------------------------------
(* Type correctness *)

LEMMA PaintedType == ASSUME NEW W PROVE fbdevCursorAfterFlush(W) \subseteq Cells
BY BoxType DEF fbdevCursorAfterFlush

\* A flush of the rows W with the cursor box B leaves the framebuffer, the shadow and the
\* cursor typed.
LEMMA FlushType ==
    ASSUME TypeOK, NEW W \in SUBSET (0..Rows - 1), NEW B \in SUBSET Cells, Flush(W, B)
    PROVE  /\ shadow' \in [Cells -> Versions] /\ fb' \in [Cells -> Versions \cup {-1}]
           /\ sprite' \subseteq Cells /\ cur' \in Cursor /\ faults' \in 0..MaxFaults
           /\ silent' \subseteq Cells /\ lost' \subseteq Cells
           /\ UNCHANGED <<build, tex, damage, draws>>
<1>1. PICK cut \in CutShort(W) :
          LET written == {c \in Cells : c[2] \in W \ cut}
              painted == fbdevCursorAfterFlush(W) IN
          /\ shadow' = [c \in Cells |-> IF glamor /\ contiguous /\ c \in B THEN tex[c] ELSE shadow[c]]
          /\ fb' = [c \in Cells |-> IF c \in written \cup painted THEN shadow'[c] ELSE fb[c]]
          /\ sprite' = (sprite \ written) \cup painted
          /\ cur' = IF painted = {} THEN cur ELSE [cur EXCEPT !.drawnSize = cur.size, !.drawnAt = cur.at]
          /\ faults' = IF cut = {} THEN faults ELSE faults + 1
          /\ silent' = {c \in silent : fb'[c] # tex[c]}
          /\ lost' = {c \in lost \cup {d \in Cells : d[2] \in cut} : fb'[c] # tex[c]}
          /\ UNCHANGED <<build, tex, damage, draws>>
    BY DEF Flush
<1>2. shadow' \in [Cells -> Versions]
    BY <1>1 DEF TypeOK
<1>3. fb' \in [Cells -> Versions \cup {-1}]
    BY <1>1, <1>2 DEF TypeOK
<1>4. sprite' \subseteq Cells /\ silent' \subseteq Cells /\ lost' \subseteq Cells
    BY <1>1, PaintedType DEF TypeOK
<1>5. cur' \in Cursor
    BY <1>1 DEF TypeOK, Cursor
<1>6. faults' \in 0..MaxFaults
    BY <1>1, BoundsAssumption DEF TypeOK, CutShort
<1> QED
    BY <1>1, <1>2, <1>3, <1>4, <1>5, <1>6

\* A repaint of the cursor leaves everything typed and the idle counters alone.
LEMMA RepaintType ==
    ASSUME TypeOK, NEW k \in Cursor, NEW show, Repaint(k, show)
    PROVE  TypeOK' /\ UNCHANGED <<idle, idleFlushed>>
<1>1. fb' \in [Cells -> Versions \cup {-1}]
    BY DEF TypeOK, Repaint
<1>2. sprite' \subseteq Cells
    BY BoxType DEF TypeOK, Repaint, DrawnBox
<1>3. cur' \in Cursor
    BY DEF Repaint, Cursor
<1>4. UNCHANGED <<glamor, contiguous, tex, shadow, damage, accum, dirty, idle, idleFlushed, draws,
                  faults, silent, lost>>
    BY DEF Repaint, build, flags, history
<1> QED
    BY ONLY TypeOK, <1>1, <1>2, <1>3, <1>4 DEF TypeOK

\* As long as the idle flush has not been done, there is a tick left to count.
IdleInv == ~idleFlushed => idle < IdleTicks

\* The server comes up typed, with nothing idle.
LEMMA TypeInit == Init => TypeOK /\ IdleInv
<1> SUFFICES ASSUME Init PROVE TypeOK /\ IdleInv
    OBVIOUS
<1>1. cur \in Cursor
    BY DEF Init, Cursor
<1>2. 0 \in Versions /\ 0 \in 0..MaxFaults /\ 0 \in 0..IdleTicks /\ IdleInv
    BY FlushAssumption, BoundsAssumption DEF Init, IdleInv
<1>3. tex \in [Cells -> Versions] /\ shadow \in [Cells -> Versions]
    BY <1>2 DEF Init
<1>4. fb \in [Cells -> Versions \cup {-1}]
    BY DEF Init
<1>5. sprite \subseteq Cells /\ damage \subseteq Cells /\ accum \subseteq Cells
    BY DEF Init
<1>6. silent \subseteq Cells /\ lost \subseteq Cells
    BY DEF Init
<1>7. glamor \in BOOLEAN /\ contiguous \in BOOLEAN /\ dirty \in BOOLEAN /\ idleFlushed \in BOOLEAN
    BY DEF Init
<1>8. draws \in Versions /\ faults \in 0..MaxFaults /\ idle \in 0..IdleTicks
    BY <1>2 DEF Init
<1> QED
    BY ONLY <1>1, <1>2, <1>3, <1>4, <1>5, <1>6, <1>7, <1>8 DEF TypeOK

\* Draws, flushes, cursor moves and the idle timer leave the state typed.
LEMMA TypeStep == TypeOK /\ IdleInv /\ [Next]_vars => TypeOK' /\ IdleInv'
<1> SUFFICES ASSUME TypeOK, IdleInv, [Next]_vars PROVE TypeOK' /\ IdleInv'
    OBVIOUS
<1>1. ASSUME NEW S \in Shapes, NEW damaged \in BOOLEAN, Draw(S, damaged) PROVE TypeOK' /\ IdleInv'
    <2>1. draws' \in Versions /\ draws' = draws + 1 /\ S \subseteq Cells
        BY <1>1, BoundsAssumption, ShapesAssumption DEF Draw, TypeOK
    <2>2. tex' \in [Cells -> Versions]
        BY <1>1, <2>1 DEF Draw, TypeOK
    <2>3. shadow' \in [Cells -> Versions]
        BY <1>1, <2>2 DEF Draw, TypeOK
    <2>4. damage' \subseteq Cells /\ silent' \subseteq Cells
        BY <1>1, <2>1 DEF Draw, TypeOK
    <2>5. UNCHANGED <<glamor, contiguous, fb, sprite, accum, dirty, idle, idleFlushed, cur, faults,
                      lost>>
        BY <1>1 DEF Draw, build, flags
    <2> QED
        BY ONLY TypeOK, IdleInv, <2>1, <2>2, <2>3, <2>4, <2>5 DEF TypeOK, IdleInv
<1>2. ASSUME NEW size \in Sprites, NEW at \in Origins, fbdevSetCursor(size, at) PROVE TypeOK' /\ IdleInv'
    <2>1. [cur EXCEPT !.have = TRUE, !.visible = TRUE, !.size = size, !.at = at] \in Cursor
        BY CursorAssumption DEF TypeOK, Cursor
    <2> QED
        BY <1>2, <2>1, RepaintType DEF fbdevSetCursor, IdleInv
<1>3. CASE HideCursor
    <2>1. [cur EXCEPT !.visible = FALSE] \in Cursor
        BY DEF TypeOK, Cursor
    <2> QED
        BY <1>3, <2>1, RepaintType DEF HideCursor, IdleInv
<1>4. ASSUME NEW at \in Origins, fbdevMoveCursor(at) PROVE TypeOK' /\ IdleInv'
    <2>1. [cur EXCEPT !.at = at] \in Cursor
        BY CursorAssumption DEF TypeOK, Cursor
    <2> QED
        BY <1>4, <2>1, RepaintType DEF fbdevMoveCursor, IdleInv
<1>5. CASE fbdevShadowUpdate
    <2>1. accum' \subseteq Cells /\ damage' \subseteq Cells /\ dirty' \in BOOLEAN
        BY <1>5 DEF fbdevShadowUpdate, TypeOK
    <2>2. UNCHANGED <<glamor, contiguous, tex, shadow, fb, sprite, idle, idleFlushed, cur, draws,
                      faults, silent, lost>>
        BY <1>5 DEF fbdevShadowUpdate, build, history
    <2> QED
        BY ONLY TypeOK, IdleInv, <2>1, <2>2 DEF TypeOK, IdleInv
<1>6. CASE PresentDamage
    <2>1. PICK W \in SUBSET (0..Rows - 1), B \in SUBSET Cells : Flush(W, B)
        BY <1>6, RegionTypes DEF PresentDamage
    <2>2. dirty' = FALSE /\ idleFlushed' = FALSE /\ accum' = {} /\ idle' = 0
        BY <1>6 DEF PresentDamage
    <2>4. dirty' \in BOOLEAN /\ idleFlushed' \in BOOLEAN
        BY <2>2
    <2>5. accum' \subseteq Cells /\ idle' \in 0..IdleTicks
        BY <2>2, FlushAssumption
    <2>3. UNCHANGED <<glamor, contiguous, tex, damage, draws>>
        BY <2>1, FlushType DEF build
    <2>6. IdleInv'
        BY <2>2, FlushAssumption DEF IdleInv
    <2> QED
        BY <2>1, <2>3, <2>4, <2>5, <2>6, FlushType DEF TypeOK
<1>7. CASE IdleFlush
    <2>1. Flush(0..Rows - 1, Cells)
        BY <1>7 DEF IdleFlush
    <2>2. idle' = idle + 1 /\ idleFlushed' = TRUE /\ ~idleFlushed
        BY <1>7 DEF IdleFlush
    <2>4. accum' = accum /\ dirty' = dirty
        BY <1>7 DEF IdleFlush
    <2>5. idle' \in 0..IdleTicks
        BY <2>2, FlushAssumption DEF TypeOK, IdleInv
    <2>6. idleFlushed' \in BOOLEAN /\ IdleInv'
        BY <2>2 DEF IdleInv
    <2>3. UNCHANGED <<glamor, contiguous, tex, damage, draws>>
        BY <2>1, FlushType DEF build
    <2> QED
        BY <2>1, <2>3, <2>4, <2>5, <2>6, FlushType DEF TypeOK
<1>8. CASE QuietTick
    <2>1. idle' \in 0..IdleTicks /\ idle' < IdleTicks
        BY <1>8, FlushAssumption DEF QuietTick, TypeOK
    <2>2. UNCHANGED <<glamor, contiguous, tex, shadow, fb, sprite, damage, accum, dirty, idleFlushed,
                      cur, draws, faults, silent, lost>>
        BY <1>8 DEF QuietTick, build, history
    <2> QED
        BY ONLY TypeOK, IdleInv, <2>1, <2>2 DEF TypeOK, IdleInv
<1>9. ASSUME NEW S \in Loops, Redraw(S) PROVE TypeOK' /\ IdleInv'
    <2>1. damage' \subseteq Cells
        BY <1>9, ShapesAssumption DEF Redraw, TypeOK
    <2>2. UNCHANGED <<glamor, contiguous, tex, shadow, fb, sprite, accum, dirty, idle, idleFlushed,
                      cur, draws, faults, silent, lost>>
        BY <1>9 DEF Redraw, build, flags, history
    <2> QED
        BY ONLY TypeOK, IdleInv, <2>1, <2>2 DEF TypeOK, IdleInv
<1>10. CASE UNCHANGED vars
    BY <1>10 DEF vars, TypeOK, IdleInv, build, flags, history
<1> QED
    BY <1>1, <1>2, <1>3, <1>4, <1>5, <1>6, <1>7, <1>8, <1>9, <1>10 DEF Next, fbdevFlushTimerCb

\* Every variable keeps its type; the quiet ticks are never counted past the idle flush.
THEOREM TypeCorrect == Spec => []TypeOK
BY TypeInit, TypeStep, PTL DEF Spec

-----------------------------------------------------------------------------
(* Stale cells.  The screen is never ahead of the shadow, nor the shadow of X, so that the  *)
(* rows that are shipped without having been read back lose nothing; without glamor the     *)
(* shadow is what X draws into.                                                             *)

OrderInv ==
    /\ \A c \in Cells : fb[c] <= shadow[c] /\ shadow[c] <= tex[c] /\ tex[c] <= draws
    /\ glamor => contiguous
    /\ ~glamor => shadow = tex

\* What a flush does to a cell.
LEMMA FlushCells ==
    ASSUME TypeOK, OrderInv, NEW W \in SUBSET (0..Rows - 1), NEW B \in SUBSET Cells, Flush(W, B),
           NEW c \in Cells
    PROVE  /\ shadow'[c] \in {shadow[c], tex[c]} /\ (~glamor => shadow'[c] = shadow[c])
           /\ fb'[c] \in {fb[c], shadow'[c]}
           /\ c \in B /\ c[2] \in W => fb'[c] = tex[c] \/ c \in lost'
           /\ c \in silent /\ fb'[c] # tex[c] => c \in silent'
           /\ c \in lost /\ fb'[c] # tex[c] => c \in lost'
<1>1. PICK cut \in CutShort(W) :
          LET written == {d \in Cells : d[2] \in W \ cut}
              painted == fbdevCursorAfterFlush(W) IN
          /\ shadow' = [d \in Cells |-> IF glamor /\ contiguous /\ d \in B THEN tex[d] ELSE shadow[d]]
          /\ fb' = [d \in Cells |-> IF d \in written \cup painted THEN shadow'[d] ELSE fb[d]]
          /\ silent' = {d \in silent : fb'[d] # tex[d]}
          /\ lost' = {d \in lost \cup {e \in Cells : e[2] \in cut} : fb'[d] # tex[d]}
    BY DEF Flush
<1>2. shadow'[c] = IF glamor /\ contiguous /\ c \in B THEN tex[c] ELSE shadow[c]
    BY <1>1
<1>3. /\ fb'[c] \in {fb[c], shadow'[c]}
      /\ c[2] \in W /\ c[2] \notin cut => fb'[c] = shadow'[c]
    BY <1>1
<1>4. ASSUME c \in B, c[2] \in W, fb'[c] # tex[c]
      PROVE  c \in lost'
    <2>1. shadow'[c] = tex[c]
        BY <1>2, <1>4 DEF OrderInv
    <2>2. c[2] \in cut
        BY <1>3, <1>4, <2>1
    <2> QED
        BY <1>1, <1>4, <2>2
<1>5. /\ c \in silent /\ fb'[c] # tex[c] => c \in silent'
      /\ c \in lost /\ fb'[c] # tex[c] => c \in lost'
    BY <1>1
<1>6. shadow'[c] \in {shadow[c], tex[c]} /\ (~glamor => shadow'[c] = shadow[c])
    BY <1>2
<1> QED
    BY <1>3, <1>4, <1>5, <1>6

\* Nor does a flush take a cell out of order or back.
LEMMA FlushOrder ==
    ASSUME TypeOK, OrderInv, NEW W \in SUBSET (0..Rows - 1), NEW B \in SUBSET Cells, Flush(W, B)
    PROVE  OrderInv' /\ \A c \in Cells : fb[c] <= fb'[c] /\ fb'[c] <= tex[c]
<1>1. glamor' = glamor /\ contiguous' = contiguous /\ tex' = tex /\ draws' = draws
    BY DEF Flush, build
<1>2. ASSUME NEW c \in Cells
      PROVE  /\ fb'[c] <= shadow'[c] /\ shadow'[c] <= tex'[c] /\ tex'[c] <= draws'
             /\ fb[c] <= fb'[c] /\ fb'[c] <= tex[c]
             /\ ~glamor => shadow'[c] = tex[c]
    <2>1. fb[c] <= shadow[c] /\ shadow[c] <= tex[c] /\ tex[c] <= draws
        BY DEF OrderInv
    <2>2. fb[c] \in Int /\ shadow[c] \in Int /\ tex[c] \in Int /\ draws \in Int
        BY BoundsAssumption DEF TypeOK
    <2>3. ~glamor => shadow[c] = tex[c]
        BY DEF OrderInv
    <2>4. /\ shadow'[c] \in {shadow[c], tex[c]} /\ (~glamor => shadow'[c] = shadow[c])
          /\ fb'[c] \in {fb[c], shadow'[c]}
        BY FlushCells
    <2>5. fb'[c] <= shadow'[c] /\ shadow'[c] <= tex[c] /\ fb[c] <= fb'[c] /\ fb'[c] <= tex[c]
        BY ONLY <2>1, <2>2, <2>4
    <2> QED
        BY ONLY <1>1, <2>1, <2>3, <2>4, <2>5
<1>3. ~glamor => shadow' = tex'
    <2> SUFFICES ASSUME ~glamor PROVE shadow' = tex'
        OBVIOUS
    <2>1. shadow' \in [Cells -> Versions] /\ tex' \in [Cells -> Versions]
        BY <1>1, FlushType DEF TypeOK
    <2>2. \A c \in Cells : shadow'[c] = tex'[c]
        BY <1>1, <1>2
    <2> QED
        BY <2>1, <2>2
<1>4. (glamor => contiguous)'
    BY <1>1 DEF OrderInv
<1> QED
    BY <1>1, <1>2, <1>3, <1>4 DEF OrderInv

\* The cursor's repaints show the shadow and move nothing else.
LEMMA RepaintOrder ==
    ASSUME TypeOK, OrderInv, NEW k, NEW show, Repaint(k, show)
    PROVE  /\ OrderInv'
           /\ \A c \in Cells : /\ fb[c] <= fb'[c] /\ fb'[c] <= tex[c]
                               /\ fb[c] = tex[c] => fb'[c] = tex[c]
           /\ UNCHANGED <<glamor, contiguous, tex, shadow, damage, accum, dirty, draws, silent, lost>>
<1>1. UNCHANGED <<glamor, contiguous, tex, shadow, damage, accum, dirty, draws, silent, lost>>
    BY DEF Repaint, build, flags, history
<1>2. ASSUME NEW c \in Cells
      PROVE  /\ fb[c] <= fb'[c] /\ fb'[c] <= shadow[c] /\ fb'[c] <= tex[c]
             /\ fb[c] = tex[c] => fb'[c] = tex[c]
    <2>1. fb'[c] \in {fb[c], shadow[c]}
        BY DEF Repaint
    <2>2. fb[c] <= shadow[c] /\ shadow[c] <= tex[c]
        BY DEF OrderInv
    <2>3. fb[c] \in Int /\ shadow[c] \in Int /\ tex[c] \in Int
        BY BoundsAssumption DEF TypeOK
    <2> QED
        BY ONLY <2>1, <2>2, <2>3
<1> QED
    BY <1>1, <1>2 DEF OrderInv

\* At start no cell of the screen is newer than the shadow, nor of the shadow than the
\* texture, and nothing is stale.
LEMMA OrderInit == Init => OrderInv /\ StaleIsExplained
BY BoundsAssumption DEF Init, OrderInv, StaleIsExplained

\* Steps of the cursor: what a repaint does to staleness, and how it looks to Display.
LEMMA RepaintStep ==
    ASSUME TypeOK, OrderInv, StaleIsExplained, NEW k, NEW show, Repaint(k, show)
    PROVE  StaleIsExplained' /\ D!Refresh
<1>1. StaleIsExplained'
    BY RepaintOrder DEF StaleIsExplained
<1>2. D!Refresh
    BY RepaintOrder DEF D!Refresh
<1> QED
    BY <1>1, <1>2

\* The present of the accumulated damage: every accumulated cell is shown or refused.
LEMMA PresentStep ==
    ASSUME TypeOK, OrderInv, StaleIsExplained, PresentDamage
    PROVE  OrderInv' /\ StaleIsExplained' /\ D!Refresh
<1>1. PICK W \in SUBSET (0..Rows - 1), B \in SUBSET Cells :
          /\ W = ShippedRows(accum, MergeGap(accum)) /\ B = ReadBack(accum, W)
          /\ Flush(W, B)
    BY RegionTypes DEF PresentDamage
<1>2. accum' = {} /\ damage' = damage /\ tex' = tex
    BY <1>1 DEF PresentDamage, Flush
<1>3. OrderInv' /\ \A c \in Cells : fb[c] <= fb'[c] /\ fb'[c] <= tex[c]
    BY <1>1, FlushOrder
<1>4. ASSUME NEW c \in accum PROVE c \in Cells /\ (fb'[c] = tex[c] \/ c \in lost')
    <2>1. c \in Cells /\ accum \in SUBSET Cells
        BY DEF TypeOK
    <2>2. c \in B /\ c[2] \in W
        BY <1>1, <2>1, GapIsNat, ShipsDamage, ReadsDamage
    <2> QED
        BY <1>1, <2>1, <2>2, FlushCells
<1>5. ASSUME NEW c \in Cells, fb'[c] # tex[c]
      PROVE  c \in damage \cup silent' \cup lost'
    <2>1. CASE fb[c] = tex[c]
        <3>1. fb[c] <= fb'[c] /\ fb'[c] <= tex[c]
            BY <1>3
        <3>2. fb[c] \in Int /\ shadow[c] \in Int /\ tex[c] \in Int
            BY BoundsAssumption DEF TypeOK
        <3>3. fb'[c] \in {fb[c], shadow[c], tex[c]}
            BY <1>1, FlushCells
        <3> QED
            BY ONLY <2>1, <3>1, <3>2, <3>3, <1>5
    <2>2. CASE fb[c] # tex[c]
        <3>1. c \in damage \cup accum \cup silent \cup lost
            BY <2>2 DEF StaleIsExplained
        <3>2. c \in silent => c \in silent'
            BY <1>1, <1>5, FlushCells
        <3>3. c \in lost => c \in lost'
            BY <1>1, <1>5, FlushCells
        <3> QED
            BY <1>4, <1>5, <3>1, <3>2, <3>3
    <2> QED
        BY <2>1, <2>2
<1>6. StaleIsExplained'
    BY <1>2, <1>5 DEF StaleIsExplained
<1>7. D!Refresh
    BY <1>2, <1>3, <1>4 DEF D!Refresh
<1> QED
    BY <1>3, <1>6, <1>7

\* The idle flush, which reads the whole texture back, refreshes the display as the
\* abstract display does.
LEMMA IdleStep ==
    ASSUME TypeOK, OrderInv, StaleIsExplained, IdleFlush
    PROVE  OrderInv' /\ StaleIsExplained' /\ D!Refresh
<1>1. Flush(0..Rows - 1, Cells) /\ accum' = accum /\ dirty' = dirty
    BY DEF IdleFlush
<1>2. damage' = damage /\ tex' = tex
    BY <1>1 DEF Flush
<1>3. OrderInv' /\ \A c \in Cells : fb[c] <= fb'[c] /\ fb'[c] <= tex[c]
    BY <1>1, FlushOrder
<1>4. ASSUME NEW c \in Cells PROVE fb'[c] = tex[c] \/ c \in lost'
    <2>1. c[2] \in 0..Rows - 1
        BY DEF Cells
    <2> QED
        BY <1>1, <2>1, FlushCells, ZenonT(60)
<1>5. StaleIsExplained'
    BY <1>1, <1>2, <1>4 DEF StaleIsExplained
<1>6. D!Refresh
    BY <1>1, <1>2, <1>3 DEF D!Refresh
<1> QED
    BY <1>3, <1>5, <1>6

\* Every step keeps the order of the versions, explains what is stale, and is a step or a
\* stutter of the abstract display.
LEMMA StaleStep ==
    TypeOK /\ OrderInv /\ StaleIsExplained /\ [Next]_vars
        => OrderInv' /\ StaleIsExplained' /\ [D!Next]_(D!vars)
<1> SUFFICES ASSUME TypeOK, OrderInv, StaleIsExplained, [Next]_vars
             PROVE  OrderInv' /\ StaleIsExplained' /\ (D!Next \/ UNCHANGED D!vars)
    OBVIOUS
<1>1. ASSUME NEW S \in Shapes, NEW damaged \in BOOLEAN, Draw(S, damaged)
      PROVE  OrderInv' /\ StaleIsExplained' /\ D!Draw
    <2>1. /\ draws' = draws + 1 /\ S \subseteq Cells /\ draws \in Nat
          /\ tex' = [c \in Cells |-> IF c \in S THEN draws + 1 ELSE tex[c]]
          /\ shadow' = IF glamor THEN shadow ELSE tex'
          /\ UNCHANGED <<glamor, contiguous, fb, accum, dirty, lost>>
        BY <1>1, BoundsAssumption, ShapesAssumption DEF Draw, TypeOK, build, flags
    <2>2. damage \subseteq damage' /\ silent \subseteq silent' /\ S \subseteq damage' \cup silent'
        BY <1>1 DEF Draw
    <2>3. ASSUME NEW c \in Cells
          PROVE  /\ fb[c] \in Int /\ shadow[c] \in Int /\ tex[c] \in Int
                 /\ fb[c] <= shadow[c] /\ shadow[c] <= tex[c] /\ tex[c] <= draws
        BY BoundsAssumption DEF TypeOK, OrderInv
    <2>4. \A c \in Cells : tex[c] <= tex'[c] /\ tex'[c] <= draws'
        BY <2>1, <2>3
    <2>5. OrderInv'
        <3>1. ASSUME NEW c \in Cells
              PROVE  fb'[c] <= shadow'[c] /\ shadow'[c] <= tex'[c]
            <4>1. fb'[c] = fb[c] /\ shadow'[c] \in {shadow[c], tex'[c]} /\ tex'[c] \in {draws + 1, tex[c]}
                BY <2>1
            <4> QED
                BY ONLY <2>1, <2>3, <4>1
        <3>2. (glamor => contiguous)' /\ (~glamor => shadow = tex)'
            BY <2>1 DEF OrderInv
        <3> QED
            BY <2>4, <3>1, <3>2 DEF OrderInv
    <2>6. StaleIsExplained'
        BY <2>1, <2>2 DEF StaleIsExplained
    <2>7. D!Draw
        BY <2>1, <2>2, <2>4 DEF D!Draw
    <2> QED
        BY <2>5, <2>6, <2>7
<1>2. ASSUME NEW k, NEW show, Repaint(k, show) PROVE OrderInv' /\ StaleIsExplained' /\ D!Refresh
    BY <1>2, RepaintOrder, RepaintStep
<1>3. CASE fbdevShadowUpdate
    BY <1>3 DEF fbdevShadowUpdate, OrderInv, StaleIsExplained, D!vars, build, history
<1>4. CASE QuietTick
    BY <1>4 DEF QuietTick, OrderInv, StaleIsExplained, D!vars, build, history
<1>5. CASE UNCHANGED vars
    BY <1>5 DEF vars, OrderInv, StaleIsExplained, D!vars, build, history, flags
<1>6. CASE PresentDamage
    BY <1>6, PresentStep DEF D!Next
<1>7. CASE IdleFlush
    BY <1>7, IdleStep DEF D!Next
<1>8. CASE \E size \in Sprites, at \in Origins : fbdevSetCursor(size, at)
    BY <1>2, <1>8 DEF fbdevSetCursor, D!Next
<1>9. CASE HideCursor
    BY <1>2, <1>9 DEF HideCursor, D!Next
<1>10. CASE \E at \in Origins : fbdevMoveCursor(at)
    BY <1>2, <1>10 DEF fbdevMoveCursor, D!Next
<1>11. CASE \E S \in Loops : Redraw(S)
    <2>1. D!Draw
        BY <1>11, BoundsAssumption DEF Redraw, D!Draw, TypeOK, build, history, flags
    <2> QED
        BY <1>11, <2>1 DEF Redraw, OrderInv, StaleIsExplained, D!Next, build, history, flags
<1> QED
    BY <1>1, <1>3, <1>4, <1>5, <1>6, <1>7, <1>8, <1>9, <1>10, <1>11 DEF Next, fbdevFlushTimerCb, D!Next

\* A cell that shows something older than what X drew there has a reason: rows are rewritten
\* of which only some columns were read back, and nothing is lost by it.
THEOREM NothingIsForgotten == Spec => []StaleIsExplained
BY TypeInit, TypeStep, OrderInit, StaleStep, PTL DEF Spec

\* The display never goes back to older pixels and forgets no damage but what the device
\* refused: the safety half of ImplementsDisplay.
THEOREM DisplaySafety == Spec => D!Safety
<1>1. Init => D!Init
    BY BoundsAssumption DEF Init, D!Init
<1> QED
    BY <1>1, TypeInit, TypeStep, OrderInit, StaleStep, PTL DEF Spec, D!Safety

-----------------------------------------------------------------------------
(* The cursor.  A sprite that is drawn is the one that is to be shown, where it is to be     *)
(* shown: no callback returns between the erasing of the old one and the drawing of the new. *)

CursorInv ==
    /\ sprite = DrawnBox(cur)
    /\ cur.drawn => /\ cur.visible /\ Paints(cur)
                    /\ cur.drawnSize = cur.size /\ cur.drawnAt = cur.at
    /\ cur.visible /\ Paints(cur) => cur.drawn

\* The inductive invariant says that a visible cursor is whole on the screen.
LEMMA CursorInvIsEnough == CursorInv => CursorIsWhole
BY DEF CursorInv, CursorIsWhole, DrawnBox

\* Repainting the cursor, with the old box restored and the new one drawn, leaves it
\* whole.
LEMMA RepaintCursor ==
    ASSUME TypeOK, CursorInv, NEW k \in Cursor, NEW show \in BOOLEAN, show = k.visible,
           Repaint(k, show)
    PROVE  CursorInv'
<1>1. contiguous' = contiguous
    BY DEF Repaint, build
<1>2. sprite \ (IF contiguous THEN DrawnBox(cur) ELSE {}) = {}
    BY DEF CursorInv, DrawnBox, Paints
<1>3. CASE show /\ Paints(k)
    <2>1. sprite' = Box(k.size, k.at)
        BY <1>2, <1>3 DEF Repaint
    <2>2. cur' = [k EXCEPT !.drawn = TRUE, !.drawnSize = k.size, !.drawnAt = k.at]
        BY <1>3 DEF Repaint
    <2>3. /\ cur'.drawn /\ cur'.drawnSize = k.size /\ cur'.drawnAt = k.at /\ cur'.have = k.have
          /\ cur'.visible = k.visible /\ cur'.size = k.size /\ cur'.at = k.at
        BY <2>2 DEF Cursor
    <2> QED
        BY <1>1, <1>3, <2>1, <2>3 DEF CursorInv, DrawnBox, Paints
<1>4. CASE ~(show /\ Paints(k))
    <2>1. sprite' = {}
        BY <1>2, <1>4 DEF Repaint
    <2>2. cur' = [k EXCEPT !.drawn = FALSE]
        BY <1>4 DEF Repaint
    <2>3. /\ ~cur'.drawn /\ cur'.have = k.have
          /\ cur'.visible = k.visible /\ cur'.size = k.size /\ cur'.at = k.at
        BY <2>2 DEF Cursor
    <2> QED
        BY <1>1, <1>4, <2>1, <2>3 DEF CursorInv, DrawnBox, Paints
<1> QED
    BY <1>3, <1>4

\* A flush under the cursor draws it again over the rows it has shipped.
LEMMA FlushCursor ==
    ASSUME TypeOK, CursorInv, NEW W, NEW B, Flush(W, B)
    PROVE  CursorInv'
<1>1. PICK cut \in CutShort(W) :
          LET written == {c \in Cells : c[2] \in W \ cut}
              painted == fbdevCursorAfterFlush(W) IN
          /\ sprite' = (sprite \ written) \cup painted
          /\ cur' = IF painted = {} THEN cur ELSE [cur EXCEPT !.drawnSize = cur.size, !.drawnAt = cur.at]
          /\ contiguous' = contiguous
    BY DEF Flush, build
<1>2. CASE ~cur.drawn
    <2>1. sprite = {} /\ fbdevCursorAfterFlush(W) = {}
        BY <1>2 DEF CursorInv, DrawnBox, fbdevCursorAfterFlush
    <2>2. sprite' = {} /\ cur' = cur
        BY <1>1, <2>1
    <2> QED
        BY <1>1, <1>2, <2>1, <2>2 DEF CursorInv, DrawnBox, Paints
<1>3. CASE cur.drawn /\ \E y \in W : cur.drawnAt[2] <= y /\ y < cur.drawnAt[2] + cur.drawnSize[2]
    <2>1. fbdevCursorAfterFlush(W) = Box(cur.size, cur.at) /\ sprite = Box(cur.size, cur.at)
        BY <1>3 DEF CursorInv, DrawnBox, fbdevCursorAfterFlush
    <2>2. Box(cur.size, cur.at) # {}
        BY <1>3 DEF CursorInv, Paints
    <2>3. sprite' = Box(cur.size, cur.at)
        BY <1>1, <2>1
    <2>4. cur' = [cur EXCEPT !.drawnSize = cur.size, !.drawnAt = cur.at]
        BY <1>1, <2>1, <2>2
    <2>5. /\ cur'.drawn /\ cur'.drawnSize = cur.size /\ cur'.drawnAt = cur.at /\ cur'.have = cur.have
          /\ cur'.visible = cur.visible /\ cur'.size = cur.size /\ cur'.at = cur.at
        BY <1>3, <2>4 DEF TypeOK, Cursor
    <2> QED
        BY <1>1, <1>3, <2>3, <2>5 DEF CursorInv, DrawnBox, Paints
<1>4. CASE cur.drawn /\ ~ \E y \in W : cur.drawnAt[2] <= y /\ y < cur.drawnAt[2] + cur.drawnSize[2]
    <2>1. fbdevCursorAfterFlush(W) = {} /\ sprite = Box(cur.drawnSize, cur.drawnAt)
        BY <1>4 DEF CursorInv, DrawnBox, fbdevCursorAfterFlush
    <2>2. sprite \cap {c \in Cells : c[2] \in W \ cut} = {}
        BY <1>4, <2>1 DEF Box
    <2>3. sprite' = sprite /\ cur' = cur
        BY <1>1, <2>1, <2>2
    <2> QED
        BY <1>1, <1>4, <2>3 DEF CursorInv, DrawnBox, Paints
<1> QED
    BY <1>2, <1>3, <1>4

\* There is no cursor on the screen at start.
LEMMA CursorInit == Init => CursorInv
BY DEF Init, CursorInv, DrawnBox, Paints

\* No step leaves half a cursor on the screen.
LEMMA CursorStep == TypeOK /\ CursorInv /\ [Next]_vars => CursorInv'
<1> SUFFICES ASSUME TypeOK, CursorInv, [Next]_vars PROVE CursorInv'
    OBVIOUS
<1>1. ASSUME UNCHANGED <<contiguous, sprite, cur>> PROVE CursorInv'
    BY <1>1 DEF CursorInv, DrawnBox, Paints
<1>2. ASSUME NEW size \in Sprites, NEW at \in Origins, fbdevSetCursor(size, at) PROVE CursorInv'
    <2>1. [cur EXCEPT !.have = TRUE, !.visible = TRUE, !.size = size, !.at = at] \in Cursor
        BY CursorAssumption DEF TypeOK, Cursor
    <2>2. [cur EXCEPT !.have = TRUE, !.visible = TRUE, !.size = size, !.at = at].visible = TRUE
        BY DEF TypeOK, Cursor
    <2> QED
        BY <1>2, <2>1, <2>2, RepaintCursor DEF fbdevSetCursor
<1>3. CASE HideCursor
    <2>1. [cur EXCEPT !.visible = FALSE] \in Cursor
        BY DEF TypeOK, Cursor
    <2>2. [cur EXCEPT !.visible = FALSE].visible = FALSE
        BY DEF TypeOK, Cursor
    <2> QED
        BY <1>3, <2>1, <2>2, RepaintCursor DEF HideCursor
<1>4. ASSUME NEW at \in Origins, fbdevMoveCursor(at) PROVE CursorInv'
    <2>1. [cur EXCEPT !.at = at] \in Cursor
        BY CursorAssumption DEF TypeOK, Cursor
    <2>2. cur.visible \in BOOLEAN /\ cur.visible
        BY <1>4 DEF fbdevMoveCursor, TypeOK, Cursor
    <2>3. [cur EXCEPT !.at = at].visible = cur.visible
        BY DEF TypeOK, Cursor
    <2>4. [cur EXCEPT !.at = at].visible = TRUE
        BY <2>2, <2>3
    <2> QED
        BY <1>4, <2>1, <2>4, RepaintCursor DEF fbdevMoveCursor
<1>5. CASE PresentDamage \/ IdleFlush
    BY <1>5, FlushCursor DEF PresentDamage, IdleFlush
<1>6. CASE \E S \in Shapes, damaged \in BOOLEAN : Draw(S, damaged)
    BY <1>1, <1>6 DEF Draw, build
<1>7. CASE fbdevShadowUpdate \/ QuietTick
    BY <1>1, <1>7 DEF fbdevShadowUpdate, QuietTick, build
<1>8. CASE UNCHANGED vars
    BY <1>1, <1>8 DEF vars, build
<1>9. CASE \E S \in Loops : Redraw(S)
    BY <1>1, <1>9 DEF Redraw, build
<1> QED
    BY <1>2, <1>3, <1>4, <1>5, <1>6, <1>7, <1>8, <1>9 DEF Next, fbdevFlushTimerCb

\* The sprite is on the screen exactly where the cursor is, whole, whatever was flushed under
\* it and wherever it moved.
THEOREM CursorSafety == Spec => []CursorIsWhole
BY TypeInit, TypeStep, CursorInit, CursorStep, CursorInvIsEnough, PTL DEF Spec
=============================================================================
