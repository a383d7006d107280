--------------------------- MODULE VTStateProofs ---------------------------
(***************************************************************************)
(* What holds of the cursor, the region and the scrolls for every set of   *)
(* window sizes and every argument of the sequences.                       *)
(*                                                                         *)
(* The bounds of the cursor are not inductive alone: they need the region  *)
(* to be on the screen, the saved cursor to be on it and, in origin mode,  *)
(* in the region, and the tab stops to be columns.                         *)
(***************************************************************************)
EXTENDS VTState, TLAPS

Settings ==
  /\ RegionOnScreen
  /\ scrollregion_end >= None
  /\ 0 <= saved.row /\ saved.row < rows /\ 0 <= saved.col /\ saved.col < cols
  /\ "origin" \in mode => scrollregion_end # None /\ InRegion(saved.row)

Placed ==
  /\ 0 <= row /\ row < rows /\ 0 <= col /\ col < cols
  /\ "origin" \in mode => InRegion(row)

Good == Settings /\ Placed /\ tabstops \subseteq 0 .. cols - 1

Inside(m) ==
  /\ 0 <= m.src.start_row /\ m.src.start_row < m.src.end_row /\ m.src.end_row <= rows
  /\ 0 <= m.src.start_col /\ m.src.start_col < m.src.end_col /\ m.src.end_col <= cols
  /\ 0 <= m.src.start_row - m.downward /\ m.src.end_row - m.downward <= rows
  /\ 0 <= m.src.start_col - m.rightward /\ m.src.end_col - m.rightward <= cols
  /\ m.src.start_row - m.downward < m.src.end_row - m.downward
  /\ m.src.start_col - m.rightward < m.src.end_col - m.rightward

MovesInside == \A m \in moves : Inside(m)

Inv == TypeOK /\ PhantomAtMargin /\ (causes = {} => Good /\ MovesInside)

USE DEF None

-----------------------------------------------------------------------------
(* The settings.                                                           *)

LEMMA SizesAre ==
  ASSUME NEW s \in Sizes
  PROVE  s[1] \in Nat \ {0} /\ s[2] \in Nat \ {0} /\ s = <<s[1], s[2]>>
  BY VTStateAssumption

LEMMA Parts ==
  ASSUME TypeOK
  PROVE  /\ rows \in Nat \ {0} /\ cols \in Nat \ {0}
         /\ row \in Int /\ col \in Int /\ at_phantom \in BOOLEAN
         /\ scrollregion_start \in Int /\ scrollregion_end \in Int
         /\ saved.row \in Int /\ saved.col \in Int
         /\ End \in Int
  <1>1. <<rows, cols>> \in Sizes
    BY Zenon DEF TypeOK
  <1>2. rows \in Nat \ {0} /\ cols \in Nat \ {0}
    BY <1>1, VTStateAssumption
  <1>3. /\ row \in Int /\ col \in Int /\ at_phantom \in BOOLEAN
        /\ scrollregion_start \in Int /\ scrollregion_end \in Int
        /\ saved \in Position
    BY Zenon DEF TypeOK
  <1>4. saved.row \in Int /\ saved.col \in Int
    BY <1>3 DEF Position
  <1> QED BY <1>2, <1>3, <1>4 DEF End

(* The type of a next state, from that of its parts.                       *)
LEMMA NextType ==
  ASSUME TypeOK, UNCHANGED <<rows, cols, scrollregion_start, scrollregion_end, mode, saved,
                             tabstops>>,
         causes' \subseteq {"margins", "saved", "saved outside", "unbounded", "width"},
         row' \in Int, col' \in Int, at_phantom' \in BOOLEAN
  PROVE  TypeOK'
  BY Zenon DEF TypeOK

(* No cause is left out by Cause.                                          *)
LEMMA NoCauseSettings ==
  ASSUME Cause' = {}, scrollregion_end' \in Int, rows' \in Int
  PROVE  /\ RegionOnScreen'
         /\ saved'.row < rows' /\ saved'.col < cols'
         /\ "origin" \in mode' => scrollregion_end' # None /\ InRegion(saved.row)'
  BY DEF Cause

LEMMA SettingsCauseNone ==
  ASSUME Settings
  PROVE  Cause = {}
  BY DEF Settings, Cause

LEMMA CauseType == Cause \subseteq {"margins", "saved", "saved outside", "unbounded", "width"}
  BY DEF Cause

(* A step that looks at its settings finds them good when it adds no cause.*)
LEMMA Observed ==
  ASSUME Inv, Observe, scrollregion_end' \in Int, rows' \in Int, scrollregion_end' >= None,
         causes' = {}, saved'.row >= 0, saved'.col >= 0
  PROVE  causes = {} /\ Settings' /\ Good
  <1>1. causes = {} /\ Cause' = {}
    BY DEF Observe
  <1> QED BY <1>1, NoCauseSettings DEF Inv, Settings

LEMMA InitInv == Init => Inv
  <1> SUFFICES ASSUME Init PROVE Inv
    OBVIOUS
  <1>1. PICK s \in Sizes : rows = s[1] /\ cols = s[2]
    BY DEF Init
  <1>2. rows \in Nat \ {0} /\ cols \in Nat \ {0} /\ <<rows, cols>> \in Sizes
    BY <1>1, SizesAre
  <1>3. tabstops \subseteq 0 .. cols - 1
    BY <1>2 DEF Init
  <1>4. TypeOK
    <2>1. /\ row \in Int /\ col \in Int
          /\ scrollregion_start \in Int /\ scrollregion_end \in Int
          /\ tabstops \subseteq Int
      BY <1>2, <1>3 DEF Init
    <2>2. at_phantom \in BOOLEAN /\ mode \subseteq Mode
      BY Zenon DEF Init, Mode
    <2>3. saved \in Position
      BY DEF Init, Position
    <2> QED BY <1>2, <2>1, <2>2, <2>3, Zenon DEF Init, TypeOK
  <1>5. Good /\ MovesInside
    BY <1>2, <1>3 DEF Init, Good, Settings, Placed, RegionOnScreen, InRegion, End, MovesInside,
      None
  <1> QED BY <1>4, <1>5 DEF Inv, Init, PhantomAtMargin

-----------------------------------------------------------------------------
(* Scrolling.                                                              *)

(* What is copied of a rectangle on the screen is on it, and so is where   *)
(* it goes.                                                                *)
LEMMA ScrolledInside ==
  ASSUME TypeOK,
         NEW r1 \in Int, NEW r2 \in Int, NEW c1 \in Int, NEW c2 \in Int,
         0 <= r1, r2 <= rows, 0 <= c1, c2 <= cols,
         NEW down \in Int, NEW right \in Int,
         r1 < r2 \/ right = 0, c1 < c2 \/ down = 0
  PROVE  \A m \in Scrolled(Rect(r1, r2, c1, c2), down, right) : Inside(m)
  <1> SUFFICES ASSUME NEW m \in Scrolled(Rect(r1, r2, c1, c2), down, right)
               PROVE  Inside(m)
    OBVIOUS
  <1> DEFINE pos(n) == IF n > 0 THEN n ELSE 0
  <1>1. /\ ~(down = 0 /\ right = 0)
        /\ Abs(down) < r2 - r1 /\ Abs(right) < c2 - c1
        /\ m = [src |-> Rect(r1 + pos(down), r2 - pos(-down),
                             c1 + pos(right), c2 - pos(-right)),
                downward |-> down, rightward |-> right]
    BY DEF Scrolled, AllLeaves, Rect, Abs
  <1>2. rows \in Nat /\ cols \in Nat
    BY Parts
  <1> QED BY <1>1, <1>2 DEF Inside, Rect, Abs

LEMMA RegionBounds ==
  ASSUME TypeOK, Good
  PROVE  /\ End \in Int /\ scrollregion_start \in Int
         /\ 0 <= scrollregion_start /\ scrollregion_start < End /\ End <= rows
         /\ rows \in Nat \ {0} /\ cols \in Nat \ {0}
  BY Parts DEF Good, Settings, RegionOnScreen

LEMMA RegionScroll ==
  ASSUME TypeOK, Good, NEW n \in Int
  PROVE  \A m \in Scrolled(Region, n, 0) : Inside(m)
  <1>1. cols \in Int /\ cols > 0
    BY Parts
  <1>2. /\ End \in Int /\ scrollregion_start \in Int /\ 0 \in Int /\ 0 <= 0 /\ cols <= cols
        /\ 0 <= scrollregion_start /\ scrollregion_start < End /\ End <= rows
    BY <1>1, RegionBounds
  <1> QED BY <1>1, <1>2, ScrolledInside, Zenon DEF Region

(* A linefeed stays on the screen, and in the region.                      *)
LEMMA LinefeedGood ==
  ASSUME TypeOK, Good
  PROVE  /\ LinefeedRow \in Int /\ 0 <= LinefeedRow /\ LinefeedRow < rows
         /\ InRegion(row) => InRegion(LinefeedRow)
         /\ \A m \in LinefeedMoves : Inside(m)
  <1>1. row \in Int /\ 0 <= row /\ row < rows
    BY Parts DEF Good, Placed
  <1>2. \A m \in LinefeedMoves : Inside(m)
    BY RegionScroll DEF LinefeedMoves
  <1> QED BY <1>1, <1>2, RegionBounds DEF LinefeedRow, InRegion

LEMMA LinefeedType == ASSUME TypeOK PROVE LinefeedRow \in Int
  BY Parts DEF LinefeedRow

-----------------------------------------------------------------------------
(* The cursor.                                                             *)

LEMMA CancelledPhantom ==
  ASSUME Inv, NEW p \in BOOLEAN, p => at_phantom, at_phantom' = Cancelled(p), UNCHANGED cols
  PROVE  at_phantom' \in BOOLEAN /\ PhantomAtMargin'
  <1>1. at_phantom' \in BOOLEAN
    BY Zenon DEF Cancelled
  <1>2. at_phantom' => at_phantom /\ col' = col
    BY DEF Cancelled
  <1> QED BY <1>1, <1>2 DEF Inv, PhantomAtMargin

(* The bounds of on_csi put any cursor on the screen, and in the region.   *)
LEMMA CursorToType ==
  ASSUME TypeOK, UNCHANGED <<rows, cols, scrollregion_start, scrollregion_end>>,
         NEW r \in Int, NEW c \in Int, CursorTo(r, c)
  PROVE  row' \in Int /\ col' \in Int
  BY Parts DEF CursorTo, BoundRow, BoundCol

LEMMA Clamp ==
  ASSUME NEW lo \in Int, NEW hi \in Int, lo <= hi, NEW x \in Int
  PROVE  (LET up == IF x < lo THEN lo ELSE x IN IF up > hi THEN hi ELSE up) \in lo .. hi
  OBVIOUS

LEMMA CursorToPlaced ==
  ASSUME Settings', NEW R \in Nat \ {0}, NEW C \in Nat \ {0}, NEW S \in Int, NEW E \in Int,
         rows' = R, cols' = C, scrollregion_start' = S, scrollregion_end' = E,
         NEW r \in Int, NEW c \in Int, CursorTo(r, c)
  PROVE  Placed'
  <1>1. 0 <= col' /\ col' < cols'
    <2>1. col' \in 0 .. C - 1
      BY Clamp DEF CursorTo, BoundCol
    <2> QED BY <2>1
  <1>2. CASE "origin" \in mode'
    <2>1. E >= None /\ E # None /\ End' = (IF E > None THEN E ELSE R)
      BY <1>2 DEF Settings, End
    <2>2. End' = E
      BY <2>1
    <2>3. 0 <= S /\ S < E /\ E <= R
      BY <1>2, <2>2 DEF Settings, RegionOnScreen
    <2>4. row' \in S .. E - 1
      BY <1>2, <2>3, Clamp DEF CursorTo, BoundRow
    <2>5. 0 <= row' /\ row' < rows' /\ scrollregion_start' <= row' /\ row' < End'
      BY <2>2, <2>3, <2>4
    <2> QED BY <1>1, <2>5 DEF Placed, InRegion
  <1>3. CASE "origin" \notin mode'
    <2>1. row' \in 0 .. R - 1
      BY <1>3, Clamp DEF CursorTo, BoundRow
    <2>2. 0 <= row' /\ row' < rows'
      BY <2>1
    <2> QED BY <1>1, <1>3, <2>2 DEF Placed
  <1> QED BY <1>2, <1>3

LEMMA CursorToGood ==
  ASSUME Inv, causes = {}, UNCHANGED Unmoved, NEW r \in Int, NEW c \in Int, CursorTo(r, c)
  PROVE  Placed'
  <1>1. TypeOK /\ Settings
    BY DEF Inv, Good
  <1>2. Settings'
    BY <1>1 DEF Settings, RegionOnScreen, End, InRegion, Unmoved
  <1>3. /\ rows \in Nat \ {0} /\ cols \in Nat \ {0}
        /\ scrollregion_start \in Int /\ scrollregion_end \in Int
        /\ rows' = rows /\ cols' = cols
        /\ scrollregion_start' = scrollregion_start /\ scrollregion_end' = scrollregion_end
    BY <1>1, Parts DEF Unmoved
  <1> QED BY <1>2, <1>3, CursorToPlaced, Zenon

-----------------------------------------------------------------------------
(* The steps.                                                              *)

(* What a step has to establish that leaves the settings alone.            *)
LEMMA Assemble ==
  ASSUME Inv, UNCHANGED Unmoved,
         causes' \in {causes, causes \cup {"width"}},
         row' \in Int, col' \in Int, at_phantom' \in BOOLEAN, PhantomAtMargin',
         causes' = {} => Placed' /\ MovesInside'
  PROVE  Inv'
  <1>1. causes' \subseteq {"margins", "saved", "saved outside", "unbounded", "width"}
    BY DEF Inv, TypeOK
  <1>2. TypeOK'
    BY <1>1, NextType DEF Inv, Unmoved
  <1>3. causes' = {} => Good'
    BY DEF Inv, Unmoved, Good, Settings, RegionOnScreen, End, InRegion
  <1> QED BY <1>2, <1>3 DEF Inv

LEMMA NoMoves == ASSUME moves' = {} PROVE MovesInside'
  BY DEF MovesInside

LEMMA SomeMoves ==
  ASSUME NEW s, moves' = s, \A m \in s : Inside(m), UNCHANGED Unmoved
  PROVE  MovesInside'
  BY DEF MovesInside, Inside, Unmoved

(* on_text; a glyph without a width leaves the cursor where it is.         *)
LEMMA TextStep == ASSUME Inv, NEW w \in Widths, Text(w) PROVE Inv'
  <1> DEFINE from == IF at_phantom THEN 0 ELSE col
             full == Fills(from, w)
  <1>1. /\ row' = IF at_phantom THEN LinefeedRow ELSE row
        /\ col' = IF full THEN from ELSE from + w
        /\ at_phantom' = (full /\ "autowrap" \in mode)
        /\ moves' = (IF at_phantom THEN LinefeedMoves ELSE {}) \cup
                    (IF "insert" \in mode
                     THEN Scrolled(Rect(row', row' + 1, from, cols), 0, -1) ELSE {})
        /\ causes' = causes \cup (IF w < 0 THEN {"width"} ELSE {})
        /\ UNCHANGED Unmoved
    BY DEF Text
  <1>2. TypeOK /\ w \in Int /\ from \in Int
    BY VTStateAssumption, Parts DEF Inv
  <1>3. row' \in Int /\ col' \in Int
    BY <1>1, <1>2, Parts, LinefeedType
  <1>4. at_phantom' \in BOOLEAN /\ PhantomAtMargin'
    <2>1. at_phantom' \in BOOLEAN
      BY <1>1, Zenon
    <2>2. at_phantom' => col' = from /\ from + w >= cols /\ cols' = cols
      BY <1>1 DEF Fills, Unmoved
    <2> QED BY <1>2, <2>1, <2>2 DEF PhantomAtMargin
  <1>5. ASSUME causes' = {} PROVE Placed' /\ MovesInside'
    <2>1. causes = {} /\ w >= 0
      BY <1>1, <1>2, <1>5
    <2>2. Good
      BY <2>1 DEF Inv
    <2>3. 0 <= from /\ from < cols
      BY <1>2, <2>2, Parts DEF Good, Placed
    <2>4. Placed'
      <3>1. 0 <= row' /\ row' < rows /\ (InRegion(row) => InRegion(row'))
        BY <1>1, <1>2, <2>2, LinefeedGood, Parts DEF Good, Placed
      <3>2. 0 <= col' /\ col' < cols
        BY <1>1, <1>2, <2>1, <2>3, Parts DEF Fills
      <3> QED BY <1>1, <2>2, <3>1, <3>2 DEF Placed, Good, Unmoved, InRegion, End
    <2>5. \A m \in Scrolled(Rect(row', row' + 1, from, cols), 0, -1) : Inside(m)
      <3>1. 0 <= row' /\ row' + 1 <= rows /\ row' < row' + 1 /\ row' + 1 \in Int
            /\ rows \in Int /\ cols \in Int /\ cols <= cols
            /\ 0 \in Int /\ -1 \in Int
        BY <1>1, <1>2, <1>3, <2>2, LinefeedGood, Parts DEF Good, Placed
      <3>2. row' < row' + 1 \/ -1 = 0
        BY <3>1
      <3> HIDE DEF from
      <3> QED BY <1>2, <1>3, <2>3, <3>1, <3>2, ScrolledInside, Zenon
    <2>6. MovesInside'
      BY <1>1, <1>2, <2>2, <2>5, LinefeedGood DEF MovesInside, Inside, Unmoved
    <2> QED BY <2>4, <2>6
  <1>6. causes' \in {causes, causes \cup {"width"}}
    BY <1>1
  <1> QED BY <1>1, <1>3, <1>4, <1>5, <1>6, Assemble

(* on_control: the cursor goes somewhere on the screen.                    *)
LEMMA ControlStep ==
  ASSUME Inv, NEW r \in Int, NEW c \in Int, NEW s, Control(r, c, s),
         causes = {} =>
           /\ 0 <= r /\ r < rows /\ 0 <= c /\ c < cols
           /\ InRegion(row) => InRegion(r)
           /\ \A m \in s : Inside(m)
  PROVE  Inv'
  <1>1. /\ row' = r /\ col' = c /\ moves' = s
        /\ at_phantom' = Cancelled(at_phantom)
        /\ UNCHANGED <<Unmoved, causes>>
    BY DEF Control
  <1>2. at_phantom' \in BOOLEAN /\ PhantomAtMargin'
    BY <1>1, Parts, CancelledPhantom DEF Inv, Unmoved
  <1>3. ASSUME causes' = {} PROVE Placed' /\ MovesInside'
    <2>1. Placed'
      BY <1>1, <1>3 DEF Placed, Inv, Good, InRegion, End, Unmoved
    <2> QED BY <1>1, <1>3, <2>1, SomeMoves
  <1> QED BY <1>1, <1>2, <1>3, Assemble

(* tab leads to a stop, to an edge, or nowhere.                            *)
LEMMA TabColIs ==
  ASSUME NEW n, NEW direction
  PROVE  \/ TabCol(n, direction) = col
         \/ /\ 0 <= col /\ col < cols - 1
            /\ TabCol(n, direction) \in tabstops \cup {IF direction > 0 THEN cols - 1 ELSE -1}
  <1> DEFINE edge == IF direction > 0 THEN cols - 1 ELSE -1
             ahead == {s \in tabstops \cup {edge} : IF direction > 0 THEN s > col ELSE s < col}
             reached(s) == {t \in ahead : IF direction > 0 THEN t <= s ELSE t >= s}
             stop == {s \in ahead : Cardinality(reached(s)) = n}
  <1>1. TabCol(n, direction) =
          IF ~(0 <= col /\ col < cols - 1) THEN col
          ELSE IF stop = {} THEN edge ELSE CHOOSE s \in stop : TRUE
    BY Zenon DEF TabCol
  <1>2. stop # {} => (CHOOSE s \in stop : TRUE) \in stop
    BY Zenon
  <1>3. stop \subseteq tabstops \cup {edge}
    BY Zenon
  <1> HIDE DEF stop, edge
  <1>4. CASE ~(0 <= col /\ col < cols - 1)
    BY <1>1, <1>4
  <1>5. CASE 0 <= col /\ col < cols - 1
    <2>1. TabCol(n, direction) \in tabstops \cup {edge}
      BY <1>1, <1>2, <1>3, <1>5, Zenon
    <2> QED BY <1>5, <2>1, Zenon DEF edge
  <1> QED BY <1>4, <1>5

LEMMA TabColType ==
  ASSUME TypeOK, NEW n, NEW direction
  PROVE  TabCol(n, direction) \in Int
  <1>1. tabstops \subseteq Int
    BY Zenon DEF TypeOK
  <1>2. \/ TabCol(n, direction) = col
        \/ TabCol(n, direction) \in tabstops
        \/ TabCol(n, direction) = cols - 1
        \/ TabCol(n, direction) = -1
    BY TabColIs
  <1>3. col \in Int /\ cols - 1 \in Int /\ -1 \in Int
    BY Parts
  <1> QED BY <1>1, <1>2, <1>3, Zenon

LEMMA TabColForward ==
  ASSUME TypeOK, Good, NEW n
  PROVE  0 <= TabCol(n, 1) /\ TabCol(n, 1) < cols
  <1>1. tabstops \subseteq 0 .. cols - 1 /\ 0 <= col /\ col < cols
    BY DEF Good, Placed
  <1>2. TabCol(n, 1) = col \/ TabCol(n, 1) \in tabstops \/ TabCol(n, 1) = cols - 1
    BY TabColIs
  <1>3. col \in 0 .. cols - 1 /\ cols - 1 \in 0 .. cols - 1
    BY <1>1, Parts
  <1>4. TabCol(n, 1) \in 0 .. cols - 1
    BY <1>1, <1>2, <1>3, Zenon
  <1> QED BY <1>4, Parts

LEMMA OnControlStep == ASSUME Inv, OnControl PROVE Inv'
  <1>1. /\ TypeOK /\ (causes = {} => Good)
        /\ row \in Int /\ col \in Int /\ rows \in Nat \ {0} /\ cols \in Nat \ {0}
        /\ scrollregion_start \in Int /\ End \in Int
    BY Parts DEF Inv
  <1>2. causes = {} => 0 <= row /\ row < rows /\ 0 <= col /\ col < cols
    BY <1>1 DEF Good, Placed
  <1>3. CASE Backspace
    <2>1. (IF col > 0 THEN col - 1 ELSE col) \in Int
      BY <1>1
    <2> QED BY <1>1, <1>2, <1>3, <2>1, ControlStep DEF Backspace
  <1>4. CASE HorizontalTab
    <2>1. TabCol(1, 1) \in Int /\ (causes = {} => 0 <= TabCol(1, 1) /\ TabCol(1, 1) < cols)
      BY <1>1, TabColType, TabColForward
    <2> QED BY <1>1, <1>2, <1>4, <2>1, ControlStep DEF HorizontalTab
  <1>5. CASE CarriageReturn
    BY <1>1, <1>2, <1>5, ControlStep DEF CarriageReturn
  <1>6. /\ LinefeedRow \in Int
        /\ causes = {} => /\ 0 <= LinefeedRow /\ LinefeedRow < rows
                          /\ InRegion(row) => InRegion(LinefeedRow)
                          /\ \A m \in LinefeedMoves : Inside(m)
    BY <1>1, LinefeedType, LinefeedGood
  <1>7. CASE Index
    BY <1>1, <1>2, <1>6, <1>7, ControlStep DEF Index
  <1>8. CASE NextLine
    BY <1>1, <1>2, <1>6, <1>8, ControlStep DEF NextLine
  <1>9. CASE Linefeed
    BY <1>7, <1>8, <1>9 DEF Linefeed
  <1>10. CASE ReverseIndex
    <2>1. CASE row = scrollregion_start
      <3>1. causes = {} => \A m \in Scrolled(Region, -1, 0) : Inside(m)
        BY <1>1, RegionScroll
      <3> QED BY <1>1, <1>2, <1>10, <2>1, <3>1, ControlStep DEF ReverseIndex
    <2>2. CASE row # scrollregion_start
      <3> DEFINE up == IF row > 0 THEN row - 1 ELSE row
      <3>1. /\ up \in Int
            /\ causes = {} => 0 <= up /\ up < rows /\ (InRegion(row) => InRegion(up))
        BY <1>1, <1>2, <2>2, RegionBounds DEF InRegion
      <3>2. Control(up, col, {})
        BY <1>10, <2>2 DEF ReverseIndex
      <3> HIDE DEF up
      <3> QED BY <1>1, <1>2, <3>1, <3>2, ControlStep
    <2> QED BY <2>1, <2>2
  <1>11. CASE SetTab
    <2>1. /\ UNCHANGED <<rows, cols, row, col, at_phantom, scrollregion_start,
                         scrollregion_end, mode, saved, causes>>
          /\ moves' = {} /\ tabstops' = tabstops \cup {col}
      BY <1>11 DEF SetTab
    <2>2. tabstops' \subseteq Int
      BY <1>1, <2>1 DEF TypeOK
    <2>3. TypeOK'
      BY <1>1, <2>1, <2>2, Zenon DEF TypeOK
    <2>4. causes' = {} => Good'
      BY <1>1, <2>1 DEF Good, Settings, Placed, RegionOnScreen, End, InRegion
    <2>5. PhantomAtMargin'
      BY <2>1 DEF Inv, PhantomAtMargin
    <2> QED BY <2>1, <2>3, <2>4, <2>5, NoMoves DEF Inv
  <1> QED BY <1>3, <1>4, <1>5, <1>7, <1>8, <1>9, <1>10, <1>11 DEF OnControl

(* on_csi, where it only moves the cursor or scrolls.                      *)
LEMMA BoundedStep ==
  ASSUME Inv, UNCHANGED <<Unmoved, causes>>, NEW r \in Int, NEW c \in Int, CursorTo(r, c),
         at_phantom' \in BOOLEAN, PhantomAtMargin',
         causes = {} => \A m \in moves' : Inside(m)
  PROVE  Inv'
  <1>1. TypeOK
    BY DEF Inv
  <1>2. row' \in Int /\ col' \in Int
    BY <1>1, CursorToType DEF Unmoved
  <1>3. causes' = {} => Placed' /\ MovesInside'
    BY CursorToGood, SomeMoves
  <1> QED BY <1>2, <1>3, Assemble

LEMMA MoveToStep == ASSUME Inv, NEW r \in Int, NEW c \in Int, MoveTo(r, c) PROVE Inv'
  BY BoundedStep DEF MoveTo, PhantomAtMargin

LEMMA ScrollByStep ==
  ASSUME Inv, NEW rect, NEW down, NEW right, ScrollBy(rect, down, right),
         causes = {} => \A m \in Scrolled(rect, down, right) : Inside(m)
  PROVE  Inv'
  <1>1. row \in Int /\ col \in Int /\ at_phantom \in BOOLEAN
    BY Parts DEF Inv
  <1>2. at_phantom' \in BOOLEAN /\ PhantomAtMargin'
    BY <1>1, CancelledPhantom DEF ScrollBy, Unmoved
  <1> QED BY <1>1, <1>2, BoundedStep DEF ScrollBy

LEMMA CursorCSIStep == ASSUME Inv, CursorCSI PROVE Inv'
  <1>1. TypeOK /\ row \in Int /\ col \in Int /\ scrollregion_start \in Int /\ at_phantom \in BOOLEAN
    BY Parts DEF Inv
  <1>2. ASSUME NEW down \in Int, NEW right \in Int, NEW home \in BOOLEAN,
               MoveBy(down, right, home)
        PROVE  Inv'
    <2>1. row + down \in Int /\ (IF home THEN 0 ELSE col) + right \in Int
      BY <1>1
    <2> QED BY <1>2, <2>1, BoundedStep DEF MoveBy, PhantomAtMargin
  <1>3. ASSUME NEW r \in Places, NEW c \in Places, CUP(r, c) PROVE Inv'
    <2>1. OriginRow(r - 1) \in Int /\ c - 1 \in Int
      BY <1>1, VTStateAssumption DEF OriginRow
    <2> QED BY <1>3, <2>1, MoveToStep DEF CUP
  <1>4. ASSUME NEW p \in Places, CHA(p) \/ VPA(p) PROVE Inv'
    <2>1. OriginRow(p - 1) \in Int /\ p - 1 \in Int
      BY <1>1, VTStateAssumption DEF OriginRow
    <2> QED BY <1>1, <1>4, <2>1, MoveToStep DEF CHA, VPA
  <1>5. ASSUME NEW n, NEW direction, Tab(n, direction) PROVE Inv'
    <2>1. TabCol(n, direction) \in Int
      BY <1>1, TabColType
    <2>2. at_phantom' \in BOOLEAN /\ PhantomAtMargin'
      BY <1>1, <1>5, CancelledPhantom DEF Tab, Unmoved
    <2> QED BY <1>1, <1>5, <2>1, <2>2, BoundedStep DEF Tab
  <1>6. \A n \in Counts : n \in Int /\ -n \in Int
    BY VTStateAssumption
  <1>7. CASE \E n \in Counts : \E home \in BOOLEAN : MoveBy(n, 0, home) \/ MoveBy(-n, 0, home)
    <2>1. PICK n \in Counts, home \in BOOLEAN : MoveBy(n, 0, home) \/ MoveBy(-n, 0, home)
      BY <1>7
    <2> QED BY <1>2, <1>6, <2>1
  <1>8. CASE \E n \in Counts : MoveBy(0, n, FALSE) \/ MoveBy(0, -n, FALSE)
    <2>1. PICK n \in Counts : MoveBy(0, n, FALSE) \/ MoveBy(0, -n, FALSE)
      BY <1>8
    <2>2. FALSE \in BOOLEAN /\ 0 \in Int
      OBVIOUS
    <2> QED BY <1>2, <1>6, <2>1, <2>2
  <1> QED BY <1>3, <1>4, <1>5, <1>7, <1>8 DEF CursorCSI

LEMMA ScrollCSIStep == ASSUME Inv, ScrollCSI PROVE Inv'
  <1>1. PICK n \in Counts, sign \in {-1, 1} :
          \/ ScrollBy(RestOfRow, 0, sign * n)
          \/ ScrollBy(Rect(row, End, 0, cols), sign * n, 0)
          \/ ScrollBy(Region, sign * n, 0)
    BY DEF ScrollCSI
  <1>2. sign * n \in Int
    BY VTStateAssumption
  <1>3. TypeOK /\ (causes = {} => Good)
    BY DEF Inv
  <1>4. ASSUME causes = {}
        PROVE  /\ \A m \in Scrolled(RestOfRow, 0, sign * n) : Inside(m)
               /\ \A m \in Scrolled(Rect(row, End, 0, cols), sign * n, 0) : Inside(m)
               /\ \A m \in Scrolled(Region, sign * n, 0) : Inside(m)
    <2>1. /\ row \in Int /\ row + 1 \in Int /\ 0 <= row /\ row + 1 <= rows /\ row < row + 1
          /\ col \in Int /\ cols \in Int /\ 0 <= col /\ col < cols /\ cols <= cols
          /\ 0 \in Int /\ 0 <= 0 /\ 0 < cols /\ End \in Int /\ End <= rows
      BY <1>3, <1>4, RegionBounds, Parts DEF Good, Placed
    <2>2. \A m \in Scrolled(Rect(row, row + 1, col, cols), 0, sign * n) : Inside(m)
      BY <1>2, <1>3, <2>1, ScrolledInside, Zenon
    <2>3. \A m \in Scrolled(Rect(row, End, 0, cols), sign * n, 0) : Inside(m)
      BY <1>2, <1>3, <2>1, ScrolledInside, Zenon
    <2> QED BY <1>2, <1>3, <1>4, <2>2, <2>3, RegionScroll DEF RestOfRow
  <1> QED BY <1>1, <1>4, ScrollByStep

(* The steps that change the settings.                                     *)
LEMMA ClearTabsStep == ASSUME Inv, NEW all \in BOOLEAN, ClearTabs(all) PROVE Inv'
  <1>1. /\ UNCHANGED <<rows, cols, scrollregion_start, scrollregion_end, mode, saved, causes>>
        /\ tabstops' \subseteq tabstops
        /\ CursorTo(row, col) /\ at_phantom' = Cancelled(at_phantom) /\ moves' = {}
    BY DEF ClearTabs
  <1>2. /\ TypeOK /\ (causes = {} => Good)
        /\ row \in Int /\ col \in Int /\ rows \in Nat \ {0} /\ cols \in Nat \ {0}
        /\ scrollregion_start \in Int /\ scrollregion_end \in Int /\ at_phantom \in BOOLEAN
    BY Parts DEF Inv
  <1>3. row' \in Int /\ col' \in Int
    BY <1>1, <1>2, CursorToType
  <1>4. at_phantom' \in BOOLEAN /\ PhantomAtMargin'
    BY <1>1, <1>2, CancelledPhantom
  <1>5. tabstops' \subseteq Int
    BY <1>1, <1>2, Zenon DEF TypeOK
  <1>6. TypeOK'
    BY <1>1, <1>2, <1>3, <1>4, <1>5, Zenon DEF TypeOK
  <1>7. ASSUME causes' = {} PROVE Good'
    <2>1. Good
      BY <1>1, <1>2, <1>7
    <2>2. Settings'
      BY <1>1, <2>1 DEF Good, Settings, RegionOnScreen, End, InRegion
    <2>3. Placed'
      BY <1>1, <1>2, <2>2, CursorToPlaced
    <2>4. tabstops' \subseteq 0 .. cols' - 1
      BY <1>1, <2>1 DEF Good
    <2> QED BY <2>2, <2>3, <2>4 DEF Good
  <1> QED BY <1>1, <1>4, <1>6, <1>7, NoMoves DEF Inv

(* What the steps with Observe have in common: the region, the modes or    *)
(* what is saved changes, and the cursor is bounded by what they are then. *)
LEMMA ObservedStep ==
  ASSUME Inv, Observe, UNCHANGED <<rows, cols, tabstops>>, moves' = {},
         NEW S \in Int, NEW E \in Int, scrollregion_start' = S, scrollregion_end' = E,
         E >= None \/ E = scrollregion_end,
         mode' \subseteq Mode, saved' \in Position,
         causes = {} => saved'.row >= 0 /\ saved'.col >= 0,
         row' \in Int, col' \in Int, at_phantom' \in BOOLEAN, PhantomAtMargin',
         causes = {} /\ Settings' => Placed'
  PROVE  Inv'
  <1>1. TypeOK
    BY DEF Inv
  <1>2. S \in Int /\ E \in Int /\ scrollregion_start' \in Int /\ scrollregion_end' \in Int
    OBVIOUS
  <1>3. causes' \subseteq {"margins", "saved", "saved outside", "unbounded", "width"}
    <2>1. Cause' \subseteq {"margins", "saved", "saved outside", "unbounded", "width"}
      BY DEF Cause
    <2>2. causes \subseteq {"margins", "saved", "saved outside", "unbounded", "width"}
      BY <1>1, Zenon DEF TypeOK
    <2> QED BY <2>1, <2>2 DEF Observe
  <1>4. TypeOK'
    BY <1>1, <1>2, <1>3, Zenon DEF TypeOK
  <1>5. ASSUME causes' = {} PROVE Good'
    <2>1. causes = {}
      BY <1>5 DEF Observe
    <2>2. Good /\ saved'.row >= 0 /\ saved'.col >= 0
      BY <2>1 DEF Inv
    <2>3. E >= None
      BY <2>2 DEF Good, Settings
    <2>4. rows' \in Int
      BY <1>1, Parts
    <2>5. Settings'
      BY <1>2, <1>5, <2>2, <2>3, <2>4, Observed
    <2> QED BY <2>1, <2>2, <2>5 DEF Good
  <1> QED BY <1>4, <1>5, NoMoves DEF Inv

LEMMA SetModeStep ==
  ASSUME Inv, NEW m \in Mode, NEW on \in BOOLEAN, SetMode(m, on)
  PROVE  Inv'
  <1> DEFINE home == IF on THEN scrollregion_start ELSE 0
  <1>1. /\ UNCHANGED <<rows, cols, scrollregion_start, scrollregion_end, saved, tabstops>>
        /\ mode' = IF on THEN mode \cup {m} ELSE mode \ {m}
        /\ moves' = {} /\ Observe
    BY DEF SetMode
  <1>2. /\ TypeOK /\ row \in Int /\ col \in Int /\ rows \in Nat \ {0} /\ cols \in Nat \ {0}
        /\ scrollregion_start \in Int /\ scrollregion_end \in Int /\ at_phantom \in BOOLEAN
        /\ saved \in Position /\ mode \subseteq Mode
    BY Parts, Zenon DEF Inv, TypeOK
  <1>3. mode' \subseteq Mode
    BY <1>1, <1>2
  <1>4. PICK r \in Int, c \in Int, p \in BOOLEAN :
          CursorTo(r, c) /\ (p => at_phantom) /\ at_phantom' = Cancelled(p)
    <2>1. CASE m = "origin"
      <3>1. /\ CursorTo(home, 0) /\ at_phantom' = Cancelled(at_phantom /\ home = row)
            /\ home \in Int /\ 0 \in Int
        BY <1>2, <2>1 DEF SetMode
      <3>2. (at_phantom /\ home = row) \in BOOLEAN /\ ((at_phantom /\ home = row) => at_phantom)
        BY Zenon
      <3> QED BY <3>1, <3>2, Zenon
    <2>2. CASE m # "origin"
      BY <1>2, <2>2, Zenon DEF SetMode
    <2> QED BY <2>1, <2>2
  <1>5. at_phantom' \in BOOLEAN /\ PhantomAtMargin'
    BY <1>1, <1>4, CancelledPhantom
  <1>6. row' \in Int /\ col' \in Int
    BY <1>1, <1>2, <1>4, CursorToType
  <1>7. Settings' => Placed'
    BY <1>1, <1>2, <1>4, CursorToPlaced
  <1>8. causes = {} => saved'.row >= 0 /\ saved'.col >= 0
    BY <1>1 DEF Inv, Good, Settings
  <1> QED BY <1>1, <1>2, <1>3, <1>5, <1>6, <1>7, <1>8, ObservedStep

LEMMA DECSTBMStep ==
  ASSUME Inv, NEW m \in Margins, DECSTBM(m[1], m[2])
  PROVE  Inv'
  <1> DEFINE S == m[1] - 1
             E == IF m[1] = 1 /\ m[2] = rows THEN None ELSE m[2]
  <1>1. /\ UNCHANGED <<rows, cols, mode, saved, tabstops>>
        /\ scrollregion_start' = S /\ scrollregion_end' = E
        /\ CursorTo(row, col) /\ at_phantom' = Cancelled(at_phantom)
        /\ moves' = {} /\ Observe
    BY DEF DECSTBM
  <1>2. S \in Int /\ E \in Int /\ E >= None
    BY VTStateAssumption
  <1>3. /\ TypeOK /\ row \in Int /\ col \in Int /\ rows \in Nat \ {0} /\ cols \in Nat \ {0}
        /\ at_phantom \in BOOLEAN /\ saved \in Position /\ mode \subseteq Mode
    BY Parts, Zenon DEF Inv, TypeOK
  <1> HIDE DEF S, E
  <1>4. at_phantom' \in BOOLEAN /\ PhantomAtMargin'
    BY <1>1, <1>3, CancelledPhantom
  <1>5. row' \in Int /\ col' \in Int
    <2>1. /\ row' = BoundRow(row) /\ col' = BoundCol(col)
          /\ rows' = rows /\ cols' = cols
          /\ scrollregion_start' = S /\ scrollregion_end' = E
      BY <1>1 DEF CursorTo
    <2> QED BY <1>2, <1>3, <2>1 DEF BoundRow, BoundCol
  <1>6. Settings' => Placed'
    BY <1>1, <1>2, <1>3, CursorToPlaced
  <1>7. causes = {} => saved'.row >= 0 /\ saved'.col >= 0
    BY <1>1 DEF Inv, Good, Settings
  <1> QED BY <1>1, <1>2, <1>3, <1>4, <1>5, <1>6, <1>7, ObservedStep

LEMMA SettingCSIStep == ASSUME Inv, SettingCSI PROVE Inv'
  <1>1. CASE \E all \in BOOLEAN : ClearTabs(all)
    BY <1>1, ClearTabsStep
  <1>2. CASE \E m \in Mode, on \in BOOLEAN : SetMode(m, on)
    BY <1>2, SetModeStep
  <1>3. CASE \E m \in Margins : DECSTBM(m[1], m[2])
    BY <1>3, DECSTBMStep
  <1>4. CASE OtherCSI
    <2>1. Scrolled(Region, 0, 0) = {}
      BY DEF Scrolled
    <2> QED BY <1>4, <2>1, ScrollByStep DEF OtherCSI
  <1> QED BY <1>1, <1>2, <1>3, <1>4 DEF SettingCSI

LEMMA SaveStep == ASSUME Inv, NEW csi \in BOOLEAN, Save(csi) PROVE Inv'
  <1>1. /\ UNCHANGED <<rows, cols, scrollregion_start, scrollregion_end, mode, tabstops>>
        /\ saved' = [row |-> row, col |-> col]
        /\ at_phantom' = Cancelled(at_phantom) /\ moves' = {} /\ Observe
        /\ CursorTo(row, col) \/ UNCHANGED <<row, col>>
    BY DEF Save
  <1>2. /\ TypeOK /\ row \in Int /\ col \in Int /\ rows \in Nat \ {0} /\ cols \in Nat \ {0}
        /\ scrollregion_start \in Int /\ scrollregion_end \in Int
        /\ at_phantom \in BOOLEAN /\ mode \subseteq Mode
    BY Parts, Zenon DEF Inv, TypeOK
  <1>3. at_phantom' \in BOOLEAN /\ PhantomAtMargin'
    BY <1>1, <1>2, CancelledPhantom
  <1>4. row' \in Int /\ col' \in Int
    BY <1>1, <1>2, CursorToType
  <1>5. saved' \in Position /\ (causes = {} => saved'.row >= 0 /\ saved'.col >= 0)
    BY <1>1, <1>2 DEF Position, Inv, Good, Placed
  <1>6. causes = {} /\ Settings' => Placed'
    <2>1. Settings' /\ CursorTo(row, col) => Placed'
      BY <1>1, <1>2, CursorToPlaced
    <2>2. causes = {} /\ UNCHANGED <<row, col>> => Placed'
      BY <1>1 DEF Inv, Good, Placed, InRegion, End
    <2> QED BY <1>1, <2>1, <2>2
  <1>7. mode' \subseteq Mode
    BY <1>1, <1>2
  <1> QED BY <1>1, <1>2, <1>3, <1>4, <1>5, <1>6, <1>7, ObservedStep

(* The saved cursor is where the bounds allow, also without them.          *)
LEMMA RestoreStep == ASSUME Inv, NEW csi \in BOOLEAN, Restore(csi) PROVE Inv'
  <1> DEFINE p == at_phantom /\ saved = [row |-> row, col |-> col]
  <1>1. /\ UNCHANGED <<Unmoved, causes>> /\ moves' = {}
        /\ at_phantom' = Cancelled(p)
        /\ CursorTo(saved.row, saved.col) \/ (row' = saved.row /\ col' = saved.col)
    BY DEF Restore
  <1>2. TypeOK /\ saved.row \in Int /\ saved.col \in Int
    BY Parts DEF Inv
  <1>3. p \in BOOLEAN /\ (p => at_phantom)
    BY Zenon
  <1> HIDE DEF p
  <1>4. at_phantom' \in BOOLEAN /\ PhantomAtMargin'
    BY <1>1, <1>3, CancelledPhantom DEF Unmoved
  <1>5. CASE CursorTo(saved.row, saved.col)
    BY <1>1, <1>2, <1>4, <1>5, BoundedStep
  <1>6. CASE row' = saved.row /\ col' = saved.col
    <2>1. row' \in Int /\ col' \in Int
      BY <1>2, <1>6
    <2>2. causes' = {} => Placed'
      BY <1>1, <1>6 DEF Inv, Good, Settings, Placed, InRegion, End, Unmoved
    <2> QED BY <1>1, <1>4, <2>1, <2>2, NoMoves, Assemble
  <1> QED BY <1>1, <1>5, <1>6

LEMMA SaveRestoreStep == ASSUME Inv, SaveRestore PROVE Inv'
  BY SaveStep, RestoreStep DEF SaveRestore

LEMMA CausesType ==
  ASSUME Inv, Observe
  PROVE  /\ causes' \subseteq {"margins", "saved", "saved outside", "unbounded", "width"}
         /\ causes' = {} => causes = {}
  <1>1. Cause' \subseteq {"margins", "saved", "saved outside", "unbounded", "width"}
    BY DEF Cause
  <1>2. causes \subseteq {"margins", "saved", "saved outside", "unbounded", "width"}
    BY Zenon DEF Inv, TypeOK
  <1> QED BY <1>1, <1>2 DEF Observe

LEMMA ResetStep == ASSUME Inv, Reset PROVE Inv'
  <1>1. /\ scrollregion_start' = 0 /\ scrollregion_end' = None
        /\ mode' = {"autowrap"} /\ tabstops' = {c \in 0 .. cols - 1 : c % 8 = 0}
        /\ row' = 0 /\ col' = 0 /\ at_phantom' = FALSE /\ moves' = {}
        /\ UNCHANGED <<rows, cols, saved>> /\ Observe
    BY DEF Reset
  <1>2. TypeOK /\ rows \in Nat \ {0} /\ cols \in Nat \ {0}
    BY Parts DEF Inv
  <1>3. /\ row' \in Int /\ col' \in Int /\ scrollregion_start' \in Int
        /\ scrollregion_end' \in Int /\ tabstops' \subseteq Int
    BY <1>1, <1>2
  <1>4. at_phantom' \in BOOLEAN /\ mode' \subseteq Mode
    BY <1>1, Zenon DEF Mode
  <1>5. TypeOK'
    BY <1>1, <1>2, <1>3, <1>4, CausesType, Zenon DEF TypeOK
  <1>6. ASSUME causes' = {} PROVE Good'
    <2>1. Good
      BY <1>1, <1>6, CausesType DEF Inv
    <2>2. Settings'
      BY <1>1, <1>2, <2>1 DEF Good, Settings, RegionOnScreen, End
    <2>3. Placed' /\ tabstops' \subseteq 0 .. cols' - 1
      BY <1>1, <1>2 DEF Placed
    <2> QED BY <2>2, <2>3 DEF Good
  <1> QED BY <1>1, <1>5, <1>6, NoMoves DEF Inv, PhantomAtMargin

LEMMA ResizeStep == ASSUME Inv, NEW s \in Sizes, Resize(s) PROVE Inv'
  <1> DEFINE R == s[1]
             C == s[2]
             r == IF row >= R THEN R - 1 ELSE row
             c == IF col >= C THEN C - 1 ELSE col
             room == at_phantom /\ c < C - 1
             p == at_phantom /\ ~room
  <1>1. /\ rows' = R /\ cols' = C /\ row' = r /\ col' = (IF room THEN c + 1 ELSE c)
        /\ at_phantom' = Cancelled(p) /\ moves' = {}
        /\ tabstops' = IF C = cols THEN tabstops
                       ELSE {t \in tabstops : t < C} \cup {t \in cols .. C - 1 : t % 8 = 0}
        /\ UNCHANGED <<scrollregion_start, scrollregion_end, mode, saved>>
        /\ Observe
    BY DEF Resize, NewSize
  <1>2. R \in Nat \ {0} /\ C \in Nat \ {0} /\ s = <<R, C>>
    BY SizesAre
  <1>3. <<rows', cols'>> \in Sizes
    BY <1>1, <1>2
  <1>4. /\ TypeOK /\ row \in Int /\ col \in Int /\ rows \in Nat \ {0} /\ cols \in Nat \ {0}
        /\ scrollregion_start \in Int /\ scrollregion_end \in Int /\ saved \in Position
        /\ mode \subseteq Mode /\ at_phantom \in BOOLEAN /\ tabstops \subseteq Int
    BY Parts, Zenon DEF Inv, TypeOK
  <1> HIDE DEF R, C
  <1>5. r \in Int /\ c \in Int /\ row' \in Int /\ col' \in Int
    BY <1>1, <1>2, <1>4
  <1>6. at_phantom' \in BOOLEAN
    BY <1>1, Zenon DEF Cancelled
  <1>7. PhantomAtMargin'
    <2> SUFFICES ASSUME at_phantom' PROVE \E w \in Widths : col' + w >= cols'
      BY DEF PhantomAtMargin
    <2>1. at_phantom /\ ~(c < C - 1)
      BY <1>1, Zenon DEF Cancelled
    <2>2. col' = c /\ c >= C - 1
      <3>1. ~room
        BY <2>1, Zenon
      <3>2. col' = c
        BY <1>1, <3>1, Zenon
      <3> HIDE DEF c
      <3> QED BY <1>2, <1>5, <2>1, <3>2
    <2>3. col' + 1 >= cols' /\ 1 \in Widths
      <3> HIDE DEF c
      <3> QED BY <1>1, <1>2, <1>5, <2>2, VTStateAssumption
    <2> QED BY <2>3
  <1>8. \A t \in tabstops' : \/ t \in tabstops /\ (C = cols \/ t < C)
                             \/ t \in cols .. C - 1
    BY <1>1
  <1>9. TypeOK'
    <2>1. tabstops' \subseteq Int
      <3>1. cols .. C - 1 \subseteq Int
        BY <1>2, <1>4
      <3> QED BY <1>4, <1>8, <3>1, Zenon
    <2> QED BY <1>1, <1>3, <1>4, <1>5, <1>6, <2>1, CausesType, Zenon DEF TypeOK
  <1>10. ASSUME causes' = {} PROVE Good'
    <2>1. causes = {} /\ Good
      BY <1>1, <1>10, CausesType DEF Inv
    <2>2. saved.row >= 0 /\ saved.col >= 0 /\ scrollregion_end >= None
      BY <2>1 DEF Good, Settings
    <2>3. Settings'
      <3>1. scrollregion_end' \in Int /\ rows' \in Int /\ scrollregion_end' >= None
            /\ saved'.row >= 0 /\ saved'.col >= 0
        BY <1>1, <1>2, <1>4, <2>2
      <3> QED BY <1>1, <1>10, <3>1, Observed
    <2>4. 0 <= row' /\ row' < rows' /\ 0 <= col' /\ col' < cols'
      <3>1. 0 <= row /\ 0 <= col
        BY <2>1 DEF Good, Placed
      <3> QED BY <1>1, <1>2, <1>4, <3>1
    <2>5. "origin" \in mode' => InRegion(row)'
      <3> SUFFICES ASSUME "origin" \in mode PROVE InRegion(row)'
        BY <1>1
      <3>1. /\ scrollregion_end # None
            /\ scrollregion_start <= row /\ row < scrollregion_end
        BY <1>4, <2>1, <2>2 DEF Good, Settings, Placed, InRegion, End
      <3>2. scrollregion_end <= R /\ End' = scrollregion_end
        BY <1>1, <1>2, <1>4, <2>2, <2>3, <3>1 DEF Settings, RegionOnScreen, End
      <3>3. row' = row
        BY <1>1, <1>2, <1>4, <3>1, <3>2
      <3> QED BY <1>1, <3>1, <3>2, <3>3 DEF InRegion
    <2>6. tabstops' \subseteq 0 .. cols' - 1
      <3>1. tabstops \subseteq 0 .. cols - 1
        BY <2>1 DEF Good
      <3>2. ASSUME NEW t \in tabstops' PROVE t \in 0 .. C - 1
        <4>1. CASE t \in tabstops /\ (C = cols \/ t < C)
          BY <1>2, <1>4, <3>1, <4>1
        <4>2. CASE t \in cols .. C - 1
          BY <1>2, <1>4, <4>2
        <4> QED BY <1>8, <4>1, <4>2, Zenon
      <3>3. cols' = C
        BY <1>1
      <3> QED BY <3>2, <3>3, Zenon
    <2> QED BY <2>3, <2>4, <2>5, <2>6 DEF Good, Placed
  <1> QED BY <1>1, <1>7, <1>9, <1>10, NoMoves DEF Inv

LEMMA StepInv == ASSUME Inv, [Next]_vars PROVE Inv'
  <1>1. CASE UNCHANGED vars
    <2>1. TypeOK' /\ PhantomAtMargin'
      BY <1>1, Zenon DEF Inv, vars, TypeOK, PhantomAtMargin
    <2>2. causes' = {} => Good' /\ MovesInside'
      BY <1>1 DEF Inv, vars, Good, Settings, Placed, RegionOnScreen, InRegion, End,
        MovesInside, Inside
    <2> QED BY <2>1, <2>2 DEF Inv
  <1>2. CASE Next
    BY <1>2, TextStep, OnControlStep, CursorCSIStep, ScrollCSIStep, SettingCSIStep,
      SaveRestoreStep, ResetStep, ResizeStep DEF Next
  <1> QED BY <1>1, <1>2

-----------------------------------------------------------------------------
(* The invariant: the cursor and the settings of VTState, on windows of    *)
(* any sizes and under any arguments.                                      *)
THEOREM VTStateInvariance == Spec => []Inv
  BY InitInv, StepInv, PTL DEF Spec

(* Every variable keeps its type.                                          *)
THEOREM VTStateTypes == Spec => []TypeOK
  <1>1. Inv => TypeOK
    BY DEF Inv
  <1> QED BY <1>1, VTStateInvariance, PTL

(* The cursor and the tab stops are on the screen, until a setting out of  *)
(* bounds occurs (on_csi, on_resize, linefeed, tab).                       *)
THEOREM CursorBounded == Spec => []CursorOnScreen
  <1>1. Inv => CursorOnScreen
    BY DEF Inv, Good, Placed, CursorOnScreen, OnScreenExcept
  <1> QED BY <1>1, VTStateInvariance, PTL

(* ... and in origin mode the cursor is in the region (on_csi, linefeed).  *)
THEOREM OriginBounded == Spec => []OriginBoundsCursor
  <1>1. Inv => OriginBoundsCursor
    BY DEF Inv, Good, Placed, OriginBoundsCursor, OriginExcept
  <1> QED BY <1>1, VTStateInvariance, PTL

(* Scrolls copy cells of the screen to cells of the screen                 *)
(* (vterm_scroll_rect, moverect_internal).                                 *)
THEOREM ScrollsBounded == Spec => []ScrollsOnScreen
  <1>1. Inv => ScrollsOnScreen
    <2> SUFFICES ASSUME Inv, causes = {}, NEW m \in moves
                 PROVE  LET inside(r1, r2, c1, c2) == 0 <= r1 /\ r1 < r2 /\ r2 <= rows /\
                                                      0 <= c1 /\ c1 < c2 /\ c2 <= cols
                        IN  /\ inside(m.src.start_row, m.src.end_row,
                                      m.src.start_col, m.src.end_col)
                            /\ inside(m.src.start_row - m.downward, m.src.end_row - m.downward,
                                      m.src.start_col - m.rightward, m.src.end_col - m.rightward)
      BY DEF ScrollsOnScreen
    <2> QED BY DEF Inv, MovesInside, Inside
  <1> QED BY <1>1, VTStateInvariance, PTL

(* The phantom position is at the right margin (updatecursor, on_resize).  *)
THEOREM PhantomBounded == Spec => []PhantomAtMargin
  <1>1. Inv => PhantomAtMargin
    BY DEF Inv
  <1> QED BY <1>1, VTStateInvariance, PTL
=============================================================================
