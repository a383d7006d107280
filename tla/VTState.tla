------------------------------ MODULE VTState ------------------------------
(***************************************************************************)
(* libvterm's terminal state (libvterm/src/state.c): the cursor, the       *)
(* phantom position behind the last column, the scrolling region, origin   *)
(* mode, the saved cursor and the tab stops, under the controls and        *)
(* sequences of the host and under the resizes of the window               *)
(* (terminal_resize in main.c).                                            *)
(*                                                                         *)
(* One step is one callback of the parser that concerns this state.  Rows  *)
(* and columns count from 0 as in the code.  Text carries no combining     *)
(* characters; the pen, the character sets and the alternate screen do not *)
(* influence this state.                                                   *)
(***************************************************************************)
EXTENDS Integers, FiniteSets

CONSTANTS
  Sizes,     \* the sizes the window can have: pairs <<rows, cols>>
  Widths,    \* the columns a glyph can take (vterm_unicode_width)
  Counts,    \* the repeat counts of relative sequences
  Places,    \* the rows and columns of absolute sequences
  Margins    \* the arguments of DECSTBM: pairs <<top, bottom>>

None == -1   \* no lower margin

ASSUME VTStateAssumption ==
  /\ Sizes \subseteq (Nat \ {0}) \X (Nat \ {0}) /\ Sizes # {}
  /\ Widths \subseteq Int /\ 1 \in Widths
  /\ Counts \subseteq Nat \ {0}
  /\ Places \subseteq Nat
  /\ Margins \subseteq Nat \X (Nat \cup {None})

VARIABLES
  rows, cols,
  row, col, at_phantom,
  scrollregion_start, scrollregion_end,
  mode,        \* the set of modes that are on
  saved,       \* the cursor position DECSC saved
  tabstops,
  moves,       \* ghost: the row moves of the last step, as the screen gets them
  causes       \* ghost: the out-of-bounds settings met so far

vars == <<rows, cols, row, col, at_phantom, scrollregion_start,
          scrollregion_end, mode, saved, tabstops, moves, causes>>

Mode == {"origin", "autowrap", "insert", "newline"}

End == IF scrollregion_end > None THEN scrollregion_end ELSE rows

RegionOnScreen == 0 <= scrollregion_start /\ scrollregion_start < End /\ End <= rows

InRegion(r) == scrollregion_start <= r /\ r < End

(* Settings the code accepts that refer to rows or columns which are not   *)
(* on the screen (DECSTBM takes any margins, a resize keeps them and the   *)
(* saved cursor), or that the bounds of origin mode do not cover.          *)
Cause ==
  (IF RegionOnScreen THEN {} ELSE {"margins"}) \cup
  (IF saved.row < rows /\ saved.col < cols THEN {} ELSE {"saved"}) \cup
  (IF "origin" \in mode /\ scrollregion_end = None THEN {"unbounded"} ELSE {}) \cup
  (IF "origin" \in mode /\ ~InRegion(saved.row) THEN {"saved outside"} ELSE {})

Init ==
  /\ \E s \in Sizes : rows = s[1] /\ cols = s[2]
  /\ row = 0 /\ col = 0 /\ at_phantom = FALSE
  /\ scrollregion_start = 0 /\ scrollregion_end = None
  /\ mode = {"autowrap"}
  /\ saved = [row |-> 0, col |-> 0]
  /\ tabstops = {c \in 0 .. cols - 1 : c % 8 = 0}
  /\ moves = {}
  /\ causes = {}

-----------------------------------------------------------------------------
(* Scrolling.                                                              *)

Rect(r1, r2, c1, c2) == [start_row |-> r1, end_row |-> r2, start_col |-> c1, end_col |-> c2]
Region == Rect(scrollregion_start, End, 0, cols)
RestOfRow == Rect(row, row + 1, col, cols)

Abs(n) == IF n < 0 THEN -n ELSE n

AllLeaves_ButOne(rect, downward, rightward) ==
  \/ Abs(downward) > rect.end_row - rect.start_row
  \/ Abs(rightward) > rect.end_col - rect.start_col
AllLeaves(rect, downward, rightward) ==
  \/ Abs(downward) >= rect.end_row - rect.start_row
  \/ Abs(rightward) >= rect.end_col - rect.start_col

(* The rectangle scroll() has the screen copy from: none when all of rect  *)
(* is scrolled away (vterm_scroll_rect).  What is copied is the rectangle  *)
(* without the rows or columns that leave it.                              *)
Scrolled(rect, downward, rightward) ==
  LET pos(n) == IF n > 0 THEN n ELSE 0
  IN  IF (downward = 0 /\ rightward = 0) \/ AllLeaves(rect, downward, rightward)
      THEN {}
      ELSE {[src |-> Rect(rect.start_row + pos(downward), rect.end_row - pos(-downward),
                          rect.start_col + pos(rightward), rect.end_col - pos(-rightward)),
             downward |-> downward, rightward |-> rightward]}

(* linefeed: the row it leads to and what it scrolls. *)
LinefeedRow_IgnoresRegion == IF row < rows - 1 THEN row + 1 ELSE row
LinefeedRow ==
  IF row = End - 1 THEN row
  ELSE IF row < rows - 1 THEN row + 1 ELSE row
LinefeedMoves == IF row = End - 1 THEN Scrolled(Region, 1, 0) ELSE {}

-----------------------------------------------------------------------------
(* The cursor.                                                             *)

Unmoved == <<rows, cols, scrollregion_start, scrollregion_end, mode, saved, tabstops>>

(* updatecursor with cancel_phantom: a move ends the phantom state. *)
Cancelled_Never(phantom) == phantom
Cancelled(phantom) == phantom /\ row' = row /\ col' = col

Observe == causes' = causes \cup Cause'

(* The bounds on_csi applies to the cursor after every sequence it knows.  *)
BoundRow(r) ==
  LET low  == IF "origin" \in mode' THEN scrollregion_start' ELSE 0
      high == IF "origin" \in mode' THEN scrollregion_end' - 1 ELSE rows' - 1
      up   == IF r < low THEN low ELSE r
  IN  IF up > high THEN high ELSE up

BoundCol(c) ==
  LET up == IF c < 0 THEN 0 ELSE c
  IN  IF up > cols' - 1 THEN cols' - 1 ELSE up

CursorTo(r, c) == row' = BoundRow(r) /\ col' = BoundCol(c)

OriginRow(r) == IF "origin" \in mode THEN r + scrollregion_start ELSE r

-----------------------------------------------------------------------------
(* on_text, for one glyph.                                                 *)

Fills_OffByOne(from, width) == from + width > cols
Fills(from, width) == from + width >= cols

Text(width) ==
  LET from == IF at_phantom THEN 0 ELSE col
      full == Fills(from, width)
  IN  /\ row' = IF at_phantom THEN LinefeedRow ELSE row
      /\ col' = IF full THEN from ELSE from + width
      /\ at_phantom' = (full /\ "autowrap" \in mode)
      /\ moves' = (IF at_phantom THEN LinefeedMoves ELSE {}) \cup
                  (IF "insert" \in mode
                   THEN Scrolled(Rect(row', row' + 1, from, cols), 0, -1) ELSE {})
      /\ causes' = causes \cup (IF width < 0 THEN {"width"} ELSE {})
      /\ UNCHANGED Unmoved

(* on_control.                                                             *)

Control(r, c, scrolled) ==
  /\ row' = r /\ col' = c
  /\ moves' = scrolled
  /\ at_phantom' = Cancelled(at_phantom)
  /\ UNCHANGED <<Unmoved, causes>>

Backspace == Control(row, IF col > 0 THEN col - 1 ELSE col, {})
CarriageReturn == Control(row, 0, {})
Index == Control(LinefeedRow, col, LinefeedMoves)
NextLine == Control(LinefeedRow, 0, LinefeedMoves)
Linefeed == IF "newline" \in mode THEN NextLine ELSE Index

ReverseIndex ==
  IF row = scrollregion_start THEN Control(row, col, Scrolled(Region, -1, 0))
  ELSE Control(IF row > 0 THEN row - 1 ELSE row, col, {})

(* tab: to the count-th stop in that direction, or to the edge when there  *)
(* are fewer; backward that is the column before the first.  From the last *)
(* column it goes nowhere.                                                 *)
TabCol(count, direction) ==
  LET edge == IF direction > 0 THEN cols - 1 ELSE -1
      ahead == {s \in tabstops \cup {edge} : IF direction > 0 THEN s > col ELSE s < col}
      reached(s) == {t \in ahead : IF direction > 0 THEN t <= s ELSE t >= s}
      stop == {s \in ahead : Cardinality(reached(s)) = count}
  IN  IF ~(0 <= col /\ col < cols - 1) THEN col
      ELSE IF stop = {} THEN edge ELSE CHOOSE s \in stop : TRUE

HorizontalTab == Control(row, TabCol(1, 1), {})

SetTab ==
  /\ tabstops' = tabstops \cup {col}
  /\ moves' = {}
  /\ UNCHANGED <<rows, cols, row, col, at_phantom, scrollregion_start,
                 scrollregion_end, mode, saved, causes>>

-----------------------------------------------------------------------------
(* on_csi.                                                                 *)

(* CUU, CUD, CUF, CUB, CNL, CPL, HPR, HPB, VPR, VPB. *)
MoveBy(down, right, home) ==
  /\ UNCHANGED <<Unmoved, causes>>
  /\ CursorTo(row + down, (IF home THEN 0 ELSE col) + right)
  /\ at_phantom' = FALSE
  /\ moves' = {}

MoveTo(r, c) ==
  /\ UNCHANGED <<Unmoved, causes>>
  /\ CursorTo(r, c)
  /\ at_phantom' = FALSE
  /\ moves' = {}

CUP(r, c) == MoveTo(OriginRow(r - 1), c - 1)
CHA(c) == MoveTo(row, c - 1)
VPA(r) == MoveTo(OriginRow(r - 1), col)

(* CHT and CBT. *)
Tab(count, direction) ==
  /\ UNCHANGED <<Unmoved, causes>>
  /\ CursorTo(row, TabCol(count, direction))
  /\ at_phantom' = Cancelled(at_phantom)
  /\ moves' = {}

(* ICH, DCH, IL, DL, SU, SD. *)
ScrollBy(rect, downward, rightward) ==
  /\ UNCHANGED <<Unmoved, causes>>
  /\ CursorTo(row, col)
  /\ at_phantom' = Cancelled(at_phantom)
  /\ moves' = Scrolled(rect, downward, rightward)

(* TBC. *)
ClearTabs(all) ==
  /\ UNCHANGED <<rows, cols, scrollregion_start, scrollregion_end, mode, saved, causes>>
  /\ tabstops' = tabstops \ (IF all THEN 0 .. cols - 1 ELSE {col})
  /\ CursorTo(row, col)
  /\ at_phantom' = Cancelled(at_phantom)
  /\ moves' = {}

(* SM, RM and their DEC forms.  DECOM homes the cursor.                    *)
SetMode(m, on) ==
  /\ UNCHANGED <<rows, cols, scrollregion_start, scrollregion_end, saved, tabstops>>
  /\ mode' = IF on THEN mode \cup {m} ELSE mode \ {m}
  /\ LET home == IF on THEN scrollregion_start ELSE 0
     IN  IF m = "origin"
         THEN CursorTo(home, 0) /\ at_phantom' = Cancelled(at_phantom /\ home = row)
         ELSE CursorTo(row, col) /\ at_phantom' = Cancelled(at_phantom)
  /\ moves' = {}
  /\ Observe

(* A parameter that is left out is the first row, or no lower margin.      *)
DECSTBM(top, bottom) ==
  /\ UNCHANGED <<rows, cols, mode, saved, tabstops>>
  /\ scrollregion_start' = top - 1
  /\ scrollregion_end' = IF top = 1 /\ bottom = rows THEN None ELSE bottom
  /\ CursorTo(row, col)
  /\ at_phantom' = Cancelled(at_phantom)
  /\ moves' = {}
  /\ Observe

(* ED, EL, ECH, SGR, DSR: nothing here changes but what the bounds change. *)
OtherCSI == ScrollBy(Region, 0, 0)

(* Saving the cursor: ESC 7, CSI s, CSI ? 1048 h and 1049 h.  In the CSI   *)
(* forms the bounds apply.                                                 *)
Save(csi) ==
  /\ UNCHANGED <<rows, cols, scrollregion_start, scrollregion_end, mode, tabstops>>
  /\ saved' = [row |-> row, col |-> col]
  /\ IF csi THEN CursorTo(row, col) ELSE UNCHANGED <<row, col>>
  /\ at_phantom' = Cancelled(at_phantom)
  /\ moves' = {}
  /\ Observe

(* ESC 8, CSI u, CSI ? 1048 l and 1049 l. *)
Restore(csi) ==
  /\ UNCHANGED <<Unmoved, causes>>
  /\ IF csi THEN CursorTo(saved.row, saved.col)
     ELSE row' = saved.row /\ col' = saved.col
  /\ at_phantom' = Cancelled(at_phantom /\ saved = [row |-> row, col |-> col])
  /\ moves' = {}

-----------------------------------------------------------------------------
(* RIS: vterm_state_reset; the saved cursor is kept.                       *)
Reset ==
  /\ scrollregion_start' = 0 /\ scrollregion_end' = None
  /\ mode' = {"autowrap"}
  /\ tabstops' = {c \in 0 .. cols - 1 : c % 8 = 0}
  /\ row' = 0 /\ col' = 0 /\ at_phantom' = FALSE
  /\ moves' = {}
  /\ UNCHANGED <<rows, cols, saved>>
  /\ Observe

NewSize_Swapped(size) == rows' = size[2] /\ cols' = size[1]
NewSize(size) == rows' = size[1] /\ cols' = size[2]

(* on_resize, from terminal_resize. *)
Resize(size) ==
  LET r == IF row >= size[1] THEN size[1] - 1 ELSE row
      c == IF col >= size[2] THEN size[2] - 1 ELSE col
      room == at_phantom /\ c < size[2] - 1
  IN  /\ NewSize(size)
      /\ row' = r
      /\ col' = IF room THEN c + 1 ELSE c
      /\ at_phantom' = Cancelled(at_phantom /\ ~room)
      /\ tabstops' = IF size[2] = cols THEN tabstops
                     ELSE {t \in tabstops : t < size[2]} \cup
                          {t \in cols .. size[2] - 1 : t % 8 = 0}
      /\ moves' = {}
      /\ UNCHANGED <<scrollregion_start, scrollregion_end, mode, saved>>
      /\ Observe

-----------------------------------------------------------------------------
OnControl ==
  \/ Backspace \/ HorizontalTab \/ Linefeed \/ CarriageReturn \/ Index \/ NextLine
  \/ ReverseIndex \/ SetTab

CursorCSI ==
  \/ \E n \in Counts : \E home \in BOOLEAN : MoveBy(n, 0, home) \/ MoveBy(-n, 0, home)
  \/ \E n \in Counts : MoveBy(0, n, FALSE) \/ MoveBy(0, -n, FALSE)
  \/ \E r, c \in Places : CUP(r, c)
  \/ \E p \in Places : CHA(p) \/ VPA(p)
  \/ \E n \in Counts, direction \in {-1, 1} : Tab(n, direction)

ScrollCSI ==
  \E n \in Counts, sign \in {-1, 1} :
    \/ ScrollBy(RestOfRow, 0, sign * n)                    \* DCH, ICH
    \/ ScrollBy(Rect(row, End, 0, cols), sign * n, 0)      \* DL, IL
    \/ ScrollBy(Region, sign * n, 0)                       \* SU, SD

SettingCSI ==
  \/ \E all \in BOOLEAN : ClearTabs(all)
  \/ \E m \in Mode, on \in BOOLEAN : SetMode(m, on)
  \/ \E m \in Margins : DECSTBM(m[1], m[2])
  \/ OtherCSI

SaveRestore == \E csi \in BOOLEAN : Save(csi) \/ Restore(csi)

Next ==
  \/ \E w \in Widths : Text(w)
  \/ OnControl \/ CursorCSI \/ ScrollCSI \/ SettingCSI \/ SaveRestore \/ Reset
  \/ \E s \in Sizes : Resize(s)

Spec == Init /\ [][Next]_vars

-----------------------------------------------------------------------------
(* Properties.                                                             *)

Position == [row : Int, col : Int]

TypeOK ==
  /\ <<rows, cols>> \in Sizes
  /\ row \in Int /\ col \in Int /\ at_phantom \in BOOLEAN
  /\ scrollregion_start \in Int /\ scrollregion_end \in Int
  /\ mode \subseteq Mode
  /\ saved \in Position
  /\ tabstops \subseteq Int
  /\ causes \subseteq {"margins", "saved", "saved outside", "unbounded", "width"}

(* The cursor is on the screen, and so is every tab stop (the bit that     *)
(* set_col_tabstop sets), whatever the host sends and however the window   *)
(* is resized, unless one of the listed settings has occurred: the bounds  *)
(* that on_csi, on_resize and the moves of on_text and on_control keep     *)
(* separately fit together.                                                *)
OnScreenExcept(allowed) ==
  causes \subseteq allowed =>
    /\ 0 <= row /\ row < rows /\ 0 <= col /\ col < cols
    /\ tabstops \subseteq 0 .. cols - 1
CursorOnScreen == OnScreenExcept({})

(* In origin mode the cursor does not leave the scrolling region (the      *)
(* bounds in on_csi, the region in linefeed and reverse index, the margins *)
(* as they are set and as a resize keeps them).                            *)
OriginExcept(allowed) ==
  causes \subseteq allowed /\ "origin" \in mode => InRegion(row)
OriginBoundsCursor == OriginExcept({})

(* The rows and columns that a scroll copies, and those it copies them to, *)
(* are cells of the screen: moverect_internal in screen.c does not look at *)
(* what getcell returns for them.                                          *)
ScrollsOnScreen ==
  causes = {} =>
    \A m \in moves :
      LET inside(r1, r2, c1, c2) == 0 <= r1 /\ r1 < r2 /\ r2 <= rows /\
                                    0 <= c1 /\ c1 < c2 /\ c2 <= cols
      IN  /\ inside(m.src.start_row, m.src.end_row, m.src.start_col, m.src.end_col)
          /\ inside(m.src.start_row - m.downward, m.src.end_row - m.downward,
                    m.src.start_col - m.rightward, m.src.end_col - m.rightward)

(* The cursor is in the phantom position only at the right margin, where a *)
(* glyph did not leave room for another one: every step that moves it      *)
(* elsewhere, a resize included, has ended that state (updatecursor).      *)
PhantomAtMargin == at_phantom => \E w \in Widths : col + w >= cols

(* t/15state_mode.test, "!Origin mode bounds cursor to scrolling region":  *)
(* also when the region has no lower margin of its own.                    *)
OriginBoundsWithoutMargins == OriginExcept({"unbounded"})
=============================================================================
