------------------------------ MODULE Selection ------------------------------
(***************************************************************************)
(* Selecting with the mouse and copying (main.c 430-590, 943-1077), over   *)
(* the rows of Scrollback: a drag from a press to a release, with turns of *)
(* the wheel and output of the host in between, and clicks, of which a     *)
(* second one in the same cell copies the word there.  The box has corners *)
(* in columns and in rows relative to row 0 of the screen, so that rows    *)
(* above it are negative (grab_row).                                       *)
(*                                                                         *)
(* A line is a sequence of cells: a character, Space, or Empty (an erased  *)
(* cell, which is not copied).  The mouse moves in pixels.                 *)
(***************************************************************************)
EXTENDS Scrollback

CONSTANTS
  Xs, Ys,                   \* the pixels the mouse can be at
  CellWidth, CellHeight,    \* nunifont_width, nunifont_height and the spacing
  TextRoom                  \* the characters of two bytes in text: 5120

Space == " "
Empty == "0"
Newline == "newline"
Unread == "?"     \* what lies outside of a row
Nul == "nul"

(* A line feed is a control and not put into a cell.                       *)
ASSUME SelectionAssumption ==
  /\ Xs \subseteq Nat /\ Ys \subseteq Nat
  /\ CellWidth \in Nat \ {0} /\ CellHeight \in Nat \ {0}
  /\ TextRoom \in Nat
  /\ \A line \in Lines, w \in Widths : \A x \in 1 .. w : line[x] # Newline

VARIABLES
  press,     \* select_start_x, _y and _scroll_offset; empty when no button is
             \* down.  moved is a ghost: the host has changed the rows since
  copied,    \* what a release has just put into the clipboard, or that it
             \* wrote past the end of text
  want       \* ghost: what it was to put there

svars == <<vars, press, copied, want>>

SelInit == Init /\ press = {} /\ copied = {} /\ want = {}

-----------------------------------------------------------------------------
(* The box.                                                                *)

Low(a, b) == IF a < b THEN a ELSE b
High(a, b) == IF a < b THEN b ELSE a

Floor(p, size) == p \div size
Ceil(p, size) == (p + size - 1) \div size

(* mouse_to_select_box: the corners of a drag from (sx, sy), when the view *)
(* was so rows up, to (ex, ey), when it is eo rows up.                     *)
mouse_to_select_box_OneOffset(sx, sy, so, ex, ey, eo) ==
  LET row == IF sy # ey THEN Ceil(ey, CellHeight) - 1 ELSE Ceil(ey, CellHeight)
      col == IF sy > ey THEN Ceil(ex, CellWidth) - 1 ELSE Ceil(ex, CellWidth)
      stx == Floor(sx, CellWidth)
  IN  [stx |-> stx, sty |-> Floor(sy, CellHeight) - eo, etx |-> col, ety |-> row - eo]
mouse_to_select_box(sx, sy, so, ex, ey, eo) ==
  LET stx == Floor(sx, CellWidth)
      sty == Floor(sy, CellHeight) - so
      etx == Ceil(ex, CellWidth) - (IF sy > ey THEN 1 ELSE 0)
      ety == Ceil(ey, CellHeight) - eo - (IF sy # ey THEN 1 ELSE 0)
      further == CASE sty = ety /\ etx < stx -> -1
                   [] sty = ety /\ etx > stx -> 1
                   [] OTHER -> 0
  IN  [stx |-> stx, sty |-> sty, etx |-> etx + further, ety |-> ety]

-----------------------------------------------------------------------------
(* The text.                                                               *)

(* A row of the view.  One below the screen, which a level drag on the     *)
(* last row covers, is memory that was not written.                        *)
Row(y) ==
  IF y >= rows THEN [line |-> [x \in 1 .. cols |-> Unread], len |-> cols]
  ELSE grab_row(y)

Cell(r, x) == IF x \in 0 .. r.len - 1 THEN r.line[x + 1] ELSE Unread

Added(text, ch) == IF ch = Empty THEN text ELSE Append(text, ch)

Cut(r, from, to) ==
  LET width == High(0, to - from)
      cut[n \in 0 .. width] ==
        IF n = 0 THEN <<>> ELSE Added(cut[n - 1], Cell(r, from + n - 1))
  IN  cut[width]

(* "find last non-whitespace": the search begins at column cols, behind a  *)
(* row of the screen.  What is found there is a space or it is not.  The   *)
(* column found is the first one that is not copied.                       *)
Clip(r, to, space_behind) ==
  LET ink == {n \in 0 .. cols : /\ Cell(r, n) # Space
                                /\ ~(space_behind /\ Cell(r, n) = Unread)}
      last == CHOOSE n \in ink : \A m \in ink : m <= n
  IN  IF ink # {} /\ last < to THEN last ELSE to

(* A row of get_text_region from x1 in row y1 on, up to row y2.  Copying a *)
(* row that is not as wide as the end column moves that column, for the    *)
(* rows below; a row that is not there ends the text at its first          *)
(* character.                                                              *)
AddRow(t, y, x1, y1, y2, space_behind) ==
  LET r == Row(y)
      from == IF y = y1 THEN x1 ELSE 0
      to == Clip(r, IF y = y2 THEN t.end_x ELSE cols, space_behind)
      eol == IF y = y2 THEN <<>> ELSE <<Newline>>
  IN  IF r.line = NoLine
      THEN [t EXCEPT !.text = (IF @ = <<>> THEN @ ELSE <<Nul>> \o Tail(@)) \o eol]
      ELSE [text |-> t.text \o Cut(r, from, to) \o eol,
            end_x |-> IF to > from /\ t.end_x >= r.len THEN r.len - 1 ELSE t.end_x]

get_text_region(x1, y1, x2, y2, space_behind) ==
  LET height == y2 - y1 + 1
      upto[n \in 0 .. height] ==
        IF n = 0 THEN [text |-> <<>>, end_x |-> x2]
        ELSE AddRow(upto[n - 1], y1 + n - 1, x1, y1, y2, space_behind)
  IN  upto[height].text

(* The columns are put in order, and the rows, each for themselves. *)
Copy(box, space_behind) ==
  get_text_region(Low(box.stx, box.etx), Low(box.sty, box.ety),
                  High(box.stx, box.etx), High(box.sty, box.ety), space_behind)

-----------------------------------------------------------------------------
(* What a reader would copy: the text between two carets, each a row and   *)
(* the column it stands in front of.                                       *)

Before(a, b) == a.row < b.row \/ (a.row = b.row /\ a.col <= b.col)

RowBetween(a, b, y) ==
  LET r == Row(y)
  IN  (IF y = a.row THEN <<>> ELSE <<Newline>>)
        \o (IF r.line = NoLine THEN <<>>
            ELSE Cut(r, IF y = a.row THEN a.col ELSE 0,
                        IF y = b.row THEN b.col ELSE r.len))

Between(a, b) ==
  LET height == b.row - a.row + 1
      before[n \in 0 .. height] ==
        IF n = 0 THEN <<>> ELSE before[n - 1] \o RowBetween(a, b, a.row + n - 1)
  IN  before[height]

(* The caret of the press is left of its cell; that of the release takes   *)
(* in its cell when the mouse moved down, and within a row one more.       *)
Marked(p, ex, ey) ==
  LET start == [row |-> Floor(p.y, CellHeight) - p.so, col |-> Floor(p.x, CellWidth)]
      down == IF p.y > ey THEN 0 ELSE 1
      row == Floor(ey, CellHeight) - scroll_offset
      col == Floor(ex, CellWidth) + down
      further == IF row # start.row THEN 0
                 ELSE IF col < start.col THEN -1 ELSE IF col > start.col THEN 1 ELSE 0
      end == [row |-> row, col |-> col + further]
  IN  IF Before(start, end) THEN <<start, end>> ELSE <<end, start>>

(* The drags the code gets wrong, or depends on what is behind a row for:  *)
(* level, the release in the very pixel row of the press, which adds a     *)
(* row; on the first pixel of a cell; from a column to one further left in *)
(* a row further down, whose columns are exchanged; up to the margin from  *)
(* another row; over rows of another width, or two that are not there; and *)
(* all whose rows have moved since the press.                              *)
Ordinary(p, ex, ey) ==
  LET a == Marked(p, ex, ey)[1]
      b == Marked(p, ex, ey)[2]
      covered == [y \in a.row .. b.row |-> Row(y)]
  IN  /\ ~p.moved
      /\ p.y # ey
      /\ ex % CellWidth # 0 /\ ey % CellHeight # 0
      /\ a.col <= b.col
      /\ a.row # b.row => b.col < cols
      /\ b.col <= cols
      /\ \A y \in a.row .. b.row : covered[y].line # NoLine => covered[y].len = cols
      /\ \A y \in a.row + 1 .. b.row : covered[y].line # NoLine

-----------------------------------------------------------------------------
(* The mouse.                                                              *)

OnScreen(x, y) == Floor(x, CellWidth) < cols /\ Floor(y, CellHeight) < rows

(* SDL_MOUSEBUTTONDOWN. *)
Press(x, y) ==
  /\ Idle /\ OnScreen(x, y) /\ press = {}
  /\ press' = {[x |-> x, y |-> y, so |-> scroll_offset, moved |-> FALSE]}
  /\ copied' = {} /\ want' = {}
  /\ UNCHANGED vars

(* Behind the text eight zeros are written, into a buffer of fixed size.   *)
Overrun(text) == Len(text) + 8 > TextRoom

(* copy_text, unless there is no text. *)
Clipboard(kind, text, part) ==
  CASE Overrun(text) -> {[kind |-> "overrun", text |-> <<>>]}
    [] ~Overrun(text) /\ text = <<>> -> {}
    [] OTHER -> {[kind |-> kind, text |-> part]}

(* SDL_MOUSEBUTTONUP, behind the last SDL_MOUSEMOTION, within 15 pixels of *)
(* the press in both directions is a click, however large the cells are.   *)
IsClick(p, ex, ey) == p.x - ex \in -14 .. 14 /\ p.y - ey \in -14 .. 14

Release(ex, ey, space_behind) ==
  /\ Idle /\ OnScreen(ex, ey)
  /\ \E p \in press :
       LET box == mouse_to_select_box(p.x, p.y, p.so, ex, ey, scroll_offset)
           text == Copy(box, space_behind)
       IN  /\ ~IsClick(p, ex, ey)
           /\ copied' = Clipboard("region", text, text)
           /\ want' = IF Ordinary(p, ex, ey) /\ ~space_behind
                      THEN {Between(Marked(p, ex, ey)[1], Marked(p, ex, ey)[2])} ELSE {}
  /\ press' = {}
  /\ UNCHANGED vars

(* The word around the cell of a second click.  Its bounds are found in    *)
(* the text, whose places are those of the columns only if no cell of the  *)
(* row is empty; the first word of a line has no left bound, and the copy  *)
(* begins before the text.                                                 *)
RightBound_OffByOne(text, from) ==
  LET spaces == {n \in from .. Low(cols, Len(text)) - 1 : text[n + 1] \in {Space, Newline}}
  IN  IF spaces = {} THEN Len(text) - 1
      ELSE CHOOSE n \in spaces : \A k \in spaces : n <= k
RightBound(text, from) ==
  LET spaces == {n \in from .. Low(cols, Len(text)) - 1 : text[n + 1] \in {Space, Newline}}
  IN  IF spaces = {} THEN Len(text) - 1
      ELSE (CHOOSE n \in spaces : \A k \in spaces : n <= k) - 1

LeftBound(text, from) ==
  LET spaces == {n \in 0 .. Low(from, Len(text) - 1) : text[n + 1] \in {Space, Newline}}
  IN  IF spaces = {} THEN -1
      ELSE (CHOOSE n \in spaces : \A k \in spaces : k <= n) + 1

WordText(text, from) ==
  [i \in 1 .. High(0, RightBound(text, from) - LeftBound(text, from) + 1) |->
     LET n == LeftBound(text, from) + i - 1
     IN  IF n \in 0 .. Len(text) - 1 THEN text[n + 1] ELSE Unread]

(* The word a reader sees under the cell: the cells around it up to spaces *)
(* or the ends of the row.                                                 *)
WordAt(r, x) ==
  LET in(a, b) == \A k \in a .. b : Cell(r, k) \notin {Space, Empty}
      from == CHOOSE a \in 0 .. x : in(a, x) /\ \A k \in 0 .. x : in(k, x) => a <= k
      to == CHOOSE b \in x .. r.len - 1 : in(x, b) /\ \A k \in x .. r.len - 1 : in(x, k) => k <= b
  IN  Cut(r, from, to + 1)

HasWord(r, x) ==
  /\ r.line # NoLine /\ r.len = cols
  /\ \A k \in 0 .. cols - 1 : Cell(r, k) # Empty
  /\ Cell(r, x) # Space
  /\ \E k \in 0 .. x : Cell(r, k) = Space

(* A click in the cell of the click before it, again.  That one can have   *)
(* been any time ago, and the mouse need not be released in the cell.      *)
Click(ex, ey, again, space_behind) ==
  /\ Idle /\ OnScreen(ex, ey)
  /\ \E p \in press :
       LET box == mouse_to_select_box(p.x, p.y, p.so, ex, ey, scroll_offset)
           text == get_text_region(0, box.sty, cols, box.sty, space_behind)
           r == Row(box.sty)
       IN  /\ IsClick(p, ex, ey)
           /\ copied' = IF again THEN Clipboard("word", text, WordText(text, box.stx)) ELSE {}
           /\ want' = IF again /\ ~p.moved /\ ~space_behind /\ HasWord(r, box.stx)
                      THEN {WordAt(r, box.stx)} ELSE {}
  /\ press' = {}
  /\ UNCHANGED vars

(* Everything else.  Output and a new size change what the coordinates of  *)
(* a press refer to; turning the wheel does not.                           *)
Elsewhere ==
  /\ Next
  /\ press' = {[p EXCEPT !.moved = @ \/ screen' # screen \/ prescroll' # prescroll
                                     \/ rows' # rows \/ cols' # cols] : p \in press}
  /\ copied' = {} /\ want' = {}

(* Nothing is known of the program once it has written past text.          *)
SelNext ==
  /\ \A t \in copied : t.kind # "overrun"
  /\ \/ Elsewhere
     \/ \E x \in Xs, y \in Ys : Press(x, y)
     \/ \E x \in Xs, y \in Ys, space_behind \in BOOLEAN :
          \/ Release(x, y, space_behind)
          \/ \E again \in BOOLEAN : Click(x, y, again, space_behind)

SelSpec == SelInit /\ [][SelNext]_svars

-----------------------------------------------------------------------------
(* Properties.                                                             *)

(* A drag copies the text between the press and the release, in reading    *)
(* order, also when the view was scrolled in between and the two are in    *)
(* different parts of the scrollback and the screen, but for the drags     *)
(* Ordinary names and those whose text is too long for the buffer          *)
(* (RELEASENOTES:116, "allow the user selection to span multiple screens   *)
(* with scrolling", and :119, "Copy should take scroll offset into         *)
(* account"; mouse_to_select_box, get_text_region).                        *)
MarkedIsCopied ==
  \A t \in copied, w \in want : t.kind = "region" => t.text = w

(* A second click copies the whole word under the press and nothing else,  *)
(* also when the wheel is turned before the button is let go               *)
(* (RELEASENOTES:47, "single word selection"; process_mouse_event).        *)
WordIsCopied ==
  \A t \in copied, w \in want : t.kind = "word" => t.text = w
=============================================================================
