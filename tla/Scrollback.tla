----------------------------- MODULE Scrollback -----------------------------
(***************************************************************************)
(* hterm's scrollback: the ring buffer of main.c, the prescroll callback   *)
(* that fills it when the libvterm screen scrolls, and grab_row, through   *)
(* which the window and the copy code read it.                             *)
(*                                                                         *)
(* A row of text is a member of Lines.  A scroll of the screen runs the    *)
(* prescroll loop before it moves the cells, so it is several steps here:  *)
(* Scroll starts it, each PushRow is one iteration of the loop, and        *)
(* ShiftRows is the memmove and the erase that follow.  The program is     *)
(* single threaded: nothing else runs between them.                        *)
(***************************************************************************)
EXTENDS Integers, Sequences

CONSTANTS
  Size,        \* scroll_buffer_initial_size (10000 in the code)
  Lines,       \* what a row of the screen can hold
  Blank,       \* the row an erase leaves
  NoLine,      \* the null pointer of an empty slot
  Heights,     \* the values rows can take
  Widths,      \* the values cols can take
  MaxHistory,  \* bound: how many lines a behaviour pushes
  MaxOffset    \* bound: how far up the wheel is turned

ASSUME ScrollbackAssumption ==
  /\ Size \in Nat \ {0}
  /\ Blank \in Lines
  /\ NoLine \notin Lines
  /\ Heights \subseteq Nat \ {0}
  /\ Widths \subseteq Nat \ {0}
  /\ MaxHistory \in Nat
  /\ MaxOffset \in Nat

VARIABLES
  scroll_buffer,       \* slot -> line
  scroll_buffer_lens,  \* slot -> its number of cells
  scroll_buffer_size,  \* 0 until the first push allocates the ring
  scroll_buffer_end,   \* the slot after the newest line
  scroll_offset,       \* how many rows the view is scrolled up
  rows, cols,          \* the size of the terminal
  screen,              \* row -> line, the cells libvterm holds
  prescroll,           \* the prescroll loop; end_row = 0 when none runs
  history              \* ghost: every row that was pushed, oldest first

ring == <<scroll_buffer, scroll_buffer_lens, scroll_buffer_size,
          scroll_buffer_end, history>>
vars == <<ring, scroll_offset, rows, cols, screen, prescroll>>

Slots == 0 .. Size - 1

(* A pushed row: its text and the width of the terminal at that moment. *)
Entry == [line : Lines, len : Widths]

NoScroll == [row |-> 0, end_row |-> 0, bottom |-> 0]
Idle == prescroll.end_row = 0

Init ==
  /\ scroll_buffer = [i \in Slots |-> NoLine]
  /\ scroll_buffer_lens = [i \in Slots |-> 0]
  /\ scroll_buffer_size = 0
  /\ scroll_buffer_end = 0
  /\ scroll_offset = 0
  /\ rows \in Heights
  /\ cols \in Widths
  /\ screen = [r \in 0 .. rows - 1 |-> Blank]
  /\ prescroll = NoScroll
  /\ history = <<>>

-----------------------------------------------------------------------------
(* Reading the ring.                                                       *)

(* Mutants of GetIndex: no wrap below slot 0; the newest line off by one.  *)
GetIndex_NoWrap(line_number) ==
  LET idx == scroll_buffer_end - line_number - 1 IN IF idx < 0 THEN 0 ELSE idx

GetIndex_OffByOne(line_number) ==
  LET idx == scroll_buffer_end - line_number
  IN  IF idx < 0 THEN scroll_buffer_size + idx ELSE idx % Size

(* The index scroll_buffer_get computes for a line number, size_t          *)
(* arithmetic narrowed to an int included.                                 *)
GetIndex(line_number) ==
  LET idx == scroll_buffer_end - line_number - 1
  IN  IF idx < 0 THEN scroll_buffer_size + idx ELSE idx

scroll_buffer_get(line_number) ==
  [line |-> scroll_buffer[GetIndex(line_number)],
   len  |-> scroll_buffer_lens[GetIndex(line_number)]]

(* A row of the view: the screen from 0 down, the scrollback above it.     *)
grab_row(trow) ==
  IF trow >= 0 THEN [line |-> screen[trow], len |-> cols]
  ELSE IF -trow > scroll_buffer_size THEN [line |-> NoLine, len |-> 0]
  ELSE scroll_buffer_get(-trow)

-----------------------------------------------------------------------------
(* Filling it.                                                             *)

(* Mutant of scroll_buffer_push: the end wraps right after a push.         *)
scroll_buffer_push_WrapEarly(line, len) ==
  LET fresh == scroll_buffer_size = 0
      slot  == scroll_buffer_end
  IN  /\ scroll_buffer_size' = IF fresh THEN Size ELSE scroll_buffer_size
      /\ scroll_buffer' = [scroll_buffer EXCEPT ![slot] = line]
      /\ scroll_buffer_lens' = [scroll_buffer_lens EXCEPT ![slot] = len]
      /\ scroll_buffer_end' = IF slot + 1 >= Size THEN 0 ELSE slot + 1

(* The first push allocates the ring, every slot of it empty; a push at    *)
(* the end starts over at slot 0, where it frees the oldest line.          *)
scroll_buffer_push(line, len) ==
  LET fresh == scroll_buffer_size = 0
      slot  == IF fresh \/ scroll_buffer_end >= scroll_buffer_size
               THEN 0 ELSE scroll_buffer_end
  IN  /\ scroll_buffer_size' = IF fresh THEN Size ELSE scroll_buffer_size
      /\ scroll_buffer' = [scroll_buffer EXCEPT ![slot] = line]
      /\ scroll_buffer_lens' = [scroll_buffer_lens EXCEPT ![slot] = len]
      /\ scroll_buffer_end' = slot + 1

(* Mutant of PushRow: the loop runs over the rows from the bottom up.      *)
PushRow_Backward ==
  LET row == prescroll.end_row - 1 - prescroll.row
  IN  /\ prescroll.row < prescroll.end_row
      /\ scroll_buffer_push(screen[row], cols)
      /\ history' = Append(history, [line |-> screen[row], len |-> cols])
      /\ prescroll' = [prescroll EXCEPT !.row = @ + 1]
      /\ UNCHANGED <<scroll_offset, rows, cols, screen>>

(* One iteration of the loop of screen_prescroll.                          *)
PushRow ==
  /\ prescroll.row < prescroll.end_row
  /\ scroll_buffer_push(screen[prescroll.row], cols)
  /\ history' = Append(history, [line |-> screen[prescroll.row], len |-> cols])
  /\ prescroll' = [prescroll EXCEPT !.row = @ + 1]
  /\ UNCHANGED <<scroll_offset, rows, cols, screen>>

(* The rows top .. bottom - 1 after they moved up by n (down when n < 0):  *)
(* moverect_internal, then the erase of the rows left free.                *)
Shifted(top, bottom, n) ==
  [r \in DOMAIN screen |->
     IF r < top \/ r >= bottom THEN screen[r]
     ELSE IF r + n >= top /\ r + n < bottom THEN screen[r + n]
     ELSE Blank]

(* The prescroll callback has returned: move the cells.                    *)
ShiftRows ==
  /\ ~Idle
  /\ prescroll.row = prescroll.end_row
  /\ screen' = Shifted(0, prescroll.bottom, prescroll.end_row)
  /\ prescroll' = NoScroll
  /\ UNCHANGED <<ring, scroll_offset, rows, cols>>

(* The host scrolls the rows top .. bottom - 1 by n: vterm_scroll_rect.    *)
(* A distance of the whole region, or more, which is no different, only    *)
(* erases it; a region that does not start at the top of the screen, and a *)
(* scroll downward, are not recorded.                                      *)
Scroll(top, bottom, n) ==
  /\ Idle
  /\ n # 0
  /\ LET erased == n >= bottom - top \/ -n >= bottom - top
     IN  \/ /\ ~erased /\ n > 0 /\ top = 0
            /\ Len(history) + n <= MaxHistory
            /\ prescroll' = [row |-> 0, end_row |-> n, bottom |-> bottom]
            /\ UNCHANGED screen
         \/ /\ erased \/ n < 0 \/ top > 0
            /\ screen' = Shifted(top, bottom, n)
            /\ UNCHANGED prescroll
  /\ UNCHANGED <<ring, scroll_offset, rows, cols>>

-----------------------------------------------------------------------------
(* The rest of the program, as far as the scrollback can tell.             *)

(* The host prints on a row of the screen.                                 *)
PutText(r, line) ==
  /\ Idle
  /\ screen' = [screen EXCEPT ![r] = line]
  /\ UNCHANGED <<ring, scroll_offset, rows, cols, prescroll>>

(* The window changes size: the cells that still fit are kept.             *)
Resize(new_rows, new_cols) ==
  /\ Idle
  /\ rows' = new_rows
  /\ cols' = new_cols
  /\ screen' = [r \in 0 .. new_rows - 1 |->
                  IF r < rows THEN screen[r] ELSE Blank]
  /\ UNCHANGED <<ring, scroll_offset, prescroll>>

WheelUp ==
  /\ Idle
  /\ scroll_offset < MaxOffset
  /\ scroll_offset' = scroll_offset + 1
  /\ UNCHANGED <<ring, rows, cols, screen, prescroll>>

(* Mutant of WheelDown: the offset is not kept from going below zero.      *)
WheelDown_Unclamped ==
  /\ Idle
  /\ scroll_offset' = scroll_offset - 1
  /\ UNCHANGED <<ring, rows, cols, screen, prescroll>>

WheelDown ==
  /\ Idle
  /\ scroll_offset' = IF scroll_offset - 1 < 0 THEN 0 ELSE scroll_offset - 1
  /\ UNCHANGED <<ring, rows, cols, screen, prescroll>>

(* Any key pressed returns the view to the screen.                         *)
KeyDown ==
  /\ Idle
  /\ scroll_offset' = 0
  /\ UNCHANGED <<ring, rows, cols, screen, prescroll>>

Next ==
  \/ PushRow
  \/ ShiftRows
  \/ \E top \in 0 .. rows - 1 : \E bottom \in top + 1 .. rows :
       \E n \in top - bottom .. bottom - top : Scroll(top, bottom, n)
  \/ \E r \in 0 .. rows - 1, line \in Lines : PutText(r, line)
  \/ \E new_rows \in Heights, new_cols \in Widths : Resize(new_rows, new_cols)
  \/ WheelUp
  \/ WheelDown
  \/ KeyDown

Spec == Init /\ [][Next]_vars

-----------------------------------------------------------------------------
(* Properties.                                                             *)

(* Every variable keeps its type, and a prescroll loop stays within the    *)
(* screen it reads.                                                        *)
TypeOK ==
  /\ scroll_buffer \in [Slots -> Lines \cup {NoLine}]
  /\ scroll_buffer_lens \in [Slots -> Widths \cup {0}]
  /\ scroll_buffer_size \in {0, Size}
  /\ scroll_buffer_end \in 0 .. Size
  /\ scroll_offset \in 0 .. MaxOffset
  /\ rows \in Heights
  /\ cols \in Widths
  /\ screen \in [0 .. rows - 1 -> Lines]
  /\ prescroll \in [row : Nat, end_row : Nat, bottom : Nat]
  /\ prescroll.row <= prescroll.end_row
  /\ ~Idle => prescroll.end_row < prescroll.bottom /\ prescroll.bottom <= rows
  /\ history \in Seq(Entry)

(* Once the ring is allocated, every line number grab_row can ask for has  *)
(* an index inside it: scroll_buffer_get's test for a negative index does  *)
(* not return, so an empty ring (scroll_buffer_end = 0 after the           *)
(* allocation) would be read before its first slot.                        *)
GetInBounds ==
  scroll_buffer_size # 0 => \A n \in 1 .. Size : GetIndex(n) \in Slots

(* The ring holds exactly the newest Size lines that left the screen, each *)
(* with the width it had then: line number k is the (k+1)-th newest, and   *)
(* the numbers beyond the history are empty slots.                         *)
RingHoldsHistory ==
  scroll_buffer_size # 0 =>
    \A k \in 0 .. Size - 1 :
      scroll_buffer_get(k) =
        IF k < Len(history) THEN history[Len(history) - k]
                            ELSE [line |-> NoLine, len |-> 0]

(* A scroll that moves the rows of the screen up has put each of the rows  *)
(* it overwrites at the top into the history, in order, with its width.    *)
ScrollSavesRows ==
  [][~Idle /\ Idle' =>
       \A r \in 0 .. prescroll.end_row - 1 :
         history[Len(history) - prescroll.end_row + r + 1] =
           [line |-> screen[r], len |-> cols]]_vars

(* The lines the ring holds, oldest first, read the way the view does.     *)
Stored ==
  IF scroll_buffer_size = 0 THEN 0
  ELSE IF scroll_buffer[Size - 1] = NoLine THEN scroll_buffer_end
  ELSE Size

Log == INSTANCE LineLog WITH
         Entries <- Entry,
         log <- [i \in 1 .. Stored |-> scroll_buffer_get(Stored - i)]

(* The ring implements a bounded log: a push appends a line and drops at   *)
(* most the oldest, and nothing else the program does changes it.          *)
ImplementsLog == Log!Spec

(* "Scrollback should be a fixed size circular buffer" (RELEASENOTES:120): *)
(* the rows above the screen are the lines of the buffer, the newest one   *)
(* directly above row 0.                                                   *)
RowsAboveScreenAreTheBuffer ==
  \A n \in 1 .. Stored :
    grab_row(-n) = history[Len(history) - n + 1]
=============================================================================
