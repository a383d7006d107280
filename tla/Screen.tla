------------------------------- MODULE Screen -------------------------------
(***************************************************************************)
(* The two buffers of libvterm's screen, the pen, and what DECSC and the   *)
(* DEC private modes 1047, 1048 and 1049 save, switch and restore          *)
(* (libvterm/src/state.c, pen.c, screen.c).  An editor or a pager enters   *)
(* the alternate screen and leaves it again, with anything in between.     *)
(*                                                                         *)
(* Columns, margins and scrolling are VTState's and Scrollback's: here a   *)
(* row is blank or has text, and the cursor is in a row.  Of the pen there *)
(* are the two attributes that depend on each other, bold and the          *)
(* foreground colour; of the modes saved with the cursor there is none.    *)
(***************************************************************************)
EXTENDS Integers

CONSTANTS
  Heights,       \* the values rows can take
  Colours        \* the indices 0..7 the host selects by SGR 30-37

ASSUME ScreenAssumption ==
  /\ Heights \subseteq Nat \ {0}
  /\ Colours \subseteq 0 .. 7

VARIABLES
  rows,
  buffers,       \* 0 the primary, 1 the alternate: row -> whether it has text
  buffer,        \* screen->buffer: the one in use
  alt_screen,    \* mode.alt_screen
  row,           \* the cursor
  pen, fg_ansi,  \* VTermState's pen; the colour of SGR 30-37, or -1
  screen_pen,    \* VTermScreen's copy, which glyphs are printed with
  saved,         \* VTermState.saved
  primary,       \* ghost: the primary screen as it was when it was left
  app,           \* ghost: what a 1049 found and the matching one is to bring
                 \* back; empty when none is
  deviations     \* ghost: what made the colour and bold disagree, or the
                 \* mode and the buffer

vars == <<rows, buffers, buffer, alt_screen, row, pen, fg_ansi, screen_pen,
          saved, primary, app, deviations>>
pens == <<pen, fg_ansi, screen_pen>>

Bright == {c + 8 : c \in Colours}
Default == 16      \* no index: default_fg
Pen == [bold : BOOLEAN, fg : {Default, 0} \cup Colours \cup Bright]
ResetPen == [bold |-> FALSE, fg |-> Default]
Empty(n) == [r \in 0 .. n - 1 |-> FALSE]

(* The saved cursor is zero until one is saved: row 0, and colour 0.       *)
Init ==
  /\ rows \in Heights
  /\ buffers = [b \in {0, 1} |-> Empty(rows)]
  /\ buffer = 0 /\ alt_screen = FALSE
  /\ row = 0
  /\ pen = ResetPen /\ fg_ansi = -1 /\ screen_pen = ResetPen
  /\ saved = [row |-> 0, pen |-> [bold |-> FALSE, fg |-> 0]]
  /\ primary = Empty(rows) /\ app = {}
  /\ deviations = {}

-----------------------------------------------------------------------------
(* What is printed.                                                        *)

putglyph ==
  /\ row < rows
  /\ buffers' = [buffers EXCEPT ![buffer][row] = TRUE]
  /\ UNCHANGED <<rows, buffer, alt_screen, row, pens, saved, primary, app, deviations>>

erase ==
  /\ \E r \in 0 .. rows - 1 : buffers' = [buffers EXCEPT ![buffer][r] = FALSE]
  /\ UNCHANGED <<rows, buffer, alt_screen, row, pens, saved, primary, app, deviations>>

MoveCursor ==
  /\ row' \in 0 .. rows - 1
  /\ UNCHANGED <<rows, buffers, buffer, alt_screen, pens, saved, primary, app, deviations>>

-----------------------------------------------------------------------------
(* SGR.  Each change of the pen is sent to the screen's copy, attribute by *)
(* attribute.                                                              *)

Highbright(c, bold) == IF bold THEN c + 8 ELSE c

(* "bold" and "fg" are the attributes setpenattr is called for.            *)
Send(p, attrs) ==
  /\ pen' = p
  /\ screen_pen' = [a \in {"bold", "fg"} |-> IF a \in attrs THEN p[a] ELSE screen_pen[a]]

Agree == deviations' = deviations \ {"colour"}
Disagree(here) == deviations' = deviations \cup (IF here THEN {"colour"} ELSE {})

vterm_state_resetpen == Send(ResetPen, {"bold", "fg"}) /\ fg_ansi' = -1

(* SGR 1 brightens the colour that SGR 30-37 selected.                     *)
BoldOn ==
  IF fg_ansi > -1
  THEN /\ Send([bold |-> TRUE, fg |-> Highbright(fg_ansi, TRUE)], {"bold", "fg"})
       /\ Agree /\ UNCHANGED fg_ansi
  ELSE /\ Send([pen EXCEPT !.bold = TRUE], {"bold"})
       /\ UNCHANGED <<fg_ansi, deviations>>

(* SGR 22 does not darken it again.                                        *)
BoldOff ==
  /\ Send([pen EXCEPT !.bold = FALSE], {"bold"})
  /\ Disagree(pen.bold /\ fg_ansi > -1)
  /\ UNCHANGED fg_ansi

Foreground(c) ==
  /\ fg_ansi' = c
  /\ Send([pen EXCEPT !.fg = Highbright(c, pen.bold)], {"fg"})
  /\ Agree

BrightForeground(c) ==
  /\ fg_ansi' = -1
  /\ Send([pen EXCEPT !.fg = c + 8], {"fg"})
  /\ Agree

DefaultForeground_KeepsIndex ==
  /\ Send([pen EXCEPT !.fg = Default], {"fg"})
  /\ Agree /\ UNCHANGED fg_ansi
DefaultForeground ==
  /\ fg_ansi' = -1
  /\ Send([pen EXCEPT !.fg = Default], {"fg"})
  /\ Agree

vterm_state_setpen ==
  /\ \/ vterm_state_resetpen /\ Agree
     \/ BoldOn \/ BoldOff \/ DefaultForeground
     \/ \E c \in Colours : Foreground(c) \/ BrightForeground(c)
  /\ UNCHANGED <<rows, buffers, buffer, alt_screen, row, saved, primary, app>>

-----------------------------------------------------------------------------
(* Saving, restoring, switching.                                           *)

SaveCursor ==
  /\ saved' = [row |-> row, pen |-> pen]
  /\ UNCHANGED <<row, pens>>

(* The index of the colour is neither saved nor restored with the pen.     *)
RestorePen_BoldOnly == Send(saved.pen, {"bold"}) /\ UNCHANGED fg_ansi
RestorePen == Send(saved.pen, {"bold", "fg"}) /\ UNCHANGED fg_ansi

RestoreCursor ==
  /\ row' = saved.row
  /\ RestorePen
  /\ UNCHANGED saved

Stray == fg_ansi > -1 /\ saved.pen.fg # Highbright(fg_ansi, saved.pen.bold)
AfterRestore(d) == IF Stray THEN d \cup {"colour"} ELSE d \ {"colour"}

(* altscreen: the buffer is switched first, so that the alternate one is   *)
(* erased.                                                                 *)
altscreen_ErasesFirst(alt) ==
  /\ buffer' = IF alt THEN 1 ELSE 0
  /\ alt_screen' = alt
  /\ buffers' = IF alt THEN [buffers EXCEPT ![buffer] = Empty(rows)] ELSE buffers
altscreen_NotStored(alt) ==
  /\ buffer' = IF alt THEN 1 ELSE 0
  /\ alt_screen' = (alt \/ alt_screen)
  /\ buffers' = IF alt THEN [buffers EXCEPT ![1] = Empty(rows)] ELSE buffers
altscreen(alt) ==
  /\ buffer' = IF alt THEN 1 ELSE 0
  /\ alt_screen' = alt
  /\ buffers' = IF alt THEN [buffers EXCEPT ![1] = Empty(rows)] ELSE buffers

Left == primary' = IF buffer = 0 THEN buffers[0] ELSE primary

(* CSI ? 1047 h and l. *)
Mode1047(val) ==
  /\ altscreen(val)
  /\ Left
  /\ app' = IF val THEN app ELSE {}
  /\ deviations' = deviations \ {"mode"}
  /\ UNCHANGED <<rows, row, pens, saved>>

(* ESC 7, CSI s, CSI ? 1048 h; ESC 8, CSI u, CSI ? 1048 l.                 *)
Mode1048(val) ==
  /\ IF val
     THEN SaveCursor /\ app' = {} /\ UNCHANGED deviations
     ELSE RestoreCursor /\ UNCHANGED app /\ deviations' = AfterRestore(deviations)
  /\ UNCHANGED <<rows, buffers, buffer, alt_screen, primary>>

(* CSI ? 1049 h: what the application finds is what it has to leave.       *)
Mode1049On ==
  /\ altscreen(TRUE)
  /\ SaveCursor
  /\ Left
  /\ app' = IF buffer = 0 THEN {[primary |-> buffers[0], row |-> row, pen |-> pen]}
            ELSE {}
  /\ deviations' = deviations \ {"mode"}
  /\ UNCHANGED rows

(* CSI ? 1049 l. *)
Mode1049Off ==
  /\ altscreen(FALSE)
  /\ RestoreCursor
  /\ Left
  /\ app' = {}
  /\ deviations' = AfterRestore(deviations \ {"mode"})
  /\ UNCHANGED rows

-----------------------------------------------------------------------------
(* RIS erases the screen that is shown and moves the cursor, and forgets   *)
(* the alternate screen without leaving it; what is saved is kept. The     *)
(* soft reset is never called: on_csi compares a leader "!" with its       *)
(* commands, and the parser takes "!" for an intermediate.                 *)
vterm_state_reset ==
  /\ alt_screen' = FALSE
  /\ vterm_state_resetpen
  /\ row' = 0 /\ buffers' = [buffers EXCEPT ![buffer] = Empty(rows)]
  /\ app' = {}
  /\ deviations' = IF buffer = 1 THEN {"mode"} ELSE {}
  /\ UNCHANGED <<rows, buffer, saved, primary>>

(* on_resize and resize: both buffers keep the rows that still fit.        *)
Resized(b, n) == [r \in 0 .. n - 1 |-> IF r < rows THEN b[r] ELSE FALSE]
resize_OnlyShown(n) == [buffers EXCEPT ![buffer] = Resized(@, n)]
resize(n) == [b \in {0, 1} |-> Resized(buffers[b], n)]

on_resize ==
  /\ \E n \in Heights :
       /\ rows' = n
       /\ buffers' = resize(n)
       /\ row' = IF row >= n THEN n - 1 ELSE row
       /\ primary' = Resized(primary, n)
  /\ app' = {}
  /\ UNCHANGED <<buffer, alt_screen, pens, saved, deviations>>

Next ==
  \/ putglyph \/ erase \/ MoveCursor \/ vterm_state_setpen
  \/ Mode1047(TRUE) \/ Mode1047(FALSE) \/ Mode1048(TRUE) \/ Mode1048(FALSE)
  \/ Mode1049On \/ Mode1049Off
  \/ vterm_state_reset \/ on_resize

Spec == Init /\ [][Next]_vars

-----------------------------------------------------------------------------
(* Properties.                                                             *)

(* Type correctness; both buffers have the rows of the terminal            *)
(* (realloc_buffer), whichever is in use when it is resized.               *)
TypeOK ==
  /\ rows \in Heights
  /\ buffers \in [{0, 1} -> [0 .. rows - 1 -> BOOLEAN]]
  /\ buffer \in {0, 1} /\ alt_screen \in BOOLEAN
  /\ row \in Nat
  /\ pen \in Pen /\ screen_pen \in Pen
  /\ fg_ansi \in Colours \cup {-1}
  /\ saved \in [row : Nat, pen : Pen]
  /\ deviations \subseteq {"colour", "mode"}

(* Nothing that happens while the alternate screen is shown - printing,    *)
(* erasing, entering it again, a reset, a resize - changes the             *)
(* primary one (altscreen, settermprop, realloc_buffer).                   *)
PrimaryKept == buffer = 1 => buffers[0] = primary

(* An application that enters with 1049 and leaves with it, and did not    *)
(* save a cursor of its own, leaves the screen, the cursor and both copies *)
(* of the pen as it found them, whatever it printed and restored in        *)
(* between (set_dec_mode, savecursor, vterm_state_savepen).                *)
VisitLeavesNoTrace ==
  [][Mode1049Off => \A a \in app :
       /\ buffers'[0] = a.primary
       /\ row' = a.row
       /\ pen' = a.pen /\ screen_pen' = a.pen]_vars

(* The screen prints with the pen the state knows: no change of one is     *)
(* made without the other (setpenattr, vterm_state_savepen,                *)
(* vterm_state_resetpen).                                                  *)
PensAgree == screen_pen = pen

(* The foreground is the colour SGR 30-37 selected, bright when bold is    *)
(* on, but for the two named cases: SGR 22, and restoring a pen that was   *)
(* saved under another colour (vterm_state_setpen, vterm_state_savepen).   *)
ColourFollowsBold ==
  "colour" \notin deviations /\ fg_ansi > -1 => pen.fg = Highbright(fg_ansi, pen.bold)

(* mode.alt_screen says which buffer is in use, but between a reset in the *)
(* alternate screen and the next switch (altscreen, vterm_state_reset).    *)
ModeTellsBuffer ==
  "mode" \notin deviations => alt_screen = (buffer = 1)
=============================================================================
