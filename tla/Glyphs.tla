------------------------------- MODULE Glyphs -------------------------------
(***************************************************************************)
(* From the host's text to the cells of the screen: on_text of            *)
(* libvterm/src/state.c with the decoders of encoding.c it chooses from,   *)
(* the buffer that lets a combining mark join a glyph of an earlier call,  *)
(* and putglyph of screen.c.  The host's characters are cut into chunks    *)
(* anywhere.                                                               *)
(*                                                                         *)
(* A byte is its class: "a" ASCII, "L2", "L3" the leads of characters of   *)
(* two and three bytes, "O" the lead of an overlong one, "T" and "M"       *)
(* continuations, the second of which makes a combining mark of "L2"; "CR" *)
(* and "LF" are controls and "RIS" is the sequence ESC c, which the parser *)
(* (VParser) hands over complete.  A code point is the bytes it is made    *)
(* of.  Columns and rows count from 0.                                     *)
(***************************************************************************)
EXTENDS Integers, Sequences

CONSTANTS
  Chars,         \* the characters the host sends, each a sequence of bytes
  Rows, Cols,    \* the terminal
  MaxPerCell,    \* VTERM_MAX_CHARS_PER_CELL (6)
  CombineSize,   \* combine_chars_size (16)
  MaxSent        \* bound: the characters sent

Controls == {"CR", "LF", "RIS"}
Lead == {"L2", "L3", "O"}
Continuation == {"T", "M"}
Byte == {"a"} \cup Lead \cup Continuation \cup Controls

ASSUME GlyphsAssumption ==
  /\ Chars \subseteq Seq(Byte)
  /\ Rows \in Nat \ {0} /\ Cols \in Nat \ {0}
  /\ MaxPerCell \in Nat \ {0}
  /\ CombineSize \in Nat /\ CombineSize >= MaxPerCell
  /\ MaxSent \in Nat

VARIABLES
  g_enc,           \* encoding[0..3]: "usascii", "utf8" after a reset
  g_data,          \* the decoder state of encoding[gl_set] ...
  utf8_data,       \* ... and of encoding_utf8
  term,            \* cells, row, col and at_phantom
  combine,         \* combine_chars, combine_width, combine_pos
  wire,            \* external: what the host sent and nobody read
  bytes,           \* the rest of the chunk vterm_push_bytes works on
  ref,             \* ghost: the same bytes, read one by one
  quirks,          \* ghost: the deviations that have happened
  sent             \* ghost: the characters sent

vars == <<g_enc, g_data, utf8_data, term, combine, wire, bytes, ref, quirks, sent>>

-----------------------------------------------------------------------------
(* Decoding.                                                               *)

Invalid == <<"INVALID">>
Following(lead) == IF lead = "L3" THEN 2 ELSE 1
Checked(cp) == IF cp[1] = "O" THEN Invalid ELSE cp
Combining(cp) == cp = <<"L2", "M">>
Width(cp) == IF Combining(cp) THEN 0 ELSE IF cp[1] = "L3" THEN 2 ELSE 1

(* A decoder: the bytes a character still needs, and those it has.         *)
NoChar == [need |-> 0, cp |-> <<>>]

(* One byte in decode_utf8: the decoder's state and the code points that   *)
(* come out, the first of which may stand for a character broken off.      *)
Broken(d) == IF d.need > 0 THEN <<Invalid>> ELSE <<>>
Decode(d, b) ==
  CASE b = "a" -> [dec |-> NoChar, out |-> Append(Broken(d), <<"a">>)]
    [] b \in Lead ->
         [dec |-> [need |-> Following(b), cp |-> <<b>>], out |-> Broken(d)]
    [] b \in Continuation /\ d.need = 0 -> [dec |-> d, out |-> <<Invalid>>]
    [] b \in Continuation /\ d.need = 1 ->
         [dec |-> NoChar, out |-> <<Checked(Append(d.cp, b))>>]
    [] b \in Continuation /\ d.need > 1 ->
         [dec |-> [need |-> d.need - 1, cp |-> Append(d.cp, b)], out |-> <<>>]

DecodeNext(s, b) ==
  LET r == Decode(s.dec, b) IN [dec |-> r.dec, out |-> s.out \o r.out]

decode_utf8_Fresh(d, run) ==
  LET s[n \in 0 .. Len(run)] ==
        IF n = 0 THEN [dec |-> NoChar, out |-> <<>>] ELSE DecodeNext(s[n - 1], run[n])
  IN  s[Len(run)]
decode_utf8(d, run) ==
  LET s[n \in 0 .. Len(run)] ==
        IF n = 0 THEN [dec |-> d, out |-> <<>>] ELSE DecodeNext(s[n - 1], run[n])
  IN  s[Len(run)]

(* How far a call of on_text reads: both decoders stop at a control, US-   *)
(* ASCII also at a high byte.                                              *)
RunOf(ascii) ==
  LET stops == {i \in 1 .. Len(bytes) :
                  bytes[i] \in Controls \/ (ascii /\ bytes[i] # "a")}
  IN  IF stops = {} THEN bytes
      ELSE SubSeq(bytes, 1, (CHOOSE i \in stops : \A j \in stops : i <= j) - 1)

-----------------------------------------------------------------------------
(* The screen.                                                             *)

Cells == (0 .. Rows - 1) \X (0 .. Cols - 1)
Blank == <<>>
Half == <<"half">>     \* the right half of a wide glyph
BlankScreen == [p \in Cells |-> Blank]

Fits(chars) == SubSeq(chars, 1, IF Len(chars) < MaxPerCell THEN Len(chars) ELSE MaxPerCell)

(* putglyph: what does not fit a cell is cut, what is off the screen is    *)
(* not drawn.                                                              *)
putglyph(cells, chars, width, at) ==
  [p \in Cells |-> CASE p = at -> Fits(chars)
                     [] p[1] = at[1] /\ p[2] > at[2] /\ p[2] < at[2] + width -> Half
                     [] OTHER -> cells[p]]

linefeed(t) ==
  IF t.row < Rows - 1 THEN [t EXCEPT !.row = @ + 1]
  ELSE [t EXCEPT !.cells = [p \in Cells |->
          IF p[1] = Rows - 1 THEN Blank ELSE t.cells[<<p[1] + 1, p[2]>>]]]

Pos(t) == <<t.row, t.col>>

WidthOf(glyph) ==
  LET w[n \in 0 .. Len(glyph)] == IF n = 0 THEN 0 ELSE w[n - 1] + Width(glyph[n])
  IN  w[Len(glyph)]

(* The position a glyph goes to: the phantom position is the next line.    *)
Wrapped(t) ==
  IF t.at_phantom THEN [linefeed(t) EXCEPT !.col = 0, !.at_phantom = FALSE] ELSE t

Moved_PastMargin(t, width) == [t EXCEPT !.col = @ + width]
Moved(t, width) ==
  IF t.col + width >= Cols THEN [t EXCEPT !.at_phantom = TRUE]
  ELSE [t EXCEPT !.col = @ + width]

(* The turn of the loop of on_text for one glyph: a base and its marks.    *)
Put(t, glyph) ==
  LET w == Wrapped(t)
  IN  Moved([w EXCEPT !.cells = putglyph(@, glyph, WidthOf(glyph), Pos(w))],
            WidthOf(glyph))

(* on_control moves the cursor, which leaves the phantom position.         *)
OnControl(t, b) ==
  LET m == CASE b = "CR" -> [t EXCEPT !.col = 0]
             [] b = "LF" -> linefeed(t)
  IN  IF Pos(m) = Pos(t) THEN m ELSE [m EXCEPT !.at_phantom = FALSE]

ResetTerm == [cells |-> BlankScreen, row |-> 0, col |-> 0, at_phantom |-> FALSE]

-----------------------------------------------------------------------------
(* The reference: every code point as it comes, with one decoder.  A mark  *)
(* joins the glyph before it while that is there and the cursor has not    *)
(* moved.                                                                  *)

NoGlyph == [glyph |-> <<>>, at |-> <<0, 0>>]

RefPut(r, cp) ==
  IF Combining(cp) /\ r.last # NoGlyph
  THEN LET glyph == Append(r.last.glyph, cp)
       IN  [r EXCEPT !.last.glyph = glyph,
                     !.term.cells = putglyph(@, glyph, WidthOf(glyph), r.last.at)]
  ELSE [r EXCEPT !.term = Put(@, <<cp>>),
                 !.last = [glyph |-> <<cp>>, at |-> Pos(Wrapped(r.term))]]

RefControl(r, b) ==
  LET t == IF b = "RIS" THEN ResetTerm ELSE OnControl(r.term, b)
      still == Pos(t) = Pos(r.term) /\ t.cells = r.term.cells
  IN  [r EXCEPT !.term = t, !.last = IF still THEN @ ELSE NoGlyph]

RefPuts(r, points) ==
  LET s[n \in 0 .. Len(points)] == IF n = 0 THEN r ELSE RefPut(s[n - 1], points[n])
  IN  s[Len(points)]

RefByte(r, b) ==
  IF b \in Controls THEN RefControl(r, b)
  ELSE LET d == Decode(r.dec, b) IN RefPuts([r EXCEPT !.dec = d.dec], d.out)

RefRead(r, run) ==
  LET s[n \in 0 .. Len(run)] == IF n = 0 THEN r ELSE RefByte(s[n - 1], run[n])
  IN  s[Len(run)]

-----------------------------------------------------------------------------
(* The host and the connection.                                            *)

Idle == bytes = <<>>

(* vterm_screen_reset comes before vterm_parser_set_utf8, so the character *)
(* sets of the first reset are US-ASCII.                                   *)
Init ==
  /\ g_enc = "usascii"
  /\ g_data = NoChar /\ utf8_data = NoChar
  /\ term = ResetTerm
  /\ combine = [chars |-> <<>>, width |-> 0, pos |-> <<0, 0>>]
  /\ wire = <<>> /\ bytes = <<>>
  /\ ref = [dec |-> NoChar, term |-> ResetTerm, last |-> NoGlyph]
  /\ quirks = {} /\ sent = 0

(* What arrives while a chunk is worked on waits: it might as well arrive  *)
(* afterwards.                                                             *)
Host ==
  /\ Idle /\ sent < MaxSent
  /\ \E char \in Chars : wire' = wire \o char
  /\ sent' = sent + 1
  /\ UNCHANGED <<g_enc, g_data, utf8_data, term, combine, bytes, ref, quirks>>

(* console_poll reads what is there, up to its limit.                      *)
console_poll ==
  /\ Idle
  /\ \E n \in 1 .. Len(wire) :
       /\ bytes' = SubSeq(wire, 1, n)
       /\ wire' = SubSeq(wire, n + 1, Len(wire))
       /\ ref' = RefRead(ref, SubSeq(wire, 1, n))
  /\ UNCHANGED <<g_enc, g_data, utf8_data, term, combine, quirks, sent>>

-----------------------------------------------------------------------------
(* on_text.                                                                *)

(* The code points of a call, split before each one that is no mark.       *)
Grouped(gs, cp) ==
  IF Combining(cp) /\ gs # <<>> THEN [gs EXCEPT ![Len(gs)] = Append(@, cp)]
  ELSE Append(gs, <<cp>>)

Glyphs(points) ==
  LET gs[n \in 0 .. Len(points)] ==
        IF n = 0 THEN <<>> ELSE Grouped(gs[n - 1], points[n])
  IN  gs[Len(points)]

PutAll(t, gs) ==
  LET put[n \in 0 .. Len(gs)] == IF n = 0 THEN t ELSE Put(put[n - 1], gs[n])
  IN  put[Len(gs)]

(* combine_chars after more has been stored: grow_combine_buffer does not  *)
(* record the new size, so each further character copies the first         *)
(* CombineSize ones alone into a new buffer of twice the size, and of      *)
(* those that fit it no more than these are left.                          *)
Stored_Restarted(chars) ==
  IF Len(chars) <= CombineSize THEN chars ELSE SubSeq(chars, CombineSize + 1, Len(chars))
Stored(chars) ==
  IF Len(chars) <= CombineSize THEN chars ELSE SubSeq(chars, 1, CombineSize)

(* Whether a call that begins with a mark continues the last glyph: by the *)
(* position of the cursor alone.                                           *)
Joins(points) ==
  /\ points # <<>> /\ Combining(points[1])
  /\ term.row = combine.pos[1] /\ term.col = combine.pos[2] + combine.width

(* The cells, the cursor and the combining buffer after the code points.   *)
Rendered(points) ==
  LET gs == Glyphs(points)
      joined == Stored(combine.chars \o gs[1])
      first == IF Joins(points)
               THEN [term EXCEPT !.cells =
                       putglyph(@, joined, combine.width, combine.pos)]
               ELSE term
      rest == IF Joins(points) THEN Tail(gs) ELSE gs
      before == PutAll(first, SubSeq(rest, 1, Len(rest) - 1))
      final == rest[Len(rest)]
  IN  IF points = <<>> THEN [term |-> term, combine |-> combine]
      ELSE IF rest = <<>>
           THEN [term |-> first, combine |-> [combine EXCEPT !.chars = joined]]
           ELSE [term |-> Put(before, final),
                 combine |-> [chars |-> Stored(final), width |-> WidthOf(final),
                              pos |-> Pos(Wrapped(before))]]

(* What is stored in the combining buffer, with a zero behind it.  It is   *)
(* never larger than twice CombineSize: what does not fit is written past  *)
(* its end.                                                                *)
ToStore(points) ==
  LET gs == Glyphs(points)
  IN  (IF Joins(points) THEN {combine.chars \o gs[1]} ELSE {})
        \cup (IF Joins(points) /\ Len(gs) = 1 THEN {} ELSE {gs[Len(gs)]})
Overruns(points) ==
  IF points # <<>> /\ \E chars \in ToStore(points) : Len(chars) >= 2 * CombineSize
  THEN {"overrun"} ELSE {}

Render(points) ==
  /\ term' = Rendered(points).term
  /\ combine' = Rendered(points).combine

(* A mark at the beginning of a call in the phantom position finds the     *)
(* cursor in the column of its glyph and not behind it; one whose glyph    *)
(* scrolled away finds the cursor where it was.                            *)
Deviations(points) ==
  (IF points # <<>> /\ Combining(points[1]) /\ term.at_phantom THEN {"margin"} ELSE {})
  \cup
  (IF Joins(points) /\ term.cells[combine.pos] # Fits(combine.chars)
   THEN {"stale"} ELSE {})

(* The first byte chooses the decoder; one left in the middle of a         *)
(* character by the other is not asked.                                    *)
Unasked(d) == IF d.need > 0 THEN {"decoder"} ELSE {}

AsciiText ==
  /\ ~Idle /\ bytes[1] = "a" /\ g_enc = "usascii"
  /\ LET run == RunOf(TRUE)
         points == [i \in 1 .. Len(run) |-> <<run[i]>>]
     IN  /\ bytes' = SubSeq(bytes, Len(run) + 1, Len(bytes))
         /\ Render(points)
         /\ quirks' = quirks \cup Unasked(utf8_data)
  /\ UNCHANGED <<g_enc, g_data, utf8_data, wire, ref, sent>>

(* After a reset encoding[gl_set] is UTF-8 as well, with a state of its    *)
(* own.                                                                    *)
AsciiFirst ==
  /\ ~Idle /\ bytes[1] = "a" /\ g_enc = "utf8"
  /\ LET run == RunOf(FALSE)
         d == decode_utf8(g_data, run)
     IN  /\ bytes' = SubSeq(bytes, Len(run) + 1, Len(bytes))
         /\ g_data' = d.dec
         /\ Render(d.out)
         /\ quirks' = quirks \cup Unasked(utf8_data) \cup Deviations(d.out) \cup Overruns(d.out)
  /\ UNCHANGED <<g_enc, utf8_data, wire, ref, sent>>

HighFirst ==
  /\ ~Idle /\ bytes[1] \in Lead \cup Continuation
  /\ LET run == RunOf(FALSE)
         d == decode_utf8(utf8_data, run)
     IN  /\ bytes' = SubSeq(bytes, Len(run) + 1, Len(bytes))
         /\ utf8_data' = d.dec
         /\ Render(d.out)
         /\ quirks' = quirks \cup Unasked(g_data) \cup Deviations(d.out) \cup Overruns(d.out)
  /\ UNCHANGED <<g_enc, g_data, wire, ref, sent>>

on_text == AsciiText \/ AsciiFirst \/ HighFirst

on_control ==
  /\ ~Idle /\ bytes[1] \in Controls \ {"RIS"}
  /\ term' = OnControl(term, bytes[1])
  /\ bytes' = Tail(bytes)
  /\ UNCHANGED <<g_enc, g_data, utf8_data, combine, wire, ref, quirks, sent>>

(* RIS: the character sets begin anew, encoding_utf8 and the combining     *)
(* buffer stay.                                                            *)
vterm_state_reset ==
  /\ ~Idle /\ bytes[1] = "RIS"
  /\ g_enc' = "utf8"
  /\ g_data' = NoChar
  /\ term' = ResetTerm
  /\ quirks' = quirks \cup Unasked(g_data)
  /\ bytes' = Tail(bytes)
  /\ UNCHANGED <<utf8_data, combine, wire, ref, sent>>

(* Nothing is known of the program once it has written past the buffer.    *)
Next ==
  /\ "overrun" \notin quirks
  /\ Host \/ console_poll \/ on_text \/ on_control \/ vterm_state_reset

Spec == Init /\ [][Next]_vars

-----------------------------------------------------------------------------
(* Properties.                                                             *)

Decoder(d) ==
  /\ d.need \in 0 .. 2
  /\ \A i \in 1 .. Len(d.cp) : d.cp[i] \in Lead \cup Continuation
  /\ (d.need = 0) = (d.cp = <<>>)

(* Type correctness; the cursor stays on the screen whatever the widths,   *)
(* no cell holds more than it can (on_text, putglyph), and as long as the  *)
(* combining buffer was not overrun it holds no more of a glyph than its   *)
(* recorded size.                                                          *)
TypeOK ==
  /\ g_enc \in {"usascii", "utf8"}
  /\ Decoder(g_data) /\ Decoder(utf8_data)
  /\ DOMAIN term.cells = Cells /\ \A p \in Cells : Len(term.cells[p]) <= MaxPerCell
  /\ Pos(term) \in Cells /\ term.at_phantom \in BOOLEAN
  /\ "overrun" \notin quirks => Len(combine.chars) <= CombineSize
  /\ combine.pos \in Cells /\ combine.width \in 0 .. 2
  /\ \A i \in 1 .. Len(wire) : wire[i] \in Byte
  /\ \A i \in 1 .. Len(bytes) : bytes[i] \in Byte
  /\ quirks \subseteq {"decoder", "margin", "stale", "overrun"}
  /\ sent \in 0 .. MaxSent

(* Where the chunks are cut, within a character or between a letter and    *)
(* its marks, makes no difference to what is on the screen, but for the    *)
(* named deviations (on_text, with its combining buffer, and decode_utf8). *)
ShownAsSent == Idle /\ quirks = {} => term = ref.term

(* Between two chunks the unfinished character is in one decoder, and with *)
(* it everything of it that was read (encoding, encoding_utf8).            *)
UnfinishedKept ==
  Idle /\ quirks = {} =>
    {g_data, utf8_data} = {NoChar, ref.dec}
=============================================================================
